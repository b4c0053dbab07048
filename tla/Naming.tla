------------------------------- MODULE Naming -------------------------------
(***************************************************************************)
(* Names of values and the text of LightIR.  Values are made without a     *)
(* name.  set_instr_name walks a function and gives those that have none   *)
(* one made of their kind and a number: the size of a map of the values    *)
(* named in this walk plus a counter kept between walks.  Passes put       *)
(* values in and take them out between two walks, and Module::print walks  *)
(* every function twice.                                                   *)
(*                                                                         *)
(* The body of a function is one sequence: its arguments, then each block  *)
(* followed by its instructions.  A line of the text is a record; an       *)
(* operand in it is what print_as_op makes of it, after its type where     *)
(* the printer writes one.                                                 *)
(***************************************************************************)
EXTENDS Integers, Sequences, FiniteSets

CONSTANTS Function,
          FunctionList,   \* the functions in the order of the module
          Value,          \* arguments, blocks and instructions
          Outside,        \* constants and global variables, for operands
          Owner,          \* the function of each value
          Op,             \* "arg", "block" or the opcode
          TypeOf,         \* the type of each value, constant, global and function
          Element,        \* get_pointer_element_type
          Operands,       \* the operands of each value
          Start,          \* the body of each function when the builder is done
          Erasable,       \* bound on the instructions that passes take out
          NoFunction, NoName, NoType

Elements(s) == {s[i] : i \in DOMAIN s}
OperandsOf(v) == Elements(Operands[v])

\* Instruction::is_void.
IsVoid(v) == Op[v] \in {"ret", "br", "store"} \/ (Op[v] = "call" /\ TypeOf[v] = "void")

\* The block that place i of a body is in, and the blocks with a branch to b.
BlockOf(s, i) ==
  s[CHOOSE k \in 1..i : Op[s[k]] = "block" /\ \A j \in k + 1..i : Op[s[j]] # "block"]
PredecessorsIn(s, b) ==
  {BlockOf(s, i) : i \in {i \in DOMAIN s : Op[s[i]] = "br" /\ b \in OperandsOf(s[i])}}

\* The blocks that a phi has operands for: a value and its block, in turn.
PhiBlocks(v) == {Operands[v][2 * j] : j \in 1..Len(Operands[v]) \div 2}

ASSUME ProgramAssumption ==
  /\ FunctionList \in Seq(Function) /\ Elements(FunctionList) = Function
  /\ Owner \in [Value -> Function]
  /\ Start \in [Function -> Seq(Value)]
  /\ \A f \in Function : \A i \in DOMAIN Start[f] : Owner[Start[f][i]] = f
  /\ NoFunction \notin Function

ASSUME NameAssumption == NoName \notin {"arg", "label", "op"} \X Nat

\* A body as the builder leaves it: each value is in one place, with its operands in
\* the same function, instructions are in blocks, and phis have operands from
\* predecessors only.
ASSUME StartAssumption ==
  \A f \in Function : LET s == Start[f] IN
    /\ \A i, j \in DOMAIN s : s[i] = s[j] => i = j
    /\ \A v \in Elements(s) : OperandsOf(v) \cap Value \subseteq Elements(s)
    /\ \A i \in DOMAIN s : Op[s[i]] \in {"br", "phi"} => \E k \in 1..i : Op[s[k]] = "block"
    /\ \A i \in DOMAIN s : Op[s[i]] = "phi" => PhiBlocks(s[i]) \subseteq PredecessorsIn(s, BlockOf(s, i))

\* Operands have the types that the constructors of Instruction.cpp give them, and
\* passes take out no block and no branch.
ASSUME OperandsAssumption ==
  /\ Operands \in [Value -> Seq(Value \cup Outside \cup Function)]
  /\ \A v \in Value :
       /\ IsVoid(v) <=> TypeOf[v] = "void"
       /\ \A x \in OperandsOf(v) : TypeOf[x] # NoType /\ (x \in Value => ~IsVoid(x))
       /\ Op[v] = "phi" =>
            \A j \in DOMAIN Operands[v] :
              IF j % 2 = 0
                THEN /\ Operands[v][j] \in Value /\ Op[Operands[v][j]] = "block"
                     /\ TypeOf[Operands[v][j]] = "label"
                     /\ \A k \in DOMAIN Operands[v] : Operands[v][k] = Operands[v][j] => k = j
                ELSE /\ Operands[v][j] \in Value => Op[Operands[v][j]] # "block"
                     /\ TypeOf[Operands[v][j]] = TypeOf[Operands[v][1]]
       /\ Op[v] = "call" => Operands[v][1] \in Function /\ TypeOf[Operands[v][1]] = "function"
  /\ \A v \in Erasable : Op[v] \notin {"block", "br"}

VARIABLES body,     \* what is in each function
          made,     \* the values that exist or have existed
          name,     \* name_ of each value
          seqCnt,   \* seq_cnt_ of each function
          phase,    \* "idle", "names" (set_print_name) or "text" (Module::print after it)
          printing, \* set_print_name was called by Module::print, not by CodeGen::run
          left,     \* the functions that are still to be walked
          current,  \* the function that is walked, or NoFunction
          at,       \* the place in its body
          seq,      \* the values named in this walk
          text      \* what was last printed of each function, while it is unchanged

walk == <<phase, printing, left, current, at, seq>>
vars == <<body, made, name, seqCnt, walk, text>>

Init ==
  /\ body = Start
  /\ made = UNION {{Start[f][i] : i \in DOMAIN Start[f]} : f \in Function}
  /\ name = [v \in Value |-> NoName]
  /\ seqCnt = [f \in Function |-> 0]
  /\ phase = "idle" /\ printing = FALSE /\ left = <<>>
  /\ current = NoFunction /\ at = 1 /\ seq = {}
  /\ text = [f \in Function |-> <<>>]

----------------------------------------------------------------------------
(* What passes do to a function between two prints. *)

Predecessors(f, b) == PredecessorsIn(body[f], b)

\* Mem2Reg makes a phi and puts it at the beginning of a block; its operands come
\* from predecessors.
Insert(f, p, v) ==
  /\ phase = "idle"
  /\ v \notin made /\ Owner[v] = f
  /\ OperandsOf(v) \cap Value \subseteq Elements(body[f])
  /\ Op[v] = "phi" /\ Op[body[f][p]] = "block"
  /\ {b \in OperandsOf(v) \cap Value : Op[b] = "block"} \subseteq Predecessors(f, body[f][p])
  /\ body' = [body EXCEPT ![f] = SubSeq(@, 1, p) \o <<v>> \o SubSeq(@, p + 1, Len(@))]
  /\ made' = made \cup {v}
  /\ text' = [text EXCEPT ![f] = <<>>]
  /\ UNCHANGED <<name, seqCnt, walk>>

\* Mem2Reg and DeadCode destroy an instruction that nothing uses.
Erase(f, p) ==
  /\ phase = "idle"
  /\ body[f][p] \in Erasable
  /\ \A v \in Elements(body[f]) : body[f][p] \notin OperandsOf(v)
  /\ body' = [body EXCEPT ![f] = SubSeq(@, 1, p - 1) \o SubSeq(@, p + 1, Len(@))]
  /\ text' = [text EXCEPT ![f] = <<>>]
  /\ UNCHANGED <<made, name, seqCnt, walk>>

----------------------------------------------------------------------------
(* The text of a function. *)

\* print_as_op.
AsOp(x) ==
  IF x \in Value THEN <<"%", name[x]>>
  ELSE IF x \in Function THEN <<"@", x>> ELSE <<"", x>>
Typed(x) == [ty |-> TypeOf[x], as |-> AsOp(x)]
Untyped(x) == [ty |-> NoType, as |-> AsOp(x)]

Binary == {"add", "fadd", "icmp", "fcmp"}
Cast == {"zext", "fptosi", "sitofp"}

\* Slip: the predecessors without an operand are left out.
UndefsNone(f, i) == {}

\* The predecessors of its block that a phi has no operand for.
Undefs(f, i) ==
  LET block == BlockOf(body[f], i)
  IN IF Len(Operands[body[f][i]]) \div 2 < Cardinality(Predecessors(f, block))
     THEN Predecessors(f, block) \ OperandsOf(body[f][i]) ELSE {}

\* The operands as the print function of the opcode writes them.
Args(v) ==
  LET ops == Operands[v]
  IN [j \in DOMAIN ops |->
        IF \/ Op[v] \in Binary /\ (j = 1 \/ TypeOf[ops[j]] = TypeOf[ops[1]])
           \/ Op[v] = "phi"
           \/ Op[v] = "call" /\ j = 1
        THEN Untyped(ops[j]) ELSE Typed(ops[j])]

\* The type that follows the opcode.
LineType(v) ==
  CASE Op[v] \in Binary \cup {"phi"} -> TypeOf[Operands[v][1]]
    [] Op[v] \in {"arg", "call"} -> TypeOf[v]
    [] Op[v] \in {"load", "getelementptr"} -> Element[TypeOf[Operands[v][1]]]
    [] Op[v] = "alloca" -> Element[TypeOf[v]]
    [] OTHER -> NoType

Line(f, i) ==
  LET v == body[f][i]
  IN [def |-> IF IsVoid(v) THEN NoName ELSE name[v],
      op |-> Op[v],
      ty |-> LineType(v),
      to |-> IF Op[v] \in Cast THEN TypeOf[v] ELSE NoType,
      args |-> Args(v),
      undef |-> IF Op[v] = "phi" THEN {AsOp(b) : b \in Undefs(f, i)} ELSE {}]

IsDeclaration(f) == \A i \in DOMAIN body[f] : Op[body[f][i]] # "block"

\* Function::print; of a declaration only types are printed.
Printed(f) == IF IsDeclaration(f) THEN <<>> ELSE [i \in DOMAIN body[f] |-> Line(f, i)]

----------------------------------------------------------------------------
(* Module::print and set_print_name, one value in each step. *)

\* Module::print walks all functions, then each of them again to print it;
\* CodeGen::run calls set_print_name alone.
Begin ==
  /\ phase = "idle"
  /\ phase' = "names" /\ printing' \in BOOLEAN /\ left' = FunctionList
  /\ UNCHANGED <<body, made, name, seqCnt, current, at, seq, text>>

Walk ==
  /\ phase # "idle" /\ current = NoFunction /\ left # <<>>
  /\ current' = Head(left)
  /\ at' = 1 /\ seq' = {}
  /\ UNCHANGED <<body, made, name, seqCnt, phase, printing, left, text>>

Walking == current # NoFunction /\ at \in DOMAIN body[current]
Prefix(v) == IF Op[v] = "arg" THEN "arg" ELSE IF Op[v] = "block" THEN "label" ELSE "op"

\* set_name takes a name once.
NeedsName(v) == name[v] = NoName /\ (Prefix(v) = "op" => ~IsVoid(v))

Number == Cardinality(seq) + seqCnt[current]

NameValue ==
  /\ Walking
  /\ LET v == body[current][at]
     IN /\ NeedsName(v)
        /\ name' = [name EXCEPT ![v] = <<Prefix(v), Number>>]
        /\ seq' = seq \cup {v}
  /\ at' = at + 1
  /\ UNCHANGED <<body, made, seqCnt, phase, printing, left, current, text>>

SkipValue ==
  /\ Walking
  /\ ~NeedsName(body[current][at])
  /\ at' = at + 1
  /\ UNCHANGED <<body, made, name, seqCnt, phase, printing, left, current, seq, text>>

\* Slip: the counter starts again from the size of the map.
WalkedRestart ==
  /\ current # NoFunction /\ at \notin DOMAIN body[current]
  /\ seqCnt' = [seqCnt EXCEPT ![current] = Cardinality(seq)]
  /\ text' = IF phase = "text" THEN [text EXCEPT ![current] = Printed(current)] ELSE text
  /\ left' = Tail(left)
  /\ current' = NoFunction /\ seq' = {}
  /\ UNCHANGED <<body, made, name, phase, printing, at>>

\* The end of set_instr_name, and the rest of print.
Walked ==
  /\ current # NoFunction /\ at \notin DOMAIN body[current]
  /\ seqCnt' = [seqCnt EXCEPT ![current] = @ + Cardinality(seq)]
  /\ text' = IF phase = "text" THEN [text EXCEPT ![current] = Printed(current)] ELSE text
  /\ left' = Tail(left)
  /\ current' = NoFunction /\ seq' = {}
  /\ UNCHANGED <<body, made, name, phase, printing, at>>

\* All functions have been walked.
AllWalked ==
  /\ phase # "idle" /\ current = NoFunction /\ left = <<>>
  /\ IF phase = "names" /\ printing
     THEN phase' = "text" /\ left' = FunctionList
     ELSE phase' = "idle" /\ UNCHANGED left
  /\ UNCHANGED <<body, made, name, seqCnt, printing, current, at, seq, text>>

Edit ==
  \E f \in Function, p \in 1..Cardinality(Value) :
    /\ p \in DOMAIN body[f]
    /\ Erase(f, p) \/ \E v \in Value : Insert(f, p, v)

Next == Edit \/ Begin \/ Walk \/ NameValue \/ SkipValue \/ Walked \/ AllWalked

Spec == Init /\ [][Next]_vars

----------------------------------------------------------------------------
(* Properties. *)

Named(v) == name[v] # NoName

\* The type invariant; a value without a result never gets a name.
TypeOK ==
  /\ body \in [Function -> Seq(Value)]
  /\ \A f \in Function : \A i \in DOMAIN body[f] : Owner[body[f][i]] = f
  /\ made \subseteq Value
  /\ name \in [Value -> ({"arg", "label", "op"} \X Nat) \cup {NoName}]
  /\ \A v \in Value : Named(v) => name[v][1] = Prefix(v) /\ ~(Prefix(v) = "op" /\ IsVoid(v))
  /\ seqCnt \in [Function -> Nat]
  /\ phase \in {"idle", "names", "text"} /\ printing \in BOOLEAN
  /\ left \in Seq(Function)
  /\ current \in Function \cup {NoFunction}
  /\ at \in Nat \ {0}
  /\ seq \subseteq Value

\* However often a function is printed and whatever passes put into it or take out of
\* it in between, no two of its values ever get the same number.
NamesDiffer ==
  \A v, w \in Value :
    v # w /\ Owner[v] = Owner[w] /\ Named(v) /\ Named(w) => name[v][2] # name[w][2]

Numbers(f) == {name[v][2] : v \in {v \in Value : Owner[v] = f /\ Named(v)}}
Count(f) == seqCnt[f] + (IF f = current THEN Cardinality(seq) ELSE 0)

\* The numbers given so far are those below the counter and the size of the map: a
\* value that has its name already takes no number.
NumbersDense == \A f \in Function : Numbers(f) = 0..Count(f) - 1

\* A name that was given, and may have been printed, never changes.
NamesKept == [][\A v \in Value : Named(v) => name'[v] = name[v]]_vars

\* A reader of the text, who looks up names in the lines of the function, finds
\* for each operand its own definition and the type that the printer meant, and
\* for a phi one entry for each predecessor of its block.
Defines(f, as, i) == as[1] = "%" /\ text[f][i].def # NoName /\ text[f][i].def = as[2]
TypeRead(line, j) ==
  IF line.args[j].ty # NoType THEN line.args[j].ty
  ELSE IF line.op = "phi" /\ j % 2 = 0 THEN "label"
  ELSE IF line.op = "call" THEN "function" ELSE line.ty

OperandRead(f, i, j) ==
  LET x == Operands[body[f][i]][j]
      as == text[f][i].args[j].as
  IN /\ TypeRead(text[f][i], j) = TypeOf[x]
     /\ IF x \in Value
        THEN {k \in DOMAIN text[f] : Defines(f, as, k)} = {k \in DOMAIN body[f] : body[f][k] = x}
        ELSE as[2] = x

EntriesRead(f, i) ==
  LET line == text[f][i]
      blocks == [j \in 1..Len(line.args) \div 2 |-> line.args[2 * j].as]
  IN Elements(blocks) \cup line.undef = {AsOp(b) : b \in Predecessors(f, BlockOf(body[f], i))}

ReadBack ==
  \A f \in Function : text[f] # <<>> =>
    /\ Len(text[f]) = Len(body[f])
    /\ \A i \in DOMAIN text[f] :
         /\ (text[f][i].def = NoName) = (TypeOf[body[f][i]] = "void")
         /\ \A j \in DOMAIN text[f][i].args : OperandRead(f, i, j)
         /\ text[f][i].op = "phi" => EntriesRead(f, i)
=============================================================================
