------------------------------- MODULE Mem2Reg -------------------------------
(***************************************************************************)
(* The pass Mem2Reg on one function: phis are placed at the iterated       *)
(* dominance frontier of the blocks that store to a local variable         *)
(* (generate_phi), and a walk over the dominator tree replaces loads by    *)
(* the latest definition, fills in the operands of the phis and deletes    *)
(* the loads and stores (rename).                                          *)
(*                                                                         *)
(* After the pass the old and the new function are run side by side along  *)
(* the same path (Run...): that part is no code of the pass, it is what    *)
(* "the pass keeps the meaning of the function" is checked with.           *)
(*                                                                         *)
(* A variable stands for its alloca.  code[b] holds the loads and stores   *)
(* of b that go to variables; a store takes a fresh constant (from = 0) or *)
(* the result of load number from of the same block.  A value is           *)
(* <<"const", b, i>>, <<"load", b, i>> (defined by instruction i of b), or *)
(* <<"phi", b, v>> (the phi for v in b).                                   *)
(***************************************************************************)
EXTENDS Dominance, FiniteSets

CONSTANTS Var,       \* the local variables of type int or float
          NoVar,     \* phi_to_val of the phi of type null that every block gets
          Programs   \* the functions: records with fields succ and code

Access == [op : {"load", "store"}, var : Var, from : Nat]

\* What a store stores is a constant or was loaded before it in the same block.
ASSUME ProgramsAssumption ==
  /\ NoVar \notin Var
  /\ \A p \in Programs :
       /\ p.succ \in [Block -> Seq(Block)]
       /\ p.code \in [Block -> Seq(Access)]
       /\ \A b \in Block : \A i \in DOMAIN p.code[b] :
            LET k == p.code[b][i].from
            IN  p.code[b][i].op = "store" /\ k # 0 => k \in 1..(i - 1) /\ p.code[b][k].op = "load"

VARIABLES succ, code,
          dom_frontier, dom_tree_succ,  \* the results of Dominators
          vals, W, F, var, phis,        \* generate_phi
          frames, at, known, stack,     \* rename: one frame per call
          latest, operandsOf, erased,   \* what it has done to the function
          pc,
          block, prev, next, mem, newMem, loaded, result  \* the two runs

program == <<succ, code, dom_frontier, dom_tree_succ>>
phiState == <<vals, W, F, var, phis>>
renameState == <<frames, at, known, stack, latest, operandsOf, erased>>
runState == <<block, prev, next, mem, newMem, loaded, result>>
vars == <<program, phiState, renameState, runState, pc>>

Key == Var \cup {NoVar}
Site == UNION {{b} \X DOMAIN code[b] : b \in Block}
Instr(s) == code[s[1]][s[2]]
Const(s) == <<"const", s[1], s[2]>>
LoadOf(s) == <<"load", s[1], s[2]>>
Phi(b, v) == <<"phi", b, v>>
Garbage == <<"garbage", 0, 0>>  \* what back() of an empty vector returns
Undefined == <<0, 0>>           \* what a variable holds before its first store

StoreBlocks(v) ==
  {b \in Block : \E i \in DOMAIN code[b] : code[b][i].op = "store" /\ code[b][i].var = v}
Loads == {s \in Site : Instr(s).op = "load"}

\* get_operand(0) of the store at s, after the replacements made so far.
Stored(s) == IF Instr(s).from = 0 THEN Const(s) ELSE latest[<<s[1], Instr(s).from>>]

Init ==
  /\ \E p \in Programs : succ = p.succ /\ code = p.code
  /\ dom_frontier = [b \in Block |-> Frontier(succ, b)]
  /\ dom_tree_succ = [b \in Block |->
       {c \in Reachable(succ) \ {Entry} : IsImmediateDominator(succ, b, c)}]
  \* var_clear, and the first loop of generate_phi
  /\ phis = {<<b, NoVar>> : b \in Block}
  /\ vals = {v \in Var : StoreBlocks(v) # {}}
  /\ W = {} /\ F = {} /\ var = NoVar
  /\ frames = <<>> /\ at = 0 /\ known = {}
  /\ stack = [v \in Key |-> <<>>]
  /\ latest = [s \in Loads |-> LoadOf(s)]
  /\ operandsOf = [p \in Block \X Key |-> {}]
  /\ erased = {}
  /\ pc = "place"
  /\ block = Entry /\ prev = 0 /\ next = 0
  /\ mem = [v \in Var |-> Undefined] /\ newMem = mem
  /\ loaded = [s \in Loads |-> Undefined]
  /\ result = [p \in Block \X Key |-> Undefined]

----------------------------------------------------------------------------
(* generate_phi, second part. *)

\* A variable stored to in more than one block starts the worklist.
NextVal(v) ==
  /\ pc = "place"
  /\ W = {}
  /\ v \in vals
  /\ vals' = vals \ {v}
  /\ var' = v
  /\ F' = {}
  /\ W' = IF Cardinality(StoreBlocks(v)) > 1 THEN StoreBlocks(v) ELSE {}
  /\ UNCHANGED <<program, phis, renameState, runState, pc>>

\* Slip: a block that gets a phi does not enter the worklist.
PlacePhisOnce(X) ==
  /\ pc = "place"
  /\ X \in W
  /\ LET fresh == dom_frontier[X] \ F
     IN  /\ phis' = phis \cup {<<Y, var>> : Y \in fresh}
         /\ F' = F \cup fresh
         /\ W' = W \ {X}
  /\ UNCHANGED <<program, vals, var, renameState, runState, pc>>

\* Slip: a block of the frontier enters the worklist although it has its phi.
PlacePhisAgain(X) ==
  /\ pc = "place"
  /\ X \in W
  /\ phis' = phis \cup {<<Y, var>> : Y \in dom_frontier[X]}
  /\ F' = F \cup dom_frontier[X]
  /\ W' = (W \ {X}) \cup dom_frontier[X]
  /\ UNCHANGED <<program, vals, var, renameState, runState, pc>>

\* Block X leaves it, and every block of its frontier that has no phi for the
\* variable gets one and enters the worklist.
PlacePhis(X) ==
  /\ pc = "place"
  /\ X \in W
  /\ LET fresh == dom_frontier[X] \ F
     IN  /\ phis' = phis \cup {<<Y, var>> : Y \in fresh}
         /\ F' = F \cup fresh
         /\ W' = (W \ {X}) \cup fresh
  /\ UNCHANGED <<program, vals, var, renameState, runState, pc>>

\* rename is called on block b under the calls in progress: the phis come first
\* in b, and each is pushed for its variable.
Enter(calls, b) ==
  LET mine == {v \in Key : <<b, v>> \in phis}
  IN  /\ frames' = Append(calls, [bb |-> b, left |-> dom_tree_succ[b]])
      /\ stack' = [v \in Key |-> IF v \in mine THEN Append(stack[v], Phi(b, v)) ELSE stack[v]]
      /\ known' = known \cup mine
      /\ at' = 1
      /\ pc' = "instr"

\* rename(entry): stack.clear() comes first, and the stack is empty already.
StartRename ==
  /\ pc = "place"
  /\ W = {} /\ vals = {}
  /\ Enter(<<>>, Entry)
  /\ UNCHANGED <<program, phiState, latest, operandsOf, erased, runState>>

----------------------------------------------------------------------------
(* rename. *)

Frame == frames[Len(frames)]
Here == <<Frame.bb, at>>
InBlock == pc = "instr" /\ at \in DOMAIN code[Frame.bb]
Last(s) == s[Len(s)]

\* A store: its value is the latest definition of the variable.
RenameStore ==
  /\ InBlock
  /\ Instr(Here).op = "store"
  /\ known' = known \cup {Instr(Here).var}
  /\ stack' = [stack EXCEPT ![Instr(Here).var] = Append(@, Stored(Here))]
  /\ at' = at + 1
  /\ UNCHANGED <<program, phiState, frames, latest, operandsOf, erased, runState, pc>>

\* A load is replaced when the map has the variable: by back() of its vector,
\* which is undefined behaviour when the vector is empty.  Otherwise it stays.
RenameLoad ==
  /\ InBlock
  /\ Instr(Here).op = "load"
  /\ LET v == Instr(Here).var
     IN  IF v \in known
           THEN latest' = [latest EXCEPT ![Here] =
                             IF stack[v] = <<>> THEN Garbage ELSE Last(stack[v])]
           ELSE UNCHANGED latest
  /\ at' = at + 1
  /\ UNCHANGED <<program, phiState, frames, known, stack, operandsOf, erased, runState, pc>>

\* The phis of the successors receive the definitions that leave the block.
FillPhis ==
  /\ pc = "instr"
  /\ at \notin DOMAIN code[Frame.bb]
  /\ operandsOf' = [p \in DOMAIN operandsOf |->
       IF p \in phis /\ p[1] \in Succs(succ, Frame.bb) /\ stack[p[2]] # <<>>
         THEN operandsOf[p] \cup {<<Last(stack[p[2]]), Frame.bb>>}
         ELSE operandsOf[p]]
  /\ pc' = "children"
  /\ UNCHANGED <<program, phiState, frames, at, known, stack, latest, erased, runState>>

\* rename is called on a child in the dominator tree; the children are in a
\* std::set of pointers, so in any order.
Descend(c) ==
  /\ pc = "children"
  /\ c \in Frame.left
  /\ Enter([frames EXCEPT ![Len(frames)].left = @ \ {c}], c)
  /\ UNCHANGED <<program, phiState, latest, operandsOf, erased, runState>>

\* Slip: only the stores of the block are taken off.
PushedByStores(b, v) ==
  Cardinality({i \in DOMAIN code[b] : code[b][i].op = "store" /\ code[b][i].var = v})

\* How many definitions of v block b has pushed.
Pushed(b, v) ==
  Cardinality({i \in DOMAIN code[b] : code[b][i].op = "store" /\ code[b][i].var = v})
    + (IF <<b, v>> \in phis THEN 1 ELSE 0)

\* The block takes its definitions off and its loads and stores are erased.
Leave ==
  /\ pc = "children"
  /\ Frame.left = {}
  /\ stack' = [v \in Key |-> SubSeq(stack[v], 1, Len(stack[v]) - Pushed(Frame.bb, v))]
  /\ erased' = erased \cup
       {s \in Site : s[1] = Frame.bb /\
          (Instr(s).op = "store" \/ latest[s] # LoadOf(s))}
  /\ frames' = SubSeq(frames, 1, Len(frames) - 1)
  /\ pc' = IF Len(frames) = 1 THEN "enter" ELSE "children"
  /\ UNCHANGED <<program, phiState, at, known, latest, operandsOf, runState>>

----------------------------------------------------------------------------
(* Both functions run: the old one on mem and loaded, the new one on newMem *)
(* and result.  A run-time value is the site of the store it comes from.    *)

Eval(v) ==
  CASE v[1] = "const" -> <<v[2], v[3]>>
    [] v[1] = "phi" -> result[<<v[2], v[3]>>]
    [] v[1] = "load" -> loaded[<<v[2], v[3]>>]
    [] OTHER -> Garbage

\* The phis of the block take their operand for the block control came from.
RunPhis ==
  /\ pc = "enter"
  /\ result' = [p \in DOMAIN result |->
       IF p \in phis /\ p[1] = block
         THEN IF \E o \in operandsOf[p] : o[2] = prev
                THEN Eval((CHOOSE o \in operandsOf[p] : o[2] = prev)[1])
                ELSE Undefined
         ELSE result[p]]
  /\ next' = 1
  /\ pc' = "run"
  /\ UNCHANGED <<program, phiState, renameState, block, prev, mem, newMem, loaded>>

AtInstr == pc = "run" /\ next \in DOMAIN code[block]
Now == <<block, next>>

RunStore ==
  /\ AtInstr
  /\ Instr(Now).op = "store"
  /\ mem' = [mem EXCEPT ![Instr(Now).var] =
               IF Instr(Now).from = 0 THEN Now ELSE loaded[<<block, Instr(Now).from>>]]
  /\ newMem' = IF Now \in erased THEN newMem
               ELSE [newMem EXCEPT ![Instr(Now).var] = Eval(Stored(Now))]
  /\ next' = next + 1
  /\ UNCHANGED <<program, phiState, renameState, block, prev, loaded, result, pc>>

\* What the new function has where the old one has the result of the load at s.
NewValue(s) == IF s \in erased THEN Eval(latest[s]) ELSE newMem[Instr(s).var]

RunLoad ==
  /\ AtInstr
  /\ Instr(Now).op = "load"
  /\ loaded' = [loaded EXCEPT ![Now] = mem[Instr(Now).var]]
  /\ next' = next + 1
  /\ UNCHANGED <<program, phiState, renameState, block, prev, mem, newMem, result, pc>>

RunBranch(S) ==
  /\ pc = "run"
  /\ next \notin DOMAIN code[block]
  /\ S \in Succs(succ, block)
  /\ prev' = block
  /\ block' = S
  /\ pc' = "enter"
  /\ UNCHANGED <<program, phiState, renameState, next, mem, newMem, loaded, result>>

Next ==
  \/ \E v \in Var : NextVal(v)
  \/ \E b \in Block : PlacePhis(b) \/ Descend(b) \/ RunBranch(b)
  \/ StartRename \/ RenameStore \/ RenameLoad \/ FillPhis \/ Leave
  \/ RunPhis \/ RunStore \/ RunLoad

\* The pass is a plain loop and runs to its end; the function may loop for ever.
Spec == Init /\ [][Next]_vars /\ WF_vars(Next)

----------------------------------------------------------------------------
(* Properties. *)

\* The blocks that control can get to from b by one branch or more.
ReachableFrom(g, b) ==
  {c \in Block : \A S \in SUBSET Block :
     Succs(g, b) \subseteq S /\ (\A a \in S : Succs(g, a) \subseteq S) => c \in S}

IsStore(c, b, i, v) == c[b][i].op = "store" /\ c[b][i].var = v
StoresOf(c, v) == {b \in Block : \E i \in DOMAIN c[b] : IsStore(c, b, i, v)}

\* A store of v comes before point i of b: on every path if one block only stores
\* to v (which gets no phi for it anywhere), on some path otherwise.
StoreFirst(g, c, b, i, v) ==
  \/ \E j \in 1..(i - 1) : IsStore(c, b, j, v)
  \/ \E s \in StoresOf(c, v) : Cardinality(StoresOf(c, v)) = 1 /\ StrictlyDominates(g, s, b)
  \/ \E s \in StoresOf(c, v) \cap Reachable(g) :
       Cardinality(StoresOf(c, v)) > 1 /\ b \in ReachableFrom(g, s)

\* The programs that rename can handle: a store comes first for every load.
Handled(p) ==
  \A b \in Reachable(p.succ) : \A i \in DOMAIN p.code[b] :
    p.code[b][i].op = "load" => StoreFirst(p.succ, p.code, b, i, p.code[b][i].var)

Values == {Const(s) : s \in Site} \cup {LoadOf(s) : s \in Loads}
            \cup {Phi(b, v) : b \in Block, v \in Key} \cup {Garbage}
Done == pc \in {"enter", "run"}

\* The containers of the pass hold what their C++ types say (generate_phi, rename).
TypeOK ==
  /\ pc \in {"place", "instr", "children", "enter", "run"}
  /\ phis \subseteq Block \X Key
  /\ vals \subseteq Var /\ var \in Key
  /\ W \subseteq Block /\ F \subseteq Block
  /\ \A n \in DOMAIN frames : frames[n].bb \in Block /\ frames[n].left \subseteq Block
  /\ \A v \in Key : \A n \in DOMAIN stack[v] : stack[v][n] \in Values
  /\ \A s \in Loads : latest[s] \in Values
  /\ \A p \in Block \X Key : operandsOf[p] \subseteq Values \X Block
  /\ erased \subseteq Site

\* The pass keeps the meaning of the function: on whatever path control takes,
\* a load that finds a value in its variable has that value after the pass too,
\* be it through the definition that replaced it or from memory (step four of
\* rename, Mem2Reg.cpp:93).
SameValues ==
  AtInstr /\ Instr(Now).op = "load" /\ mem[Instr(Now).var] # Undefined
    => NewValue(Now) = mem[Instr(Now).var]

\* rename never takes back() of an empty vector (Mem2Reg.cpp:118): a variable
\* that is a key of the map when a load of it is met has a definition then.
NeverEmptyBack == \A s \in Loads : latest[s] # Garbage

\* What rename leaves is in SSA form: the definition that replaces a load, or
\* enters a phi from a block, dominates that load or that block, and a phi has
\* at most one operand for each predecessor and none for another block.
WellFormedSSA ==
  pc = "enter" /\ prev = 0 =>
    /\ \A s \in Loads \cap erased :
         latest[s] # Garbage => Dominates(succ, latest[s][2], s[1])
    /\ \A p \in phis : \A o \in operandsOf[p] :
         /\ o[2] \in Preds(succ, p[1])
         /\ Dominates(succ, o[1][2], o[2])
         /\ \A q \in operandsOf[p] : q[2] = o[2] => q = o

\* A call of rename on a child gives the stack back as it found it: between the
\* children of a block, the definitions on the stack are those pushed by the
\* calls in progress (Mem2Reg.cpp:140-150 against 102-114).
StackRestored ==
  pc = "children" =>
    \A v \in Key :
      LET height[n \in 0..Len(frames)] ==
            IF n = 0 THEN 0 ELSE height[n - 1] + Pushed(frames[n].bb, v)
      IN  Len(stack[v]) = height[Len(frames)]

\* The walk of rename is sound at every moment and in what it leaves: each part of
\* this fails when definitions of one branch of the tree show in another.
RenamingSound == TypeOK /\ NeverEmptyBack /\ StackRestored /\ WellFormedSSA

\* Both the worklist of generate_phi and the recursion of rename come to an end.
PassEnds == <>Done
=============================================================================
