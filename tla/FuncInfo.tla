------------------------------ MODULE FuncInfo ------------------------------
(***************************************************************************)
(* The pass FuncInfo: which functions of the module are pure.  A function  *)
(* is marked on its own first (trivial_mark); then impurity flows from a   *)
(* function to its callers along the use list of the function, through a   *)
(* worklist (process).                                                     *)
(*                                                                         *)
(* The program is a set of instructions per function.  An instruction has  *)
(* an opcode and its operands in the order of the code: a call has its     *)
(* callee first, a store its value and then its address, a load its        *)
(* address, a getelementptr its base first.                                *)
(***************************************************************************)
EXTENDS Naturals, Sequences, FiniteSets

CONSTANTS Func,    \* the functions of the module
          Main,    \* the function called "main"
          Instr,   \* the instructions
          Datum    \* constants, globals, arguments and blocks used as operands

ASSUME MainAssumption == Main \in Func
ASSUME DisjointAssumption == Func \cap Instr = {}

VARIABLES decl,      \* the functions that are only declared
          ptrParam,  \* the functions with a parameter that is neither int nor float
          body,      \* body[f]: the instructions in the blocks of f
          opcode,    \* opcode[i]
          operands,  \* operands[i]
          is_pure,   \* the result
          worklist,  \* functions whose callers have to be visited
          todo,      \* functions that the marking loop has not reached
          pending,   \* uses that the loop of process() has not reached
          stage      \* "mark", "take", "process" or "done"

program == <<decl, ptrParam, body, opcode, operands>>
infoVars == <<program, is_pure, worklist, todo, pending, stage>>

Value == Func \cup Instr \cup Datum
Opcode == {"alloca", "gep", "load", "store", "call", "phi", "br", "ret", "other"}

ProgramOK ==
  /\ decl \subseteq Func
  /\ ptrParam \subseteq Func
  /\ body \in [Func -> SUBSET Instr]
  /\ opcode \in [Instr -> Opcode]
  /\ operands \in [Instr -> Seq(Value)]
  /\ \A f, g \in Func : f # g => body[f] \cap body[g] = {}
  /\ \A f \in decl : body[f] = {}

InfoTypeOK ==
  /\ ProgramOK
  /\ is_pure \in [Func -> BOOLEAN]
  /\ worklist \in Seq(Func)
  /\ todo \subseteq Func
  /\ pending \subseteq Instr
  /\ stage \in {"mark", "take", "process", "done"}

----------------------------------------------------------------------------
(* The program. *)

Uses(i, v) == \E n \in DOMAIN operands[i] : operands[i][n] = v

\* The instructions of the use list of function g.
CallSites(g) == {i \in UNION {body[f] : f \in Func} : Uses(i, g)}

Parent(i) == CHOOSE f \in Func : i \in body[f]

Calls(f, g) == \E i \in body[f] : Uses(i, g)

\* get_first_addr: what an address is computed from, through chains of
\* getelementptr.  Pointers come from nothing else than the opcodes named here.
FirstAddr(op, args, v) ==
  LET chase[n \in Nat] ==
        [w \in Value |->
           IF n > 0 /\ w \in Instr /\ op[w] = "gep" THEN chase[n - 1][args[w][1]] ELSE w]
  IN  chase[Cardinality(Instr)][v]

IsLocal(v) ==
  LET addr == FirstAddr(opcode, operands, v)
  IN  addr \in Instr /\ opcode[addr] = "alloca"

IsSideEffectInst(i) ==
  \/ opcode[i] = "store" /\ ~ IsLocal(operands[i][2])
  \/ opcode[i] = "load" /\ ~ IsLocal(operands[i][1])

\* trivial_mark stores the negation of this in is_pure.
TriviallyImpure(f) ==
  \/ f \in decl
  \/ f = Main
  \/ f \in ptrParam
  \/ \E i \in body[f] : IsSideEffectInst(i)

----------------------------------------------------------------------------
(* The pass. *)

\* Before the pass runs.
InfoStart ==
  /\ is_pure = [f \in Func |-> FALSE]
  /\ worklist = <<>>
  /\ todo = Func
  /\ pending = {}
  /\ stage = "mark"

InfoInit == ProgramOK /\ InfoStart

\* One round of the first loop of run().
TrivialMark(f) ==
  /\ stage = "mark"
  /\ f \in todo
  /\ todo' = todo \ {f}
  /\ is_pure' = [is_pure EXCEPT ![f] = ~ TriviallyImpure(f)]
  /\ worklist' = IF TriviallyImpure(f) THEN Append(worklist, f) ELSE worklist
  /\ stage' = IF todo' = {} THEN "take" ELSE "mark"
  /\ UNCHANGED <<program, pending>>

\* Slip: the front function is read but not popped.
TakeWithoutPop ==
  /\ stage = "take"
  /\ worklist # <<>>
  /\ pending' = CallSites(Head(worklist))
  /\ stage' = "process"
  /\ UNCHANGED <<program, is_pure, todo, worklist>>

\* The second loop takes the front function and goes through its uses.
Take ==
  /\ stage = "take"
  /\ worklist # <<>>
  /\ pending' = CallSites(Head(worklist))
  /\ worklist' = Tail(worklist)
  /\ stage' = "process"
  /\ UNCHANGED <<program, is_pure, todo>>

\* Slip: the caller is marked but not put on the worklist.
ProcessWithoutPush(i) ==
  /\ stage = "process"
  /\ i \in pending
  /\ pending' = pending \ {i}
  /\ is_pure' = [is_pure EXCEPT ![Parent(i)] = FALSE]
  /\ UNCHANGED <<program, todo, stage, worklist>>

\* One use: a caller that was pure is not, and is visited later.
Process(i) ==
  /\ stage = "process"
  /\ i \in pending
  /\ pending' = pending \ {i}
  /\ IF is_pure[Parent(i)]
       THEN /\ is_pure' = [is_pure EXCEPT ![Parent(i)] = FALSE]
            /\ worklist' = Append(worklist, Parent(i))
       ELSE UNCHANGED <<is_pure, worklist>>
  /\ UNCHANGED <<program, todo, stage>>

ProcessDone ==
  /\ stage = "process"
  /\ pending = {}
  /\ stage' = "take"
  /\ UNCHANGED <<program, is_pure, worklist, todo, pending>>

InfoDone ==
  /\ stage = "take"
  /\ worklist = <<>>
  /\ stage' = "done"
  /\ UNCHANGED <<program, is_pure, worklist, todo, pending>>

InfoNext ==
  \/ \E f \in Func : TrivialMark(f)
  \/ Take
  \/ \E i \in Instr : Process(i)
  \/ ProcessDone
  \/ InfoDone

\* One thread that runs the pass to its end.
InfoSpec == InfoInit /\ [][InfoNext]_infoVars /\ WF_infoVars(InfoNext)

----------------------------------------------------------------------------
(* Properties. *)

\* What the header promises: a set of functions is closed when it holds every
\* function that is impure by itself and every caller of a member.
Closed(S) ==
  /\ \A f \in Func : TriviallyImpure(f) => f \in S
  /\ \A f, g \in Func : Calls(f, g) /\ g \in S => f \in S

\* f calls, directly or indirectly, a function that is impure by itself.
ReachesImpure(f) == \A S \in SUBSET Func : Closed(S) => f \in S

\* When the pass ends a function is pure exactly when it reaches no impure
\* function ("unless it ... calls an impure function directly or indirectly"):
\* DeadCode deletes unused calls of pure functions on the strength of this.
PureMeansNoImpureCallee ==
  [][InfoDone => \A f \in Func : is_pure[f] <=> ~ ReachesImpure(f)]_infoVars

\* While impurity is being propagated, a caller of an impure function can be
\* pure only if that function still waits in the worklist or the call is one of
\* the uses being processed: nothing is lost between the two loops.
NothingLost ==
  stage \in {"take", "process"} =>
    \A f, g \in Func : Calls(f, g) /\ is_pure[f] /\ ~ is_pure[g] =>
      \/ \E n \in DOMAIN worklist : worklist[n] = g
      \/ \E i \in pending : i \in body[f] /\ Uses(i, g)

\* The worklist runs empty on every call graph, recursive ones included.
InfoEnds == <>(stage = "done")
=============================================================================
