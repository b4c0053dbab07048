------------------------------ MODULE DeadCode ------------------------------
(***************************************************************************)
(* The pass DeadCode: after FuncInfo has found the pure functions, every   *)
(* function in turn is marked (what a critical instruction needs, through  *)
(* a worklist) and swept, until a whole round deletes nothing.             *)
(*                                                                         *)
(* The deletion works on the operand graph that the def-use layer promises *)
(* (OperandGraph, implemented by DefUse): first all doomed instructions    *)
(* drop their operands, then each is erased from its block and destroyed.  *)
(* The two collections of the sweep are unordered, and the order of the    *)
(* worklist has no effect on what is marked: all are sets here.            *)
(***************************************************************************)
EXTENDS FuncInfo

CONSTANTS Null,        \* the null pointer
          MaxOperands  \* bound on the length of operands_

VARIABLES alive,      \* the values that have not been destroyed
          funcs,      \* functions that the loop of run() has not reached this round
          changed,    \* something was deleted this round
          current,    \* the function being marked and swept
          marked,     \* its instructions found to be needed
          work_list,  \* marked instructions whose operands are not marked yet
          wait_del,   \* the instructions the sweep deletes
          unlinked,   \* those of wait_del that have dropped their operands
          pc          \* "info", "loop", "mark", "unlink", "erase" or "done"

info == <<is_pure, worklist, todo, pending, stage>>
sweepState == <<wait_del, unlinked>>
vars == <<program, info, alive, funcs, changed, current, marked, work_list, sweepState, pc>>

ASSUME DeadCodeAssumption ==
  /\ Datum \cap Instr = {}
  /\ Null \notin Value
  /\ IsFiniteSet(Instr)

Graph == INSTANCE OperandGraph WITH User <- Instr, Filters <- {}

TypeOK ==
  /\ body \in [Func -> SUBSET Instr]
  /\ \A f, g \in Func : f # g => body[f] \cap body[g] = {}
  /\ opcode \in [Instr -> Opcode]
  /\ operands \in [Instr -> Seq(Value \cup {Null})]
  /\ is_pure \in [Func -> BOOLEAN]
  /\ alive \subseteq Value
  /\ funcs \subseteq Func
  /\ changed \in BOOLEAN
  /\ current \in Func
  /\ marked \subseteq Instr
  /\ work_list \subseteq marked
  /\ wait_del \subseteq Instr
  /\ unlinked \subseteq wait_del
  /\ pc \in {"info", "loop", "mark", "unlink", "erase", "done"}

----------------------------------------------------------------------------

\* Slip: no call is critical.
IsCriticalNoCalls(i) == opcode[i] \in {"br", "ret", "store"}

IsCritical(i) ==
  \/ opcode[i] = "call" /\ ~ is_pure[operands[i][1]]
  \/ opcode[i] \in {"br", "ret", "store"}

\* Slip: operand 0 is passed over, as if it were always a callee.
DefsAfterFirst(i) == {operands[i][n] : n \in DOMAIN operands[i] \ {1}} \cap Instr

\* The operands of i that are instructions (defs).
Defs(i) == {operands[i][n] : n \in DOMAIN operands[i]} \cap Instr

\* The state in which the pass is started on a program.
Start ==
  /\ InfoStart
  /\ alive = Func \cup Datum \cup UNION {body[f] : f \in Func}
  /\ funcs = {}
  /\ changed = FALSE
  /\ current = Main
  /\ marked = {}
  /\ work_list = {}
  /\ wait_del = {}
  /\ unlinked = {}
  /\ pc = "info"

\* A function that is only declared has no instructions, an instruction of a
\* function uses instructions of that function only, and what is called, loaded
\* from, stored to or indexed is an operand.
Init ==
  /\ ProgramOK
  /\ \A f \in Func : \A i \in body[f] : Defs(i) \subseteq body[f]
  /\ \A f \in Func : \A i \in body[f] : opcode[i] = "call" => operands[i][1] \in Func
  /\ \A f \in Func : \A i \in body[f] : opcode[i] \in {"call", "load", "gep"} => 1 \in DOMAIN operands[i]
  /\ \A f \in Func : \A i \in body[f] : opcode[i] = "store" => 2 \in DOMAIN operands[i]
  /\ Start

\* func_info->run(), step by step.
RunInfo ==
  /\ pc = "info"
  /\ InfoNext
  /\ UNCHANGED <<alive, funcs, changed, current, marked, work_list, sweepState, pc>>

\* The do loop begins a round: changed is reset and all functions are ahead.
BeginRound ==
  /\ \/ pc = "info" /\ stage = "done"
     \/ pc = "loop" /\ funcs = {} /\ changed
  /\ changed' = FALSE
  /\ funcs' = Func
  /\ pc' = "loop"
  /\ UNCHANGED <<program, info, alive, current, marked, work_list, sweepState>>

Finish ==
  /\ pc = "loop"
  /\ funcs = {}
  /\ ~ changed
  /\ pc' = "done"
  /\ UNCHANGED <<program, info, alive, funcs, changed, current, marked, work_list, sweepState>>

\* mark(Function *): both collections are cleared, critical instructions enter.
MarkFunction(f) ==
  /\ pc = "loop"
  /\ f \in funcs
  /\ funcs' = funcs \ {f}
  /\ current' = f
  /\ marked' = {i \in body[f] : IsCritical(i)}
  /\ work_list' = marked'
  /\ pc' = "mark"
  /\ UNCHANGED <<program, info, alive, changed, sweepState>>

\* mark(Instruction *): the operands defined in the same function are needed too.
MarkInstruction(i) ==
  /\ pc = "mark"
  /\ i \in work_list
  /\ LET fresh == {d \in Defs(i) : d \notin marked /\ d \in body[current]}
     IN  /\ marked' = marked \cup fresh
         /\ work_list' = (work_list \ {i}) \cup fresh
  /\ UNCHANGED <<program, info, alive, funcs, changed, current, sweepState, pc>>

\* Slip: phis are never collected.
SweepAllButPhis ==
  /\ pc = "mark"
  /\ work_list = {}
  /\ wait_del' = {i \in body[current] : i \notin marked /\ opcode[i] # "phi"}
  /\ unlinked' = {}
  /\ pc' = "unlink"
  /\ UNCHANGED <<program, info, alive, funcs, changed, current, marked, work_list>>

\* sweep(Function *) collects everything that is not marked.
Sweep ==
  /\ pc = "mark"
  /\ work_list = {}
  /\ wait_del' = {i \in body[current] : i \notin marked}
  /\ unlinked' = {}
  /\ pc' = "unlink"
  /\ UNCHANGED <<program, info, alive, funcs, changed, current, marked, work_list>>

\* Its first loop: remove_all_operands of one doomed instruction.
Unlink(i) ==
  /\ pc = "unlink"
  /\ i \in wait_del \ unlinked
  /\ Graph!Clear(i)
  /\ unlinked' = unlinked \cup {i}
  /\ UNCHANGED <<decl, ptrParam, body, opcode, info, funcs, changed, current, marked,
                 work_list, wait_del, pc>>

UnlinkDone ==
  /\ pc = "unlink"
  /\ unlinked = wait_del
  /\ pc' = "erase"
  /\ UNCHANGED <<program, info, alive, funcs, changed, current, marked, work_list, sweepState>>

\* Its second loop: one instruction leaves its block and is destroyed.
Erase(i) ==
  /\ pc = "erase"
  /\ i \in wait_del
  /\ Graph!Delete(i)
  /\ body' = [body EXCEPT ![current] = @ \ {i}]
  /\ UNCHANGED <<decl, ptrParam, opcode, info, funcs, changed, current, marked,
                 work_list, sweepState, pc>>

\* Slip: sweep reports a change every time.
SweepDoneAlwaysChanged ==
  /\ pc = "erase"
  /\ wait_del \cap alive = {}
  /\ changed' = TRUE
  /\ pc' = "loop"
  /\ UNCHANGED <<program, info, alive, funcs, current, marked, work_list, sweepState>>

\* sweep returns whether there was anything to delete.
SweepDone ==
  /\ pc = "erase"
  /\ wait_del \cap alive = {}
  /\ changed' = (changed \/ wait_del # {})
  /\ pc' = "loop"
  /\ UNCHANGED <<program, info, alive, funcs, current, marked, work_list, sweepState>>

Next ==
  \/ RunInfo \/ BeginRound \/ Finish
  \/ \E f \in Func : MarkFunction(f)
  \/ \E i \in Instr : MarkInstruction(i)
  \/ Sweep
  \/ \E i \in Instr : Unlink(i)
  \/ UnlinkDone
  \/ \E i \in Instr : Erase(i)
  \/ SweepDone

\* One thread that runs the pass to its end.
Spec == Init /\ [][Next]_vars /\ WF_vars(Next)

----------------------------------------------------------------------------
(* Properties. *)

\* No instruction that stays ever loses an operand: what it uses is alive (and
\* so is not the null pointer that ~Value leaves in the users it still finds).
KeptOperandsAlive ==
  \A f \in Func : \A i \in body[f] \ wait_del : \A n \in DOMAIN operands[i] :
    operands[i][n] \in alive

\* An instruction whose effect can be observed: control flow, a store, or a call
\* from which a function that is impure by itself can be reached.
Observable(i) ==
  \/ opcode[i] \in {"br", "ret", "store"}
  \/ opcode[i] = "call" /\ ReachesImpure(operands[i][1])

\* When a sweep has collected the doomed instructions, no observable one is among
\* them: the worklist of FuncInfo and the marks of DeadCode together miss no call
\* that matters.
ObservableKept ==
  pc = "unlink" /\ unlinked = {} => \A f \in Func : \A i \in body[f] : Observable(i) => i \notin wait_del

\* A set of instructions of f is enough when it holds the critical ones and the
\* operands of its members; an instruction is needed when no such set lacks it.
Enough(S, f) ==
  /\ \A i \in body[f] : IsCritical(i) => i \in S
  /\ \A i \in S : Defs(i) \cap body[f] \subseteq S
Needed(i, f) == \A S \in SUBSET body[f] : Enough(S, f) => i \in S

\* One sweep leaves no dead instruction in its function, cycles of phis included,
\* and sweeping other functions makes none: the second round finds nothing.
NoDeadLeft ==
  pc \in {"loop", "done"} =>
    \A f \in Func \ funcs : \A i \in body[f] : Needed(i, f)

\* The do-while loop ends.
Terminates == <>(pc = "done")
=============================================================================
