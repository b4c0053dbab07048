--------------------------- MODULE DeadCode_proof ---------------------------
(***************************************************************************)
(* Proofs about DeadCode for every program: no instruction that stays      *)
(* loses an operand, one sweep removes everything that is not needed, and  *)
(* nothing whose effect can be observed is ever removed.                   *)
(***************************************************************************)
EXTENDS DeadCode, FuncInfo_proof, FiniteSetTheorems, TLAPS

Kept(f) == body[f] \ wait_del

\* Blocks hold living instructions; functions and data are never destroyed.
AliveInv == Func \cup Datum \subseteq alive /\ \A f \in Func : body[f] \subseteq alive

\* A kept instruction uses functions, data and kept instructions of its function.
DefsInv ==
  \A f \in Func : \A i \in Kept(f) : \A n \in DOMAIN operands[i] :
    operands[i][n] \in Func \cup Datum \cup Kept(f)

\* The doomed instructions belong to the function being swept, and have left the
\* program when the sweep is over.
DoomedInv ==
  /\ \A f \in Func : f # current \/ pc \notin {"unlink", "erase"} => body[f] \cap wait_del = {}
  /\ pc = "erase" => unlinked = wait_del

\* S is enough for the kept instructions of f.
EnoughKept(S, f) ==
  /\ \A i \in Kept(f) : IsCritical(i) => i \in S
  /\ \A i \in S : Defs(i) \cap Kept(f) \subseteq S
AllNeeded(f) == \A i \in Kept(f) : \A S \in SUBSET Kept(f) : EnoughKept(S, f) => i \in S

\* While a function is marked: the operands of a marked instruction are marked or
\* the instruction waits, and only needed instructions are marked.
MarkInv ==
  pc = "mark" =>
    /\ marked \subseteq body[current]
    /\ \A i \in body[current] : IsCritical(i) => i \in marked
    /\ \A i \in marked \ work_list : Defs(i) \cap body[current] \subseteq marked
    /\ \A S \in SUBSET body[current] : Enough(S, current) => marked \subseteq S

\* Functions swept in this round have no dead instruction left.
SweptInv ==
  pc # "info" =>
    \A f \in Func \ funcs : f # current \/ pc # "mark" => AllNeeded(f)

IInv == TypeOK /\ AliveInv /\ DefsInv /\ DoomedInv /\ MarkInv /\ SweptInv

\* Running FuncInfo leaves the program alone and keeps its result Boolean.
LEMMA InfoStep ==
  ASSUME TypeOK, InfoNext
  PROVE  UNCHANGED program /\ is_pure' \in [Func -> BOOLEAN]
<1>1. ASSUME NEW f \in Func, TrivialMark(f)
      PROVE  UNCHANGED program /\ is_pure' \in [Func -> BOOLEAN]
  <2>1. (~ TriviallyImpure(f)) \in BOOLEAN
    OBVIOUS
  <2>2. is_pure' = [is_pure EXCEPT ![f] = ~ TriviallyImpure(f)]
    BY <1>1 DEF TrivialMark
  <2>3. is_pure' \in [Func -> BOOLEAN]
    BY <2>1, <2>2 DEF TypeOK
  <2> QED
    BY <1>1, <2>3 DEF TrivialMark, program
<1>2. ASSUME NEW i \in Instr, Process(i)
      PROVE  UNCHANGED program /\ is_pure' \in [Func -> BOOLEAN]
  BY <1>2 DEF Process, program, TypeOK
<1>3. ASSUME Take \/ ProcessDone \/ InfoDone
      PROVE  UNCHANGED program /\ is_pure' \in [Func -> BOOLEAN]
  BY <1>3 DEF Take, ProcessDone, InfoDone, program, TypeOK
<1> QED
  BY <1>1, <1>2, <1>3 DEF InfoNext

LEMMA InitIInv == Init => IInv
<1> SUFFICES ASSUME Init PROVE IInv
  OBVIOUS
<1> USE DEF Init, Start, InfoStart, ProgramOK
<1>1. TypeOK
  <2>1. \A s \in Seq(Value) : s \in Seq(Value \cup {Null})
    OBVIOUS
  <2>2. operands \in [Instr -> Seq(Value \cup {Null})]
    BY <2>1 DEF Value
  <2>3. alive \subseteq Value
    BY DEF Value
  <2> QED
    BY MainAssumption, <2>2, <2>3 DEF TypeOK
<1>2. AliveInv /\ DoomedInv /\ MarkInv /\ SweptInv
  BY DEF AliveInv, DoomedInv, MarkInv, SweptInv
<1>3. DefsInv
  BY DEF DefsInv, Kept, Defs, Value
<1> QED
  BY <1>1, <1>2, <1>3 DEF IInv

\* Steps that change neither the program nor which instructions are doomed keep
\* everything that is said about kept instructions.
LEMMA KeptFixed ==
  ASSUME UNCHANGED <<body, opcode, operands, is_pure, wait_del>>
  PROVE  /\ DefsInv' <=> DefsInv
         /\ \A f \in Func : AllNeeded(f)' <=> AllNeeded(f)
         /\ \A i : IsCritical(i)' <=> IsCritical(i)
         /\ \A i : Defs(i)' = Defs(i)
         /\ \A f \in Func : Kept(f)' = Kept(f)
<1>1. \A f : Kept(f)' = Kept(f)
  BY DEF Kept
<1>2. \A i : Defs(i)' = Defs(i)
  BY DEF Defs
<1>3. \A i : IsCritical(i)' <=> IsCritical(i)
  BY DEF IsCritical
<1>4. \A S, f : EnoughKept(S, f)' <=> EnoughKept(S, f)
  BY <1>1, <1>2, <1>3 DEF EnoughKept
<1>5. \A f \in Func : AllNeeded(f)' <=> AllNeeded(f)
  BY <1>1, <1>4 DEF AllNeeded
<1>6. DefsInv' <=> DefsInv
  BY <1>1 DEF DefsInv
<1> QED
  BY <1>1, <1>2, <1>3, <1>5, <1>6

\* The loop of run() and the marking: the program stays as it is.
LEMMA LoopStep ==
  ASSUME IInv, RunInfo \/ BeginRound \/ Finish \/ UNCHANGED vars
  PROVE  IInv'
<1>1. CASE RunInfo
  <2>1. UNCHANGED program /\ is_pure' \in [Func -> BOOLEAN] /\ pc = "info" /\ pc' = "info"
    BY <1>1, InfoStep DEF RunInfo, IInv
  <2>2. UNCHANGED <<body, opcode, operands, alive, funcs, changed, current, marked, work_list, wait_del, unlinked>>
    BY <1>1, <2>1 DEF RunInfo, program, sweepState
  <2>3. TypeOK'
    BY <2>1, <2>2 DEF IInv, TypeOK
  <2>4. AliveInv' /\ DefsInv' /\ DoomedInv' /\ MarkInv' /\ SweptInv'
    BY <2>1, <2>2 DEF IInv, AliveInv, DefsInv, Kept, DoomedInv, MarkInv, SweptInv
  <2> QED
    BY <2>3, <2>4 DEF IInv
<1>2. CASE BeginRound \/ Finish \/ UNCHANGED vars
  <2>1. /\ UNCHANGED <<body, opcode, operands, is_pure, alive, current, marked, work_list, wait_del, unlinked>>
        /\ pc' \in {"loop", "done"} \/ pc' = pc
        /\ pc' # pc => pc \in {"info", "loop"}
        /\ pc' = pc \/ pc # "info" => funcs' = funcs \/ funcs' = Func
        /\ pc' # pc /\ pc = "info" => funcs' = Func
        /\ funcs' \subseteq Func /\ changed' \in BOOLEAN
    BY <1>2 DEF BeginRound, Finish, vars, program, info, sweepState, IInv, TypeOK
  <2>2. TypeOK'
    BY <2>1 DEF IInv, TypeOK
  <2>3. AliveInv' /\ DefsInv' /\ DoomedInv' /\ MarkInv'
    BY <2>1, KeptFixed DEF IInv, AliveInv, DoomedInv, MarkInv, Enough
  <2>4. SweptInv'
    BY <2>1, KeptFixed DEF IInv, SweptInv
  <2> QED
    BY <2>2, <2>3, <2>4 DEF IInv
<1> QED
  BY <1>1, <1>2

LEMMA MarkFunctionStep == ASSUME IInv, NEW f \in Func, MarkFunction(f) PROVE IInv'
<1>1. /\ UNCHANGED <<body, opcode, operands, is_pure, alive, changed, wait_del, unlinked>>
      /\ pc = "loop" /\ pc' = "mark" /\ current' = f /\ funcs' = funcs \ {f} /\ f \in funcs
      /\ marked' = {i \in body[f] : IsCritical(i)} /\ work_list' = marked'
  BY DEF MarkFunction, program, info, sweepState
<1>2. TypeOK'
  BY <1>1 DEF IInv, TypeOK
<1>3. AliveInv' /\ DefsInv' /\ DoomedInv'
  BY <1>1, KeptFixed DEF IInv, AliveInv, DoomedInv
<1>4. MarkInv'
  <2>1. ASSUME NEW S \in SUBSET body[f], Enough(S, f)' PROVE marked' \subseteq S
    BY <1>1, <2>1, KeptFixed DEF Enough
  <2> QED
    BY <1>1, <2>1, KeptFixed DEF MarkInv
<1>5. SweptInv'
  BY <1>1, KeptFixed DEF IInv, SweptInv
<1> QED
  BY <1>2, <1>3, <1>4, <1>5 DEF IInv

LEMMA MarkInstructionStep == ASSUME IInv, NEW i \in Instr, MarkInstruction(i) PROVE IInv'
<1> DEFINE fresh == {d \in Defs(i) : d \notin marked /\ d \in body[current]}
<1>1. /\ UNCHANGED <<body, opcode, operands, is_pure, alive, funcs, current, changed, wait_del, unlinked>>
      /\ pc = "mark" /\ pc' = "mark" /\ i \in work_list
      /\ marked' = marked \cup fresh /\ work_list' = (work_list \ {i}) \cup fresh
  BY DEF MarkInstruction, program, info, sweepState
<1>2. fresh \subseteq Instr /\ fresh \subseteq body[current] /\ fresh \subseteq Defs(i)
  BY DEF Defs
<1>3. Defs(i) \cap body[current] \subseteq marked \cup fresh
  OBVIOUS
<1> HIDE DEF fresh
<1>4. TypeOK'
  BY <1>1, <1>2 DEF IInv, TypeOK
<1>5. AliveInv' /\ DefsInv' /\ DoomedInv'
  BY <1>1, KeptFixed DEF IInv, AliveInv, DoomedInv
<1>6. MarkInv'
  <2>1. marked' \subseteq body[current] /\ \A j \in body[current] : IsCritical(j) => j \in marked'
    BY <1>1, <1>2 DEF IInv, MarkInv
  <2>2. \A j \in marked' \ work_list' : Defs(j) \cap body[current] \subseteq marked'
    BY <1>1, <1>3 DEF IInv, MarkInv
  <2>3. ASSUME NEW S \in SUBSET body[current], Enough(S, current)
        PROVE  marked' \subseteq S
    <3>1. marked \subseteq S /\ i \in S
      BY <1>1, <2>3 DEF IInv, MarkInv, TypeOK
    <3>2. fresh \subseteq S
      BY <1>2, <2>3, <3>1 DEF Enough
    <3> QED
      BY <1>1, <3>1, <3>2
  <2>4. \A S : Enough(S, current)' <=> Enough(S, current)
    BY <1>1, KeptFixed DEF Enough
  <2> QED
    BY <1>1, <2>1, <2>2, <2>3, <2>4, KeptFixed DEF MarkInv
<1>7. SweptInv'
  BY <1>1, KeptFixed DEF IInv, SweptInv
<1> QED
  BY <1>4, <1>5, <1>6, <1>7 DEF IInv

\* Collecting the doomed instructions: what is kept of the current function is
\* what was marked, it is closed under operands, and all of it is needed.
LEMMA SweepStep == ASSUME IInv, Sweep PROVE IInv'
<1>1. /\ UNCHANGED <<body, opcode, operands, is_pure, alive, funcs, current, changed, marked, work_list>>
      /\ pc = "mark" /\ pc' = "unlink" /\ work_list = {} /\ unlinked' = {}
      /\ wait_del' = {i \in body[current] : i \notin marked}
      /\ current \in Func
  BY DEF Sweep, program, info, IInv, TypeOK
<1>2. TypeOK'
  BY <1>1 DEF IInv, TypeOK
<1>3. /\ marked \subseteq body[current]
      /\ \A i \in marked : Defs(i) \cap body[current] \subseteq marked
      /\ \A f \in Func : body[f] \cap wait_del = {}
  BY <1>1 DEF IInv, MarkInv, DoomedInv
<1>4. /\ \A f \in Func : Kept(f)' = IF f = current THEN marked ELSE body[f]
      /\ \A f \in Func : Kept(f) = body[f]
  BY <1>1, <1>3 DEF Kept, IInv, TypeOK
<1>5. DoomedInv'
  BY <1>1 DEF DoomedInv, IInv, TypeOK
<1>6. DefsInv'
  <2>1. ASSUME NEW f \in Func, NEW i \in Kept(f)', NEW n \in DOMAIN operands[i]
        PROVE  operands[i][n] \in Func \cup Datum \cup Kept(f)'
    <3>1. i \in body[f] /\ operands[i][n] \in Func \cup Datum \cup body[f]
      BY <1>1, <1>4 DEF Kept, IInv, DefsInv
    <3>2. CASE f = current
      <4>1. operands[i][n] \in body[f] => operands[i][n] \in Defs(i)
        BY DEF Defs, IInv, TypeOK
      <4> QED
        BY <1>3, <1>4, <3>1, <3>2, <4>1
    <3>3. CASE f # current
      BY <1>4, <3>1, <3>3
    <3> QED
      BY <3>2, <3>3
  <2> QED
    BY <1>1, <2>1 DEF DefsInv
<1>7. SweptInv'
  <2>1. \A i : (IsCritical(i)' <=> IsCritical(i)) /\ Defs(i)' = Defs(i)
    BY <1>1 DEF IsCritical, Defs
  <2>2. ASSUME NEW S \in SUBSET marked, EnoughKept(S, current)' PROVE marked \subseteq S
    <3>1. \A i \in body[current] : IsCritical(i) => i \in S
      BY <1>1, <1>4, <2>1, <2>2 DEF EnoughKept, IInv, MarkInv
    <3>2. \A i \in S : Defs(i) \cap body[current] \subseteq S
      BY <1>1, <1>3, <1>4, <2>1, <2>2 DEF EnoughKept
    <3> QED
      BY <1>1, <1>3, <3>1, <3>2 DEF Enough, IInv, MarkInv
  <2>3. AllNeeded(current)'
    BY <1>1, <1>4, <2>2 DEF AllNeeded
  <2>4. ASSUME NEW f \in Func, f # current, AllNeeded(f) PROVE AllNeeded(f)'
    <3>1. Kept(f)' = Kept(f)
      BY <1>4, <2>4
    <3>2. \A S : EnoughKept(S, f)' <=> EnoughKept(S, f)
      BY <2>1, <3>1 DEF EnoughKept
    <3> QED
      BY <2>4, <3>1, <3>2 DEF AllNeeded
  <2> QED
    BY <1>1, <2>3, <2>4 DEF IInv, SweptInv
<1>8. AliveInv' /\ MarkInv'
  BY <1>1 DEF IInv, AliveInv, MarkInv
<1> QED
  BY <1>2, <1>5, <1>6, <1>7, <1>8 DEF IInv

\* Steps that change operands or bodies of doomed instructions only.
LEMMA DoomedChange ==
  ASSUME IInv,
         \A f \in Func : Kept(f)' = Kept(f),
         \A f \in Func : \A i \in Kept(f) : operands'[i] = operands[i],
         UNCHANGED <<opcode, is_pure>>
  PROVE  DefsInv' /\ \A f \in Func : AllNeeded(f) => AllNeeded(f)'
<1>1. \A f \in Func : \A i \in Kept(f) : (IsCritical(i)' <=> IsCritical(i)) /\ Defs(i)' = Defs(i)
  BY DEF IsCritical, Defs
<1>2. DefsInv'
  BY DEF IInv, DefsInv
<1>3. ASSUME NEW f \in Func, AllNeeded(f) PROVE AllNeeded(f)'
  <2>1. ASSUME NEW S \in SUBSET Kept(f), EnoughKept(S, f)' PROVE EnoughKept(S, f)
    BY <1>1, <2>1 DEF EnoughKept
  <2> QED
    BY <1>3, <2>1 DEF AllNeeded
<1> QED
  BY <1>2, <1>3

LEMMA UnlinkStep == ASSUME IInv, NEW i \in Instr, Unlink(i) PROVE IInv'
<1>1. /\ UNCHANGED <<body, opcode, is_pure, alive, funcs, current, changed, marked, work_list, wait_del, pc>>
      /\ pc = "unlink" /\ i \in wait_del /\ unlinked' = unlinked \cup {i}
      /\ operands' = [operands EXCEPT ![i] = <<>>]
  BY DEF Unlink, program, info, Graph!Clear
<1>2. TypeOK'
  <2>1. <<>> \in Seq(Value \cup {Null})
    OBVIOUS
  <2>2. operands' \in [Instr -> Seq(Value \cup {Null})]
    BY <1>1, <2>1 DEF IInv, TypeOK
  <2> QED
    BY <1>1, <2>2 DEF IInv, TypeOK
<1>3. DefsInv' /\ \A f \in Func : AllNeeded(f) => AllNeeded(f)'
  <2>1. \A f \in Func : Kept(f)' = Kept(f)
    BY <1>1 DEF Kept
  <2>2. \A f \in Func : \A j \in Kept(f) : operands'[j] = operands[j]
    BY <1>1 DEF Kept, IInv, TypeOK
  <2> QED
    BY <1>1, <2>1, <2>2, DoomedChange
<1>4. AliveInv' /\ DoomedInv' /\ MarkInv' /\ SweptInv'
  BY <1>1, <1>3 DEF IInv, AliveInv, DoomedInv, MarkInv, SweptInv
<1> QED
  BY <1>2, <1>3, <1>4 DEF IInv

\* Erasing a doomed instruction is not seen by the operands of a kept one.
LEMMA EraseKeepsOperands ==
  ASSUME IInv, NEW i \in Instr, Erase(i)
  PROVE  \A f \in Func : \A j \in Kept(f) : operands'[j] = operands[j]
<1>1. /\ i \in wait_del
      /\ operands' = [u \in Instr |-> IF u = i THEN <<>> ELSE Graph!Substitute(operands[u], i, Null)]
      /\ body \in [Func -> SUBSET Instr] /\ operands \in [Instr -> Seq(Value \cup {Null})]
  BY DEF Erase, Graph!Delete, IInv, TypeOK
<1>2. ASSUME NEW f \in Func, NEW j \in Kept(f) PROVE operands'[j] = operands[j]
  <2>1. j \in Instr /\ j # i
    BY <1>1 DEF Kept
  <2>2. i \notin Func \cup Datum \cup Kept(f)
    BY <1>1, DisjointAssumption, DeadCodeAssumption DEF Kept
  <2>3. \A n \in DOMAIN operands[j] : operands[j][n] # i
    BY <2>2 DEF IInv, DefsInv
  <2>4. Graph!Substitute(operands[j], i, Null) = [n \in DOMAIN operands[j] |-> operands[j][n]]
    BY <2>3 DEF Graph!Substitute
  <2>5. operands[j] \in Seq(Value \cup {Null})
    BY <1>1, <2>1
  <2>6. [n \in DOMAIN operands[j] |-> operands[j][n]] = operands[j]
    BY <2>5
  <2> QED
    BY <1>1, <2>1, <2>4, <2>6
<1> QED
  BY <1>2

LEMMA EraseStep == ASSUME IInv, NEW i \in Instr, Erase(i) PROVE IInv'
<1>1. /\ UNCHANGED <<opcode, is_pure, funcs, current, changed, marked, work_list, wait_del, unlinked, pc>>
      /\ pc = "erase" /\ i \in wait_del /\ i \in alive /\ alive' = alive \ {i}
      /\ body' = [body EXCEPT ![current] = @ \ {i}]
      /\ operands' = [u \in Instr |-> IF u = i THEN <<>> ELSE Graph!Substitute(operands[u], i, Null)]
      /\ current \in Func /\ body \in [Func -> SUBSET Instr]
      /\ operands \in [Instr -> Seq(Value \cup {Null})]
  BY DEF Erase, program, info, sweepState, Graph!Delete, IInv, TypeOK
<1>2. \A f \in Func : body'[f] = IF f = current THEN body[f] \ {i} ELSE body[f]
  BY <1>1
<1>3. TypeOK'
  <2>1. ASSUME NEW s \in Seq(Value \cup {Null}) PROVE Graph!Substitute(s, i, Null) \in Seq(Value \cup {Null})
    <3>1. DOMAIN s = 1..Len(s) /\ Len(s) \in Nat
      OBVIOUS
    <3>2. \A n \in 1..Len(s) : (IF s[n] = i THEN Null ELSE s[n]) \in Value \cup {Null}
      OBVIOUS
    <3>3. [n \in 1..Len(s) |-> IF s[n] = i THEN Null ELSE s[n]] \in Seq(Value \cup {Null})
      BY <3>1, <3>2
    <3> QED
      BY <3>1, <3>3 DEF Graph!Substitute
  <2>2. <<>> \in Seq(Value \cup {Null})
    OBVIOUS
  <2>3. operands' \in [Instr -> Seq(Value \cup {Null})]
    BY <1>1, <2>1, <2>2
  <2>4. body' \in [Func -> SUBSET Instr] /\ \A f, g \in Func : f # g => body'[f] \cap body'[g] = {}
    BY <1>1, <1>2 DEF IInv, TypeOK
  <2> QED
    BY <1>1, <2>3, <2>4 DEF IInv, TypeOK
<1>4. DefsInv' /\ \A f \in Func : AllNeeded(f) => AllNeeded(f)'
  <2>1. \A f \in Func : Kept(f)' = Kept(f)
    BY <1>1, <1>2 DEF Kept
  <2> QED
    BY <1>1, <2>1, EraseKeepsOperands, DoomedChange
<1>5. AliveInv'
  <2>1. i \notin Func \cup Datum
    BY DisjointAssumption, DeadCodeAssumption
  <2>2. ASSUME NEW f \in Func PROVE body'[f] \subseteq alive'
    <3>1. body[f] \subseteq alive
      BY DEF IInv, AliveInv
    <3>2. f # current => i \notin body[f]
      BY <1>1 DEF IInv, DoomedInv
    <3> QED
      BY <1>1, <1>2, <3>1, <3>2
  <2> QED
    BY <1>1, <2>1, <2>2 DEF IInv, AliveInv
<1>6. DoomedInv' /\ MarkInv' /\ SweptInv'
  BY <1>1, <1>2, <1>4 DEF IInv, DoomedInv, MarkInv, SweptInv
<1> QED
  BY <1>3, <1>4, <1>5, <1>6 DEF IInv

\* The ends of the two loops of the sweep.
LEMMA SweepEndStep == ASSUME IInv, UnlinkDone \/ SweepDone PROVE IInv'
<1>1. UNCHANGED <<body, opcode, operands, is_pure, alive, funcs, current, marked, work_list, wait_del, unlinked>>
  BY DEF UnlinkDone, SweepDone, program, info, sweepState
<1>2. TypeOK'
  BY <1>1 DEF UnlinkDone, SweepDone, IInv, TypeOK
<1>3. AliveInv' /\ DefsInv'
  BY <1>1, KeptFixed DEF IInv, AliveInv
<1>4. pc \in {"unlink", "erase"} /\ pc' \in {"erase", "loop"}
  BY DEF UnlinkDone, SweepDone
<1>5. MarkInv' /\ SweptInv'
  BY <1>1, <1>4, KeptFixed DEF IInv, MarkInv, SweptInv
<1>6. DoomedInv'
  <2>1. CASE UnlinkDone
    BY <1>1, <2>1 DEF UnlinkDone, IInv, DoomedInv
  <2>2. CASE SweepDone
    <3>1. \A f \in Func : body[f] \cap wait_del = {}
      BY <2>2 DEF SweepDone, IInv, AliveInv
    <3> QED
      BY <1>1, <2>2, <3>1 DEF SweepDone, DoomedInv
  <2> QED
    BY <2>1, <2>2
<1> QED
  BY <1>2, <1>3, <1>5, <1>6 DEF IInv

LEMMA StepIInv == IInv /\ [Next]_vars => IInv'
BY LoopStep, MarkFunctionStep, MarkInstructionStep, SweepStep, UnlinkStep, EraseStep,
   SweepEndStep DEF Next

\* Every reachable state of the pass is well typed.
THEOREM TypeCorrect == Spec => []TypeOK
<1>1. IInv => TypeOK
  BY DEF IInv
<1> QED
  BY InitIInv, StepIInv, <1>1, PTL DEF Spec

\* Deleting never leaves a kept instruction with a dead or null operand.
THEOREM OperandsStayAlive == Spec => []KeptOperandsAlive
<1>1. IInv => KeptOperandsAlive
  BY DEF IInv, AliveInv, DefsInv, Kept, KeptOperandsAlive
<1> QED
  BY InitIInv, StepIInv, <1>1, PTL DEF Spec

\* One sweep of a function removes all that is not needed, for good.
THEOREM OneSweepIsEnough == Spec => []NoDeadLeft
<1>1. ASSUME IInv, pc \in {"loop", "done"}, NEW f \in Func \ funcs, NEW i \in body[f]
      PROVE  Needed(i, f)
  <2>1. Kept(f) = body[f] /\ AllNeeded(f)
    BY <1>1 DEF Kept, IInv, DoomedInv, SweptInv
  <2>2. ASSUME NEW S \in SUBSET body[f], Enough(S, f) PROVE i \in S
    <3>1. EnoughKept(S, f)
      BY <2>1, <2>2 DEF Enough, EnoughKept
    <3> QED
      BY <2>1, <3>1 DEF AllNeeded
  <2> QED
    BY <2>2 DEF Needed
<1>2. IInv => NoDeadLeft
  BY <1>1 DEF NoDeadLeft
<1> QED
  BY InitIInv, StepIInv, <1>2, PTL DEF Spec
----------------------------------------------------------------------------
(* What is_pure says stays right while instructions disappear. *)

\* While func_info runs, its own invariant holds and the program is untouched.
InfoInv ==
  pc = "info" =>
    /\ InfoIInv
    /\ wait_del = {}

\* What stays still has the operand that is read to see what it does.
ArityInv ==
  \A f \in Func : \A i \in Kept(f) :
    /\ opcode[i] \in {"call", "load", "gep"} => 1 \in DOMAIN operands[i]
    /\ opcode[i] = "store" => 2 \in DOMAIN operands[i]

\* The impure functions are closed under what the kept instructions do.
ImpureInv ==
  \A f \in Func :
    /\ f \in decl \cup {Main} \cup ptrParam => ~ is_pure[f]
    /\ \A i \in Kept(f) : IsSideEffectInst(i) => ~ is_pure[f]
    /\ \A i \in Kept(f) : \A g \in Func : Uses(i, g) /\ ~ is_pure[g] => ~ is_pure[f]

PurityInv == InfoInv /\ ArityInv /\ (pc # "info" => ImpureInv)

LEMMA InitPurityInv == Init => PurityInv
<1> SUFFICES ASSUME Init PROVE PurityInv
  OBVIOUS
<1>1. InfoIInv
  BY InitInfoIInv DEF Init, Start, InfoInit
<1> QED
  BY <1>1 DEF Init, Start, PurityInv, InfoInv, ArityInv, Kept
\* While func_info runs.
LEMMA InfoPurityStep == ASSUME IInv, PurityInv, RunInfo PROVE PurityInv'
<1>1. UNCHANGED program /\ UNCHANGED wait_del /\ pc = "info" /\ pc' = "info" /\ InfoNext
  BY InfoStep DEF RunInfo, IInv, sweepState
<1>2. InfoIInv'
  BY <1>1, StepInfoIInv DEF PurityInv, InfoInv
<1> QED
  BY <1>1, <1>2 DEF PurityInv, InfoInv, ArityInv, Kept, program

\* The first round begins when func_info is done: impurity has then reached every
\* caller of an impure function.
LEMMA FirstRoundPurity == ASSUME IInv, PurityInv, BeginRound, pc = "info" PROVE PurityInv'
<1>1. /\ UNCHANGED program /\ UNCHANGED is_pure /\ UNCHANGED wait_del
      /\ pc' = "loop" /\ stage = "done" /\ InfoIInv /\ wait_del = {}
  BY DEF BeginRound, program, info, sweepState, PurityInv, InfoInv
<1>2. /\ \A f \in Func : TriviallyImpure(f) => ~ is_pure[f]
      /\ \A f, g \in Func : Calls(f, g) /\ ~ is_pure[g] => ~ is_pure[f]
  BY <1>1 DEF InfoIInv, SeedInv, LostInv, LoopInv, Waits
<1>3. ImpureInv
  BY <1>1, <1>2 DEF ImpureInv, Kept, TriviallyImpure, Calls
<1>4. ImpureInv'
  BY <1>1, <1>3 DEF ImpureInv, Kept, IsSideEffectInst, IsLocal, Uses, program
<1> QED
  BY <1>1, <1>4 DEF PurityInv, InfoInv, ArityInv, Kept, program

\* Whatever happens to other instructions, what a kept one does stays the same: the
\* address it stores to or loads from is computed by kept instructions.
LEMMA EffectFixed ==
  ASSUME IInv, ArityInv, NEW f \in Func, NEW i \in Kept(f), UNCHANGED opcode,
         \A j \in Kept(f) : operands'[j] = operands[j]
  PROVE  /\ IsSideEffectInst(i)' <=> IsSideEffectInst(i)
         /\ \A g : Uses(i, g)' <=> Uses(i, g)
<1> DEFINE K == Func \cup Datum \cup Kept(f)
<1>1. K \subseteq Value /\ K \cap Instr = Kept(f)
  BY DisjointAssumption, DeadCodeAssumption DEF Value, IInv, TypeOK, Kept
<1>2. \A j \in Kept(f) : \A n \in DOMAIN operands[j] : operands[j][n] \in K
  BY DEF IInv, DefsInv
<1>3. ASSUME NEW v \in K PROVE FirstAddr(opcode, operands', v) = FirstAddr(opcode, operands, v)
  <2>1. \A w \in K \cap Instr : opcode[w] = "gep" => operands[w][1] \in K /\ operands'[w][1] = operands[w][1]
    BY <1>1, <1>2 DEF ArityInv
  <2> HIDE DEF K
  <2> QED
    BY <1>1, <2>1, DeadCodeAssumption, SameFirstAddr
<1> HIDE DEF K
<1>4. \A v \in K : IsLocal(v)' <=> IsLocal(v)
  BY <1>3 DEF IsLocal
<1>5. IsSideEffectInst(i)' <=> IsSideEffectInst(i)
  BY <1>2, <1>4 DEF IsSideEffectInst, ArityInv
<1> QED
  BY <1>5 DEF Uses

\* Steps after func_info: instructions stop being kept, the kept ones do not change.
LEMMA LaterPurity ==
  ASSUME IInv, PurityInv, pc # "info", pc' # "info",
         UNCHANGED <<decl, ptrParam, opcode, is_pure>>,
         \A f \in Func : Kept(f)' \subseteq Kept(f),
         \A f \in Func : \A j \in Kept(f) : operands'[j] = operands[j]
  PROVE  PurityInv'
<1>1. ArityInv /\ ImpureInv
  BY DEF PurityInv
<1>2. ArityInv'
  BY <1>1 DEF ArityInv
<1>3. ASSUME NEW f \in Func, NEW i \in Kept(f)'
      PROVE  /\ IsSideEffectInst(i)' => ~ is_pure[f]
             /\ \A g \in Func : Uses(i, g)' /\ ~ is_pure[g] => ~ is_pure[f]
  <2>1. i \in Kept(f)
    BY <1>3
  <2>2. (IsSideEffectInst(i)' <=> IsSideEffectInst(i)) /\ \A g : Uses(i, g)' <=> Uses(i, g)
    BY <1>1, <2>1, EffectFixed
  <2> QED
    BY <1>1, <2>1, <2>2 DEF ImpureInv
<1>4. ImpureInv'
  BY <1>1, <1>3 DEF ImpureInv
<1> QED
  BY <1>2, <1>4 DEF PurityInv, InfoInv
\* Every other step leaves the kept instructions as they are, or keeps fewer.
LEMMA StepPurityInv == IInv /\ PurityInv /\ [Next]_vars => PurityInv'
<1> SUFFICES ASSUME IInv, PurityInv, [Next]_vars PROVE PurityInv'
  OBVIOUS
<1>1. CASE RunInfo
  BY <1>1, InfoPurityStep
<1>2. CASE UNCHANGED vars
  <2>1. UNCHANGED <<pc, is_pure, wait_del>> /\ UNCHANGED infoVars /\ UNCHANGED program
    BY <1>2 DEF vars, info, sweepState, infoVars, program
  <2>2. pc = "info" => PurityInv'
    <3>1. pc = "info" => InfoIInv'
      BY <2>1, StepInfoIInv DEF PurityInv, InfoInv
    <3> QED
      BY <2>1, <3>1 DEF PurityInv, InfoInv, ArityInv, Kept, program
  <2>3. pc # "info" => PurityInv'
    BY <2>1, LaterPurity DEF program, Kept
  <2> QED
    BY <2>2, <2>3
<1>3. CASE BeginRound
  <2>1. pc # "info" => PurityInv'
    BY <1>3, LaterPurity DEF BeginRound, program, info, sweepState, Kept
  <2> QED
    BY <1>3, <2>1, FirstRoundPurity
<1>4. CASE Finish \/ (\E f \in Func : MarkFunction(f)) \/ (\E i \in Instr : MarkInstruction(i))
  BY <1>4, LaterPurity DEF Finish, MarkFunction, MarkInstruction, program, info, sweepState, Kept
<1>5. CASE Sweep
  <2>1. \A f \in Func : Kept(f)' \subseteq Kept(f)
    BY <1>5 DEF Sweep, program, Kept, IInv, DoomedInv
  <2> QED
    BY <1>5, <2>1, LaterPurity DEF Sweep, program, info
<1>6. CASE UnlinkDone \/ SweepDone
  BY <1>6, LaterPurity DEF UnlinkDone, SweepDone, program, info, sweepState, Kept
<1>7. ASSUME NEW i \in Instr, Unlink(i) PROVE PurityInv'
  <2>1. \A f \in Func : \A j \in Kept(f) : operands'[j] = operands[j]
    BY <1>7 DEF Unlink, Graph!Clear, Kept, IInv, TypeOK
  <2> QED
    BY <1>7, <2>1, LaterPurity DEF Unlink, Graph!Clear, program, info, Kept
<1>8. ASSUME NEW i \in Instr, Erase(i) PROVE PurityInv'
  <2>1. /\ \A f \in Func : Kept(f)' \subseteq Kept(f)
        /\ UNCHANGED <<decl, ptrParam, opcode, is_pure>> /\ pc = "erase" /\ pc' = "erase"
    BY <1>8 DEF Erase, Kept, program, info, sweepState, IInv, TypeOK
  <2> QED
    BY <1>8, <2>1, EraseKeepsOperands, LaterPurity
<1> QED
  BY <1>1, <1>2, <1>3, <1>4, <1>5, <1>6, <1>7, <1>8 DEF Next

\* Collecting the doomed instructions: a call that reaches an impure function is a
\* call of an impure function, so that it was marked.
LEMMA SweepKeepsObservable == ASSUME IInv, PurityInv, Sweep PROVE ObservableKept'
<1> DEFINE Impure == {g \in Func : ~ is_pure[g]}
<1>1. /\ UNCHANGED program /\ UNCHANGED is_pure /\ pc = "mark"
      /\ wait_del' = {i \in body[current] : i \notin marked}
  BY DEF Sweep, info, program
<1>2. /\ \A f \in Func : Kept(f) = body[f] /\ Kept(f)' \subseteq Kept(f)
      /\ \A f \in Func : body[f] \cap wait_del = {}
  BY <1>1 DEF IInv, DoomedInv, Kept, program
<1>3. Closed(Impure)
  BY <1>1, <1>2 DEF PurityInv, ImpureInv, Closed, TriviallyImpure, Calls
<1>4. Closed(Impure)'
  <2>1. \A i : (IsSideEffectInst(i)' <=> IsSideEffectInst(i)) /\ \A g : Uses(i, g)' <=> Uses(i, g)
    BY <1>1 DEF IsSideEffectInst, IsLocal, Uses, program
  <2>2. \A f \in Func : (TriviallyImpure(f)' <=> TriviallyImpure(f)) /\ \A g : Calls(f, g)' <=> Calls(f, g)
    BY <1>1, <2>1 DEF TriviallyImpure, Calls, program
  <2> QED
    BY <1>1, <1>3, <2>2 DEF Closed
<1>5. \A g : ReachesImpure(g)' => ~ is_pure[g]
  BY <1>1, <1>4 DEF ReachesImpure
<1>6. ASSUME NEW f \in Func, NEW i \in body[f], Observable(i)' PROVE i \notin wait_del'
  <2>1. IsCritical(i)
    BY <1>1, <1>5, <1>6 DEF Observable, IsCritical, program
  <2>2. CASE f = current
    BY <1>1, <2>1, <2>2 DEF IInv, MarkInv
  <2>3. CASE f # current
    BY <1>1, <2>3 DEF IInv, TypeOK
  <2> QED
    BY <2>2, <2>3
<1> QED
  BY <1>1, <1>6 DEF ObservableKept, program

\* FuncInfo and the marks of DeadCode together: for any program, with any calls and
\* recursion among its functions and after any number of sweeps, no instruction that
\* is about to be deleted is a branch, a return, a store or a call from which an
\* impure function can be reached.
THEOREM NothingObservableRemoved == Spec => []ObservableKept
<1>1. Init => IInv /\ PurityInv /\ ObservableKept
  BY InitIInv, InitPurityInv DEF Init, Start, ObservableKept
<1>2. ASSUME IInv, PurityInv, ObservableKept, [Next]_vars PROVE ObservableKept'
  <2>1. CASE Sweep
    BY <1>2, <2>1, SweepKeepsObservable
  <2>2. CASE UNCHANGED vars
    <3>1. UNCHANGED <<pc, unlinked, body, wait_del, is_pure>> /\ \A i : Observable(i)' <=> Observable(i)
      BY <2>2 DEF vars, program, info, sweepState, Observable, ReachesImpure, Closed, TriviallyImpure,
                  IsSideEffectInst, IsLocal, Calls, Uses
    <3> QED
      BY <1>2, <3>1 DEF ObservableKept
  <2>3. CASE Next /\ ~ Sweep
    <3>1. pc' # "unlink" \/ unlinked' # {}
      BY <2>3 DEF Next, RunInfo, BeginRound, Finish, MarkFunction, MarkInstruction, Unlink,
                  UnlinkDone, Erase, SweepDone
    <3> QED
      BY <3>1 DEF ObservableKept
  <2> QED
    BY <1>2, <2>1, <2>2, <2>3
<1> QED
  BY <1>1, <1>2, StepIInv, StepPurityInv, PTL DEF Spec
=============================================================================
