--------------------------- MODULE FuncInfo_proof ---------------------------
(***************************************************************************)
(* FuncInfo computes the least set of impure functions, for every module:  *)
(* any number of functions, any calls among them, recursion included.      *)
(***************************************************************************)
EXTENDS FuncInfo, FiniteSetTheorems, WellFoundedInduction, TLAPS

Waits(g) == \E n \in DOMAIN worklist : worklist[n] = g

\* The first loop: a function it has not reached is still FALSE in the map, one
\* it has reached is impure just when it is so by itself, and then it waits.
InfoMarkInv ==
  /\ stage = "mark" => \A f \in Func \ todo :
       /\ ~ is_pure[f] => Waits(f)
       /\ is_pure[f] <=> ~ TriviallyImpure(f)
  /\ stage = "mark" => pending = {}
  /\ stage # "mark" => todo = {}

\* After it: no function that is impure by itself is pure.
SeedInv == \A f \in Func : TriviallyImpure(f) => ~ is_pure[f]

\* Whatever has been found impure reaches a function that is impure by itself.
SoundInv == \A f \in Func : f \notin todo /\ ~ is_pure[f] => ReachesImpure(f)

\* The second loop: waiting functions and processed uses belong to impure functions.
LoopInv ==
  /\ \A n \in DOMAIN worklist : ~ is_pure[worklist[n]] /\ worklist[n] \notin todo
  /\ \A i \in pending : \E f, g \in Func : i \in body[f] /\ Uses(i, g) /\ ~ is_pure[g]
  /\ stage # "process" => pending = {}
  /\ stage = "done" => worklist = <<>>

\* No propagation is lost, also at the end.
LostInv ==
  stage \in {"take", "process", "done"} =>
    \A f, g \in Func : Calls(f, g) /\ is_pure[f] /\ ~ is_pure[g] =>
      Waits(g) \/ \E i \in pending : i \in body[f] /\ Uses(i, g)

InfoIInv == InfoTypeOK /\ InfoMarkInv /\ SeedInv /\ SoundInv /\ LoopInv /\ LostInv

----------------------------------------------------------------------------
\* The program does not change, so neither does anything that is said about it.
LEMMA ProgramFixed ==
  ASSUME UNCHANGED program
  PROVE  /\ \A f \in Func : TriviallyImpure(f)' <=> TriviallyImpure(f)
         /\ \A f, g \in Func : Calls(f, g)' <=> Calls(f, g)
         /\ \A f \in Func : ReachesImpure(f)' <=> ReachesImpure(f)
         /\ ProgramOK' <=> ProgramOK
<1>1. decl' = decl /\ ptrParam' = ptrParam /\ body' = body /\ opcode' = opcode /\ operands' = operands
  BY DEF program
<1>2. \A v : IsLocal(v)' <=> IsLocal(v)
  BY <1>1 DEF IsLocal
<1>3. \A i : IsSideEffectInst(i)' <=> IsSideEffectInst(i)
  BY <1>1, <1>2 DEF IsSideEffectInst
<1>4. \A f \in Func : TriviallyImpure(f)' <=> TriviallyImpure(f)
  BY <1>1, <1>3 DEF TriviallyImpure
<1>5. \A f, g \in Func : Calls(f, g)' <=> Calls(f, g)
  BY <1>1 DEF Calls, Uses
<1>6. \A S : Closed(S)' <=> Closed(S)
  BY <1>4, <1>5 DEF Closed
<1>7. \A f \in Func : ReachesImpure(f)' <=> ReachesImpure(f)
  BY <1>6 DEF ReachesImpure
<1>8. ProgramOK' <=> ProgramOK
  BY <1>1 DEF ProgramOK
<1> QED
  BY <1>4, <1>5, <1>7, <1>8

\* Impurity by itself and impurity of a callee are the two ways to reach it.
LEMMA ReachRules ==
  /\ \A f \in Func : TriviallyImpure(f) => ReachesImpure(f)
  /\ \A f, g \in Func : Calls(f, g) /\ ReachesImpure(g) => ReachesImpure(f)
BY DEF ReachesImpure, Closed

\* The function of an instruction is the one whose body holds it.
LEMMA ParentRule ==
  ASSUME ProgramOK, NEW f \in Func, NEW i \in body[f]
  PROVE  Parent(i) = f
<1>1. \A g \in Func : i \in body[g] => g = f
  BY DEF ProgramOK
<1> QED
  BY <1>1 DEF Parent

LEMMA InitInfoIInv == InfoInit => InfoIInv
<1> SUFFICES ASSUME InfoInit PROVE InfoIInv
  OBVIOUS
<1> USE DEF InfoInit, InfoStart
<1>1. InfoTypeOK
  BY DEF InfoTypeOK
<1>2. InfoMarkInv /\ SeedInv /\ SoundInv /\ LoopInv /\ LostInv
  BY DEF InfoMarkInv, SeedInv, SoundInv, LoopInv, LostInv
<1> QED
  BY <1>1, <1>2 DEF InfoIInv

----------------------------------------------------------------------------
(* The steps. *)

\* Appending to the worklist keeps who waits and adds the appended function.
LEMMA AppendWaits ==
  ASSUME worklist \in Seq(Func), NEW f \in Func, worklist' = Append(worklist, f)
  PROVE  /\ worklist' \in Seq(Func)
         /\ \A g \in Func : Waits(g)' <=> Waits(g) \/ g = f
         /\ \A n \in DOMAIN worklist' : worklist'[n] = f \/ \E m \in DOMAIN worklist : worklist'[n] = worklist[m]
<1>1. /\ worklist' \in Seq(Func)
      /\ DOMAIN worklist' = 1..(Len(worklist) + 1)
      /\ DOMAIN worklist = 1..Len(worklist)
      /\ Len(worklist) \in Nat
      /\ \A n \in DOMAIN worklist : worklist'[n] = worklist[n]
      /\ worklist'[Len(worklist) + 1] = f
  OBVIOUS
<1>2. \A n \in DOMAIN worklist' : n \in DOMAIN worklist \/ n = Len(worklist) + 1
  BY <1>1
<1>3. DOMAIN worklist \subseteq DOMAIN worklist' /\ Len(worklist) + 1 \in DOMAIN worklist'
  BY <1>1
<1>4. \A g \in Func : Waits(g)' <=> Waits(g) \/ g = f
  BY <1>1, <1>2, <1>3 DEF Waits
<1> QED
  BY <1>1, <1>2, <1>4

\* Taking the front function off the worklist leaves everybody else waiting.
LEMMA TakeWaits ==
  ASSUME worklist \in Seq(Func), worklist # <<>>, worklist' = Tail(worklist)
  PROVE  /\ worklist' \in Seq(Func)
         /\ Head(worklist) \in Func /\ Waits(Head(worklist))
         /\ \A g \in Func : Waits(g) /\ g # Head(worklist) => Waits(g)'
         /\ \A n \in DOMAIN worklist' : \E m \in DOMAIN worklist : worklist'[n] = worklist[m]
<1>1. /\ worklist' \in Seq(Func)
      /\ Len(worklist) \in Nat \ {0}
      /\ DOMAIN worklist = 1..Len(worklist)
      /\ DOMAIN worklist' = 1..(Len(worklist) - 1)
      /\ \A n \in 1..(Len(worklist) - 1) : worklist'[n] = worklist[n + 1]
      /\ Head(worklist) = worklist[1]
  OBVIOUS
<1>2. 1 \in DOMAIN worklist /\ Head(worklist) \in Func
  BY <1>1
<1>3. \A n \in DOMAIN worklist' : n + 1 \in DOMAIN worklist /\ worklist'[n] = worklist[n + 1]
  BY <1>1
<1>4. ASSUME NEW m \in DOMAIN worklist, m # 1 PROVE m - 1 \in DOMAIN worklist' /\ worklist'[m - 1] = worklist[m]
  <2>1. m - 1 \in 1..(Len(worklist) - 1) /\ (m - 1) + 1 = m
    BY <1>1, <1>4
  <2> QED
    BY <1>1, <2>1
<1>5. \A g \in Func : Waits(g) /\ g # Head(worklist) => Waits(g)'
  BY <1>1, <1>4 DEF Waits
<1> QED
  BY <1>1, <1>2, <1>3, <1>5 DEF Waits

\* trivial_mark of one function.
LEMMA TrivialMarkStep == ASSUME InfoIInv, NEW f \in Func, TrivialMark(f) PROVE InfoIInv'
<1>1. /\ UNCHANGED program /\ UNCHANGED pending /\ stage = "mark" /\ f \in todo
      /\ pending = {} /\ todo' = todo \ {f}
      /\ stage' = IF todo' = {} THEN "take" ELSE "mark"
      /\ is_pure \in [Func -> BOOLEAN] /\ worklist \in Seq(Func) /\ todo \subseteq Func
      /\ \A g \in Func : is_pure'[g] = IF g = f THEN ~ TriviallyImpure(f) ELSE is_pure[g]
      /\ is_pure' \in [Func -> BOOLEAN]
  BY DEF TrivialMark, InfoIInv, InfoMarkInv, InfoTypeOK
<1>2. /\ worklist' \in Seq(Func)
      /\ \A g \in Func : Waits(g)' <=> Waits(g) \/ (g = f /\ TriviallyImpure(f))
      /\ \A n \in DOMAIN worklist' : \/ worklist'[n] = f /\ TriviallyImpure(f)
                                    \/ \E m \in DOMAIN worklist : worklist'[n] = worklist[m]
  <2>1. CASE TriviallyImpure(f)
    BY <1>1, <2>1, AppendWaits DEF TrivialMark
  <2>2. CASE ~ TriviallyImpure(f)
    BY <1>1, <2>2 DEF TrivialMark, Waits
  <2> QED
    BY <2>1, <2>2
<1>3. InfoTypeOK'
  BY <1>1, <1>2, ProgramFixed DEF InfoTypeOK, InfoIInv
<1>4. \A g \in Func \ todo' : (~ is_pure'[g] => Waits(g)') /\ (is_pure'[g] <=> ~ TriviallyImpure(g))
  BY <1>1, <1>2 DEF InfoIInv, InfoMarkInv
<1>5. InfoMarkInv'
  BY <1>1, <1>4, ProgramFixed DEF InfoMarkInv
<1>6. SeedInv' /\ SoundInv'
  BY <1>1, <1>4, ProgramFixed, ReachRules DEF InfoIInv, SeedInv, SoundInv
<1>7. LoopInv'
  BY <1>1, <1>2 DEF InfoIInv, LoopInv
<1>8. LostInv'
  BY <1>1, <1>4 DEF LostInv
<1> QED
  BY <1>3, <1>5, <1>6, <1>7, <1>8 DEF InfoIInv

\* The front function leaves the worklist and its call sites become pending.
LEMMA TakeStep == ASSUME InfoIInv, Take PROVE InfoIInv'
<1>1. /\ UNCHANGED program /\ UNCHANGED is_pure /\ UNCHANGED todo
      /\ stage = "take" /\ stage' = "process" /\ worklist # <<>> /\ worklist' = Tail(worklist)
      /\ worklist \in Seq(Func) /\ pending' = CallSites(Head(worklist)) /\ pending = {} /\ todo = {}
  BY DEF Take, InfoIInv, InfoTypeOK, LoopInv, InfoMarkInv
<1>2. Head(worklist) \in Func /\ ~ is_pure[Head(worklist)]
  BY <1>1, TakeWaits DEF Waits, InfoIInv, LoopInv
<1>3. InfoTypeOK'
  BY <1>1, TakeWaits, ProgramFixed DEF InfoTypeOK, InfoIInv, CallSites, ProgramOK
<1>4. InfoMarkInv' /\ SeedInv' /\ SoundInv'
  BY <1>1, ProgramFixed DEF InfoIInv, InfoMarkInv, SeedInv, SoundInv
<1>5. \A n \in DOMAIN worklist' : ~ is_pure[worklist'[n]]
  BY <1>1, TakeWaits DEF InfoIInv, LoopInv
<1>6. \A i \in pending' : \E g \in Func : i \in body[g] /\ Uses(i, Head(worklist))
  BY <1>1 DEF CallSites
<1>7. LoopInv'
  BY <1>1, <1>2, <1>5, <1>6 DEF LoopInv, program, Uses
<1>8. LostInv'
  <2>1. ASSUME NEW h \in Func, NEW g \in Func, Calls(h, g), is_pure[h], ~ is_pure[g]
        PROVE  Waits(g)' \/ \E i \in pending' : i \in body[h] /\ Uses(i, g)
    <3>1. Waits(g)
      BY <1>1, <2>1 DEF InfoIInv, LostInv
    <3>2. CASE g = Head(worklist)
      BY <1>1, <2>1, <3>2 DEF Calls, CallSites
    <3> QED
      BY <1>1, <3>1, <3>2, TakeWaits
  <2> QED
    BY <1>1, <2>1, ProgramFixed DEF LostInv, program, Uses
<1> QED
  BY <1>3, <1>4, <1>7, <1>8 DEF InfoIInv

\* One use: the caller becomes impure, if it was not, and waits.
LEMMA ProcessStep == ASSUME InfoIInv, NEW i \in Instr, Process(i) PROVE InfoIInv'
<1>1. /\ UNCHANGED program /\ UNCHANGED todo /\ UNCHANGED stage
      /\ stage = "process" /\ i \in pending /\ pending' = pending \ {i} /\ todo = {}
      /\ worklist \in Seq(Func) /\ is_pure \in [Func -> BOOLEAN] /\ ProgramOK
  BY DEF Process, InfoIInv, InfoTypeOK, InfoMarkInv
<1>2. PICK f, g \in Func : i \in body[f] /\ Uses(i, g) /\ ~ is_pure[g]
  BY <1>1 DEF InfoIInv, LoopInv
<1>3. Parent(i) = f
  BY <1>1, <1>2, ParentRule
<1>4. /\ is_pure' \in [Func -> BOOLEAN]
      /\ \A h \in Func : is_pure'[h] <=> is_pure[h] /\ h # f
      /\ worklist' \in Seq(Func)
      /\ \A h \in Func : Waits(h)' <=> Waits(h) \/ (h = f /\ is_pure[f])
      /\ \A n \in DOMAIN worklist' : \/ worklist'[n] = f
                                    \/ \E m \in DOMAIN worklist : worklist'[n] = worklist[m]
  <2>1. CASE is_pure[f]
    BY <1>1, <1>3, <2>1, AppendWaits DEF Process
  <2>2. CASE ~ is_pure[f]
    BY <1>1, <1>3, <2>2 DEF Process, Waits
  <2> QED
    BY <2>1, <2>2
<1>5. InfoTypeOK'
  BY <1>1, <1>4, ProgramFixed DEF InfoTypeOK, InfoIInv
<1>6. Calls(f, g)
  BY <1>2 DEF Calls
<1>7. ReachesImpure(f)
  BY <1>1, <1>2, <1>6, ReachRules DEF InfoIInv, SoundInv
<1>8. InfoMarkInv' /\ SeedInv'
  BY <1>1, <1>4, ProgramFixed DEF InfoIInv, InfoMarkInv, SeedInv
<1>9. SoundInv'
  BY <1>1, <1>4, <1>7, ProgramFixed DEF InfoIInv, SoundInv
<1>10. LoopInv'
  <2>1. \A n \in DOMAIN worklist' : ~ is_pure'[worklist'[n]]
    BY <1>1, <1>4 DEF InfoIInv, LoopInv
  <2>2. \A j \in pending' : \E h, k \in Func : j \in body[h] /\ Uses(j, k) /\ ~ is_pure'[k]
    BY <1>1, <1>4 DEF InfoIInv, LoopInv
  <2>3. body' = body /\ \A j, k : Uses(j, k)' <=> Uses(j, k)
    BY <1>1 DEF program, Uses
  <2> QED
    BY <1>1, <2>1, <2>2, <2>3 DEF LoopInv
<1>11. LostInv'
  <2>1. ASSUME NEW h \in Func, NEW k \in Func, Calls(h, k), is_pure'[h], ~ is_pure'[k]
        PROVE  Waits(k)' \/ \E j \in pending' : j \in body[h] /\ Uses(j, k)
    <3>1. is_pure[h] /\ h # f
      BY <1>4, <2>1
    <3>2. i \notin body[h]
      BY <1>1, <1>2, <3>1 DEF ProgramOK
    <3>3. CASE is_pure[k]
      BY <1>4, <2>1, <3>3
    <3>4. CASE ~ is_pure[k]
      BY <1>1, <1>4, <2>1, <3>1, <3>2, <3>4 DEF InfoIInv, LostInv
    <3> QED
      BY <3>3, <3>4
  <2>2. body' = body /\ \A j, k : Uses(j, k)' <=> Uses(j, k)
    BY <1>1 DEF program, Uses
  <2> QED
    BY <1>1, <2>1, <2>2, ProgramFixed DEF LostInv
<1> QED
  BY <1>5, <1>8, <1>9, <1>10, <1>11 DEF InfoIInv

\* The two loop exits change the stage only.
LEMMA StageStep ==
  ASSUME InfoIInv, ProcessDone \/ InfoDone \/ UNCHANGED infoVars
  PROVE  InfoIInv'
<1>1. UNCHANGED <<program, is_pure, worklist, todo, pending>>
  BY DEF ProcessDone, InfoDone, infoVars
<1>2. InfoTypeOK'
  BY <1>1, ProgramFixed DEF ProcessDone, InfoDone, infoVars, InfoTypeOK, InfoIInv
<1>3. \A g \in Func : Waits(g)' <=> Waits(g)
  BY <1>1 DEF Waits
<1>4. InfoMarkInv' /\ SeedInv' /\ SoundInv'
  BY <1>1, <1>3, ProgramFixed DEF ProcessDone, InfoDone, infoVars, InfoMarkInv, SeedInv, SoundInv, InfoIInv
<1>5. body' = body /\ \A j, k : Uses(j, k)' <=> Uses(j, k)
  BY <1>1 DEF program, Uses
<1>6. LoopInv'
  BY <1>1, <1>5 DEF ProcessDone, InfoDone, infoVars, LoopInv, InfoIInv
<1>7. LostInv'
  BY <1>1, <1>3, <1>5, ProgramFixed DEF ProcessDone, InfoDone, infoVars, LostInv, InfoIInv
<1> QED
  BY <1>2, <1>4, <1>6, <1>7 DEF InfoIInv

LEMMA StepInfoIInv == InfoIInv /\ [InfoNext]_infoVars => InfoIInv'
BY TrivialMarkStep, TakeStep, ProcessStep, StageStep DEF InfoNext

\* Every reachable state of the pass is well typed.
THEOREM InfoTypeCorrect == InfoSpec => []InfoTypeOK
<1>1. InfoIInv => InfoTypeOK
  BY DEF InfoIInv
<1> QED
  BY InitInfoIInv, StepInfoIInv, <1>1, PTL DEF InfoSpec

\* Between the two loops, and in the middle of the second, no caller of an impure
\* function is overlooked.
THEOREM NothingEverLost == InfoSpec => []NothingLost
<1>1. InfoIInv => NothingLost
  BY DEF InfoIInv, LostInv, NothingLost, Waits
<1> QED
  BY InitInfoIInv, StepInfoIInv, <1>1, PTL DEF InfoSpec

\* The result is the least fixed point: pure means that no function that is
\* impure by itself is called, directly or through other functions.
THEOREM PureCorrect == InfoSpec => PureMeansNoImpureCallee
<1>1. ASSUME InfoIInv, InfoDone, NEW f \in Func PROVE is_pure[f] <=> ~ ReachesImpure(f)
  <2>1. todo = {} /\ worklist = <<>> /\ pending = {} /\ is_pure \in [Func -> BOOLEAN]
    BY <1>1 DEF InfoDone, InfoIInv, InfoMarkInv, LoopInv, InfoTypeOK
  <2>2. ~ is_pure[f] => ReachesImpure(f)
    BY <1>1, <2>1 DEF InfoIInv, SoundInv
  <2>3. Closed({g \in Func : ~ is_pure[g]})
    BY <1>1, <2>1 DEF InfoDone, InfoIInv, SeedInv, LostInv, Waits, Closed
  <2>4. ReachesImpure(f) => ~ is_pure[f]
    BY <2>3 DEF ReachesImpure
  <2> QED
    BY <2>2, <2>4
<1>2. InfoIInv => (InfoDone => \A f \in Func : is_pure[f] <=> ~ ReachesImpure(f))
  BY <1>1
<1> QED
  BY InitInfoIInv, StepInfoIInv, <1>2, PTL DEF InfoSpec, PureMeansNoImpureCallee
----------------------------------------------------------------------------
(* The chains of getelementptr. *)

\* A set of numbers has a least one.
LEMMA LeastNumber ==
  ASSUME NEW T, T \subseteq Nat, T # {}
  PROVE  \E m \in T : \A n \in T : m <= n
<1> DEFINE R == OpToRel(<, Nat)
<1>1. IsWellFoundedOn(R, Nat)
  BY NatLessThanWellFounded
<1>2. ASSUME NEW x \in Nat, NEW y \in Nat, x < y PROVE <<x, y>> \in R
  BY <1>2 DEF OpToRel
<1> HIDE DEF R
<1>3. PICK m \in T : \A y \in T : ~ (<<y, m>> \in R)
  BY <1>1, WFMin
<1>4. ASSUME NEW n \in T, ~ (m <= n) PROVE FALSE
  <2>1. m \in Nat /\ n \in Nat /\ n < m
    BY <1>4
  <2> QED
    BY <1>2, <1>3, <2>1
<1> QED
  BY <1>3, <1>4

\* One step of the chase, when r is what the chase of the base gives.
Step(op, args, n, r) ==
  [w \in Value |-> IF n > 0 /\ w \in Instr /\ op[w] = "gep" THEN r[args[w][1]] ELSE w]

\* The recursive function of FirstAddr.
Chase(op, args) ==
  CHOOSE chase : chase = [n \in Nat |->
        [w \in Value |->
           IF n > 0 /\ w \in Instr /\ op[w] = "gep" THEN chase[n - 1][args[w][1]] ELSE w]]

\* FirstAddr is that function after as many steps as there are instructions.
LEMMA FirstAddrIsChase ==
  ASSUME NEW op, NEW args, NEW v
  PROVE  FirstAddr(op, args, v) = Chase(op, args)[Cardinality(Instr)][v]
BY DEF FirstAddr, Chase

\* The beginning of that function, up to m.
Begins(c, m, op, args) ==
  /\ DOMAIN c = 0..m
  /\ \A n \in 0..m : c[n] = Step(op, args, n, c[n - 1])

\* Every beginning exists, the shorter ones first.
LEMMA Beginnings ==
  ASSUME NEW op, NEW args, NEW m \in Nat
  PROVE  \E c : Begins(c, m, op, args)
<1> DEFINE None == {k \in Nat : ~ \E c : Begins(c, k, op, args)}
<1>1. SUFFICES ASSUME None # {} PROVE FALSE
  OBVIOUS
<1>2. PICK k \in None : \A n \in None : k <= n
  BY <1>1, LeastNumber
<1>3. CASE k = 0
  <2> DEFINE c == [n \in 0..0 |-> Step(op, args, 0, <<>>)]
  <2>1. Step(op, args, 0, c[0 - 1]) = Step(op, args, 0, <<>>)
    BY DEF Step
  <2>2. Begins(c, 0, op, args)
    BY <2>1 DEF Begins
  <2> QED
    BY <1>2, <1>3, <2>2
<1>4. CASE k # 0
  <2>1. k - 1 \in Nat /\ ~ (k <= k - 1)
    BY <1>4
  <2>2. PICK d : Begins(d, k - 1, op, args)
    BY <1>2, <2>1
  <2> DEFINE c == [n \in 0..k |-> IF n = k THEN Step(op, args, k, d[k - 1]) ELSE d[n]]
  <2>3. DOMAIN c = 0..k /\ c[k] = Step(op, args, k, d[k - 1]) /\ \A n \in 0..(k - 1) : c[n] = d[n]
    BY <1>4
  <2>4. ASSUME NEW n \in 0..k PROVE c[n] = Step(op, args, n, c[n - 1])
    <3> HIDE DEF c
    <3>1. CASE n = k
      <4>1. k - 1 \in 0..(k - 1)
        BY <2>1
      <4> QED
        BY <2>3, <3>1, <4>1
    <3>2. CASE n # k /\ n # 0
      <4>1. n \in 0..(k - 1) /\ n - 1 \in 0..(k - 1)
        BY <3>2
      <4> QED
        BY <2>2, <2>3, <4>1 DEF Begins
    <3>3. CASE n # k /\ n = 0
      <4>1. n \in 0..(k - 1)
        BY <3>3
      <4>2. \A r : Step(op, args, 0, r) = Step(op, args, 0, c[0 - 1])
        BY DEF Step
      <4> QED
        BY <2>2, <2>3, <3>3, <4>1, <4>2 DEF Begins
    <3> QED
      BY <3>1, <3>2, <3>3
  <2>5. Begins(c, k, op, args)
    BY <2>3, <2>4 DEF Begins
  <2> QED
    BY <1>2, <2>5
<1> QED
  BY <1>3, <1>4

\* A longer beginning continues a shorter one.
LEMMA BeginningsAgree ==
  ASSUME NEW op, NEW args, NEW m \in Nat, NEW l \in Nat, l <= m, NEW c, NEW d,
         Begins(c, m, op, args), Begins(d, l, op, args)
  PROVE  \A n \in 0..l : c[n] = d[n]
<1> DEFINE Apart == {n \in 0..l : c[n] # d[n]}
<1>1. SUFFICES ASSUME Apart # {} PROVE FALSE
  OBVIOUS
<1>2. PICK k \in Apart : \A n \in Apart : k <= n
  <2>1. Apart \subseteq Nat
    OBVIOUS
  <2> HIDE DEF Apart
  <2> QED
    BY <1>1, <2>1, LeastNumber
<1>3. k \in 0..m /\ k \in 0..l /\ c[k] # d[k]
  OBVIOUS
<1>4. c[k] = Step(op, args, k, c[k - 1]) /\ d[k] = Step(op, args, k, d[k - 1])
  BY <1>3 DEF Begins
<1>5. CASE k = 0
  BY <1>3, <1>4, <1>5 DEF Step
<1>6. CASE k # 0
  <2>1. k - 1 \in 0..l /\ ~ (k <= k - 1)
    BY <1>3, <1>6
  <2>2. c[k - 1] = d[k - 1]
    BY <1>2, <2>1
  <2> QED
    BY <1>3, <1>4, <2>2
<1> QED
  BY <1>5, <1>6

\* The recursive function exists: it is what its beginnings have in common.
LEMMA ChaseRule ==
  ASSUME NEW op, NEW args, NEW n \in Nat
  PROVE  Chase(op, args)[n] = Step(op, args, n, Chase(op, args)[n - 1])
<1> DEFINE B(m) == CHOOSE c : Begins(c, m, op, args)
           F == [m \in Nat |-> B(m)[m]]
           Rec(c) == [m \in Nat |-> Step(op, args, m, c[m - 1])]
<1>1. \A m \in Nat : Begins(B(m), m, op, args)
  BY Beginnings
<1> HIDE DEF B
<1>2. ASSUME NEW m \in Nat PROVE F[m] = Step(op, args, m, F[m - 1])
  <2>1. B(m)[m] = Step(op, args, m, B(m)[m - 1])
    BY <1>1 DEF Begins
  <2>2. CASE m = 0
    BY <2>1, <2>2 DEF Step
  <2>3. CASE m # 0
    <3>1. m - 1 \in Nat /\ m - 1 <= m /\ m - 1 \in 0..(m - 1)
      BY <2>3
    <3>2. B(m)[m - 1] = B(m - 1)[m - 1]
      BY <1>1, <3>1, BeginningsAgree
    <3> QED
      BY <2>1, <3>1, <3>2
  <2> QED
    BY <2>2, <2>3
<1>3. F = Rec(F)
  <2>1. F = [m \in Nat |-> F[m]]
    OBVIOUS
  <2> HIDE DEF F
  <2> QED
    BY <1>2, <2>1
<1> HIDE DEF F
<1>4. Chase(op, args) = CHOOSE c : c = Rec(c)
  BY DEF Chase, Step
<1>5. Chase(op, args) = Rec(Chase(op, args))
  <2> HIDE DEF Rec
  <2> QED
    BY <1>3, <1>4
<1> QED
  BY <1>5

\* What is changed outside a set that the chains do not leave makes no difference
\* to an address inside it.
LEMMA SameFirstAddr ==
  ASSUME NEW op, NEW args, NEW args2, NEW K, K \subseteq Value, IsFiniteSet(Instr),
         \A w \in K \cap Instr : op[w] = "gep" => args[w][1] \in K /\ args2[w][1] = args[w][1],
         NEW v \in K
  PROVE  FirstAddr(op, args2, v) = FirstAddr(op, args, v)
<1> DEFINE c == Chase(op, args)
           d == Chase(op, args2)
           Apart == {n \in Nat : \E w \in K : c[n][w] # d[n][w]}
<1>1. ASSUME NEW n \in Apart PROVE FALSE
  <2>1. PICK k \in Apart : \A l \in Apart : k <= l
    BY <1>1, LeastNumber
  <2>2. PICK w \in K : c[k][w] # d[k][w]
    OBVIOUS
  <2>3. c[k] = Step(op, args, k, c[k - 1]) /\ d[k] = Step(op, args2, k, d[k - 1])
    BY ChaseRule
  <2> HIDE DEF c, d
  <2>4. CASE k > 0 /\ w \in Instr /\ op[w] = "gep"
    <3>1. c[k][w] = c[k - 1][args[w][1]] /\ d[k][w] = d[k - 1][args[w][1]] /\ args[w][1] \in K
      BY <2>3, <2>4 DEF Step
    <3>2. k - 1 \in Nat /\ ~ (k <= k - 1)
      BY <2>4
    <3> QED
      BY <2>1, <2>2, <3>1, <3>2
  <2>5. CASE ~ (k > 0 /\ w \in Instr /\ op[w] = "gep")
    BY <2>2, <2>3, <2>5 DEF Step
  <2> QED
    BY <2>4, <2>5
<1>2. Cardinality(Instr) \in Nat
  BY FS_CardinalityType
<1> QED
  BY <1>1, <1>2, FirstAddrIsChase
=============================================================================
