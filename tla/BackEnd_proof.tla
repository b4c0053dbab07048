---------------------------- MODULE BackEnd_proof ----------------------------
(***************************************************************************)
(* Proofs about the back end: Naming and Labels for any program and any    *)
(* edits, then Frame for any functions and constants of supported size.    *)
(*                                                                         *)
(* Two values of a function never get the same number: the numbers given   *)
(* so far are exactly those below the counter and the size of the map, so  *)
(* that the next one is new; this needs that the map holds only values     *)
(* that have a name, and is empty between two walks (IInv).                *)
(*                                                                         *)
(* The text of a function can be read back (ReadBack): no edit breaks a    *)
(* body (BodyInv, where a body before and after an edit differ by one      *)
(* place, Splice), a walk leaves no value unnamed (WalkInv), and a text    *)
(* that is there is what would be printed now (TextInv), so that its names *)
(* and types are those of the operands.                                    *)
(*                                                                         *)
(* The labels of the assembly resolve (ReferencesResolve): when the        *)
(* emission begins all values are named, and from then on each label is of *)
(* one kind and comes from what has been emitted (KindInv), a label that   *)
(* is named is there, or is that of a function, or of a block of the       *)
(* current function that is still ahead (RefInv).  When one function at    *)
(* most compares floats and no name is exit with a number (NoClash), the   *)
(* labels also differ: the numbers of the comparisons in the output are    *)
(* below the count, which begins with that function (CountInv).            *)
(*                                                                         *)
(* Frame: every emitted instruction can be encoded, the instructions of an *)
(* IR instruction do what it means, and a caller finds its frame and its   *)
(* registers again.  The layout keeps every slot and array between the     *)
(* saved registers and the stack pointer (FrameLayout); what is emitted is *)
(* one of a few sequences, seen here as a first instruction Then the rest; *)
(* and the invariant (FrameInv) says after which of their instructions the *)
(* machine is (Stage), that activations lie below each other (Layered) and *)
(* that their saved registers are in memory (Saved).                       *)
(***************************************************************************)
EXTENDS Labels, Frame, FiniteSetTheorems, SequenceTheorems, WellFoundedInduction, TLAPS

----------------------------------------------------------------------------
(* Names, text and labels. *)

MapNamed ==
  /\ IsFiniteSet(seq)
  /\ \A v \in seq : Named(v)
  /\ current = NoFunction => seq = {}
  /\ current # NoFunction => left # <<>> /\ phase # "idle"

IInv == TypeOK /\ MapNamed /\ NamesDiffer /\ NumbersDense

----------------------------------------------------------------------------
(* Bodies after an edit. *)

ValuesOf(f) == {v \in Value : Owner[v] = f}

LEMMA OwnedBody ==
  ASSUME NEW s, NEW f
  PROVE  s \in Seq(ValuesOf(f)) <=> s \in Seq(Value) /\ \A i \in DOMAIN s : Owner[s[i]] = f
<1>1. ASSUME s \in Seq(ValuesOf(f)) PROVE s \in Seq(Value) /\ \A i \in DOMAIN s : Owner[s[i]] = f
  <2>1. \A i \in 1..Len(s) : s[i] \in ValuesOf(f)
    BY <1>1
  <2>2. Len(s) \in Nat /\ DOMAIN s = 1..Len(s) /\ s = [i \in 1..Len(s) |-> s[i]]
    BY <1>1
  <2> QED
    BY <2>1, <2>2 DEF ValuesOf
<1>2. ASSUME s \in Seq(Value), \A i \in DOMAIN s : Owner[s[i]] = f PROVE s \in Seq(ValuesOf(f))
  <2>1. Len(s) \in Nat /\ DOMAIN s = 1..Len(s) /\ s = [i \in 1..Len(s) |-> s[i]]
    BY <1>2
  <2>2. \A i \in 1..Len(s) : s[i] \in ValuesOf(f)
    BY <1>2, <2>1 DEF ValuesOf
  <2> QED
    BY <2>1, <2>2
<1> QED
  BY <1>1, <1>2

LEMMA PartOfBody ==
  ASSUME NEW s, NEW f, s \in Seq(ValuesOf(f)), NEW m \in Int, NEW n \in Int, m >= 1, n <= Len(s)
  PROVE  SubSeq(s, m, n) \in Seq(ValuesOf(f))
<1>1. \A i \in m..n : s[i] \in ValuesOf(f)
  OBVIOUS
<1> QED
  BY <1>1, SubSeqProperties

LEMMA Inserted ==
  ASSUME NEW f, NEW s \in Seq(ValuesOf(f)), NEW p \in DOMAIN s, NEW v \in ValuesOf(f)
  PROVE  SubSeq(s, 1, p) \o <<v>> \o SubSeq(s, p + 1, Len(s)) \in Seq(ValuesOf(f))
<1>1. p \in 1..Len(s) /\ Len(s) \in Nat
  OBVIOUS
<1>2. SubSeq(s, 1, p) \in Seq(ValuesOf(f)) /\ SubSeq(s, p + 1, Len(s)) \in Seq(ValuesOf(f))
  BY <1>1, PartOfBody
<1>3. <<v>> \in Seq(ValuesOf(f))
  OBVIOUS
<1> QED
  BY <1>2, <1>3, ConcatProperties

LEMMA Erased ==
  ASSUME NEW f, NEW s \in Seq(ValuesOf(f)), NEW p \in DOMAIN s
  PROVE  SubSeq(s, 1, p - 1) \o SubSeq(s, p + 1, Len(s)) \in Seq(ValuesOf(f))
<1>1. p \in 1..Len(s) /\ Len(s) \in Nat
  OBVIOUS
<1>2. SubSeq(s, 1, p - 1) \in Seq(ValuesOf(f)) /\ SubSeq(s, p + 1, Len(s)) \in Seq(ValuesOf(f))
  BY <1>1, PartOfBody
<1> QED
  BY <1>2, ConcatProperties

----------------------------------------------------------------------------
(* The invariant. *)

LEMMA InitInv == Init => IInv
<1> SUFFICES ASSUME Init PROVE IInv
  OBVIOUS
<1>1. TypeOK
  <2>1. \A f \in Function : \A i \in DOMAIN Start[f] : Start[f][i] \in Value
    BY ProgramAssumption
  <2>2. made \subseteq Value
    BY <2>1 DEF Init
  <2>3. name \in [Value -> ({"arg", "label", "op"} \X Nat) \cup {NoName}]
    BY DEF Init
  <2>4. \A v \in Value : ~Named(v)
    BY DEF Init, Named
  <2>5. left \in Seq(Function) /\ seqCnt \in [Function -> Nat] /\ at \in Nat \ {0}
    BY DEF Init
  <2>6. body \in [Function -> Seq(Value)] /\ \A f \in Function : \A i \in DOMAIN body[f] : Owner[body[f][i]] = f
    BY ProgramAssumption DEF Init
  <2> QED
    BY <2>2, <2>3, <2>4, <2>5, <2>6 DEF Init, TypeOK
<1>2. MapNamed
  BY FS_EmptySet DEF Init, MapNamed
<1>3. NamesDiffer
  BY DEF Init, NamesDiffer, Named
<1>4. NumbersDense
  <2>1. ASSUME NEW f \in Function PROVE Numbers(f) = 0..Count(f) - 1
    BY FS_EmptySet, ProgramAssumption DEF Init, Numbers, Count, Named
  <2> QED
    BY <2>1 DEF NumbersDense
<1> QED
  BY <1>1, <1>2, <1>3, <1>4 DEF IInv

\* What names and counter stay, the numbers do.
LEMMA NamesSame ==
  ASSUME IInv, UNCHANGED <<name, seqCnt, current, seq>>
  PROVE  NamesDiffer' /\ NumbersDense'
BY DEF IInv, NamesDiffer, NumbersDense, Numbers, Count, Named

LEMMA EditInv ==
  ASSUME IInv, Edit
  PROVE  IInv'
<1> PICK f \in Function, p \in 1..Cardinality(Value) :
      /\ p \in DOMAIN body[f]
      /\ Erase(f, p) \/ \E v \in Value : Insert(f, p, v)
  BY DEF Edit
<1>1. \A g \in Function : body[g] \in Seq(ValuesOf(g))
  BY OwnedBody DEF IInv, TypeOK
<1>2. UNCHANGED <<name, seqCnt, walk>>
  BY DEF Erase, Insert
<1>3. \E t \in Seq(ValuesOf(f)) : body' = [body EXCEPT ![f] = t]
  <2>1. CASE Erase(f, p)
    BY <1>1, <2>1, Erased DEF Erase
  <2>2. CASE \E v \in Value : Insert(f, p, v)
    <3> PICK v \in Value : Insert(f, p, v)
      BY <2>2
    <3>1. v \in ValuesOf(f)
      BY DEF Insert, ValuesOf
    <3> QED
      BY <1>1, <3>1, Inserted DEF Insert
  <2> QED
    BY <2>1, <2>2
<1>a. body' \in [Function -> Seq(Value)] /\ \A g \in Function : \A i \in DOMAIN body'[g] : Owner[body'[g][i]] = g
  <2>1. body' = [g \in Function |-> body'[g]] /\ \A g \in Function : body'[g] \in Seq(ValuesOf(g))
    BY <1>1, <1>3 DEF IInv, TypeOK
  <2>2. \A g \in Function : body'[g] \in Seq(Value) /\ \A i \in DOMAIN body'[g] : Owner[body'[g][i]] = g
    BY <2>1, OwnedBody
  <2> QED
    BY <2>1, <2>2
<1>4. made' \subseteq Value
  <2>1. made' = made \/ \E v \in Value : made' = made \cup {v}
    BY DEF Erase, Insert
  <2> QED
    BY <2>1 DEF IInv, TypeOK
<1>b. MapNamed'
  BY <1>2 DEF IInv, MapNamed, Named, walk
<1>5. TypeOK'
  BY <1>2, <1>a, <1>4 DEF IInv, TypeOK, walk, Named
<1> QED
  BY <1>2, <1>b, <1>5, NamesSame DEF IInv, walk

\* The next number is new.
LEMMA NameValueInv ==
  ASSUME IInv, NameValue
  PROVE  IInv'
<1> DEFINE v == body[current][at]
<1>1. current \in Function /\ v \in Value /\ Owner[v] = current /\ ~Named(v)
  BY DEF IInv, TypeOK, NameValue, Walking, NeedsName, Named
<1>2. NeedsName(v) /\ name' = [name EXCEPT ![v] = <<Prefix(v), Number>>] /\ seq' = seq \cup {v}
  BY DEF NameValue
<1>3. UNCHANGED <<body, made, seqCnt, phase, printing, left, current, text>> /\ at' = at + 1
  BY DEF NameValue
<1> HIDE DEF v
<1>4. Number \in Nat /\ Number = Count(current)
  <2>1. Cardinality(seq) \in Nat
    BY FS_CardinalityType DEF IInv, MapNamed
  <2> QED
    BY <1>1, <2>1 DEF Number, Count, IInv, TypeOK
<1>5. Prefix(v) \in {"arg", "label", "op"}
  BY DEF Prefix
<1>6. <<Prefix(v), Number>> # NoName
  BY <1>4, <1>5, NameAssumption
<1>7. /\ \A w \in Value : w # v => name'[w] = name[w]
      /\ name'[v] = <<Prefix(v), Number>>
  BY <1>1, <1>2 DEF IInv, TypeOK
<1>8. \A w \in Value : Named(w)' <=> (Named(w) \/ w = v)
  BY <1>6, <1>7 DEF Named
<1>9. TypeOK'
  <2>1. name' \in [Value -> ({"arg", "label", "op"} \X Nat) \cup {NoName}]
    BY <1>1, <1>2, <1>4, <1>5 DEF IInv, TypeOK
  <2>2. \A w \in Value : Named(w)' => name'[w][1] = Prefix(w) /\ ~(Prefix(w) = "op" /\ IsVoid(w))
    BY <1>2, <1>7, <1>8 DEF IInv, TypeOK, NeedsName
  <2> QED
    BY <1>1, <1>2, <1>3, <2>1, <2>2 DEF IInv, TypeOK
<1>10. MapNamed'
  <2>1. IsFiniteSet(seq')
    BY <1>2, FS_AddElement DEF IInv, MapNamed
  <2>2. \A w \in seq' : Named(w)'
    BY <1>1, <1>2, <1>8 DEF IInv, MapNamed, TypeOK
  <2> QED
    BY <1>1, <1>3, <2>1, <2>2, ProgramAssumption DEF IInv, MapNamed
<1>11. \A w \in Value : Owner[w] = current /\ Named(w) => name[w][2] < Number
  <2>1. Numbers(current) = 0..Count(current) - 1
    BY <1>1 DEF IInv, NumbersDense
  <2>2. ASSUME NEW w \in Value, Owner[w] = current, Named(w) PROVE name[w][2] \in Numbers(current)
    BY <2>2 DEF Numbers
  <2> QED
    BY <1>4, <2>1, <2>2
<1>12. NamesDiffer'
  <2> SUFFICES ASSUME NEW w \in Value, NEW u \in Value, w # u, Owner[w] = Owner[u], Named(w)', Named(u)'
               PROVE  name'[w][2] # name'[u][2]
    BY DEF NamesDiffer, Named
  <2>1. CASE w # v /\ u # v
    BY <1>7, <1>8, <2>1 DEF IInv, NamesDiffer
  <2>2. ASSUME NEW x \in Value, x # v, Owner[x] = Owner[v], Named(x)' PROVE name'[x][2] < name'[v][2]
    BY <1>1, <1>7, <1>8, <1>11, <2>2
  <2>3. \A x \in Value : Named(x) => name[x][2] \in Nat
    BY DEF IInv, TypeOK, Named
  <2>4. CASE w = v
    BY <1>4, <1>7, <1>8, <2>2, <2>3, <2>4
  <2>5. CASE u = v
    BY <1>4, <1>7, <1>8, <2>2, <2>3, <2>5
  <2> QED
    BY <2>1, <2>4, <2>5
<1>13. NumbersDense'
  <2>1. Cardinality(seq') = Cardinality(seq) + 1 /\ Cardinality(seq) \in Nat
    <3>1. v \notin seq
      BY <1>1 DEF IInv, MapNamed
    <3> QED
      BY <1>2, <3>1, FS_AddElement, FS_CardinalityType DEF IInv, MapNamed
  <2>2. ASSUME NEW f \in Function, f # current PROVE Numbers(f)' = 0..Count(f)' - 1
    <3>1. Numbers(f)' = Numbers(f)
      BY <1>1, <1>7, <1>8, <2>2 DEF Numbers
    <3>2. Count(f)' = Count(f)
      BY <1>3, <2>2 DEF Count
    <3> QED
      BY <3>1, <3>2 DEF IInv, NumbersDense
  <2>3. Numbers(current)' = Numbers(current) \cup {Number}
    BY <1>1, <1>3, <1>7, <1>8 DEF Numbers
  <2>4. Count(current)' = Count(current) + 1
    BY <1>1, <1>3, <2>1 DEF Count, IInv, TypeOK
  <2>5. Numbers(current) = 0..Count(current) - 1
    BY <1>1 DEF IInv, NumbersDense
  <2>6. Numbers(current)' = 0..Count(current)' - 1
    BY <1>4, <2>3, <2>4, <2>5
  <2>7. \A f \in Function : Numbers(f)' = 0..Count(f)' - 1
    BY <1>3, <2>2, <2>6
  <2> QED
    BY <2>7 DEF NumbersDense
<1> QED
  BY <1>9, <1>10, <1>12, <1>13 DEF IInv

\* The counter takes over what the map has counted.
LEMMA WalkedInv ==
  ASSUME IInv, Walked
  PROVE  IInv'
<1>1. current \in Function /\ current' = NoFunction /\ seq' = {}
  BY DEF IInv, TypeOK, Walked
<1>2. seqCnt' = [seqCnt EXCEPT ![current] = @ + Cardinality(seq)] /\ Cardinality(seq) \in Nat
  BY FS_CardinalityType DEF Walked, IInv, MapNamed
<1>3. UNCHANGED <<body, made, name, phase, printing, at>> /\ left' = Tail(left)
  BY DEF Walked
<1>4. left' \in Seq(Function)
  BY <1>1, <1>3, ProgramAssumption DEF IInv, TypeOK, MapNamed
<1>5. NamesDiffer'
  BY <1>3 DEF IInv, NamesDiffer, Named
<1>6. MapNamed'
  BY <1>1, FS_EmptySet DEF MapNamed
<1>7. NumbersDense'
  <2>1. ASSUME NEW f \in Function PROVE Count(f)' = Count(f)
    <3>1. f # NoFunction
      BY ProgramAssumption
    <3>2. CASE f = current
      BY <1>1, <1>2, <3>1, <3>2 DEF Count, IInv, TypeOK
    <3>3. CASE f # current
      BY <1>1, <1>2, <3>1, <3>3 DEF Count, IInv, TypeOK
    <3> QED
      BY <3>2, <3>3
  <2>2. ASSUME NEW f \in Function PROVE Numbers(f)' = Numbers(f)
    BY <1>3 DEF Numbers, Named
  <2>3. ASSUME NEW f \in Function PROVE Numbers(f)' = 0..Count(f)' - 1
    BY <2>1, <2>2 DEF IInv, NumbersDense
  <2> QED
    BY <2>3 DEF NumbersDense
<1>8. TypeOK'
  <2>1. seqCnt' \in [Function -> Nat]
    BY <1>1, <1>2 DEF IInv, TypeOK
  <2> QED
    BY <1>1, <1>3, <1>4, <2>1 DEF IInv, TypeOK, Named
<1> QED
  BY <1>5, <1>6, <1>7, <1>8 DEF IInv

\* The steps that give no name.
LEMMA OtherStepsInv ==
  ASSUME IInv, Begin \/ Walk \/ SkipValue \/ AllWalked \/ UNCHANGED vars
  PROVE  IInv'
<1>1. CASE Begin
  <2>1. UNCHANGED <<name, seqCnt, current, seq>> /\ current = NoFunction
    BY <1>1 DEF Begin, IInv, MapNamed
  <2>2. TypeOK'
    BY <1>1, ProgramAssumption DEF Begin, IInv, TypeOK, Named
  <2>3. MapNamed'
    BY <1>1, <2>1 DEF Begin, IInv, MapNamed, Named
  <2> QED
    BY <2>1, <2>2, <2>3, NamesSame DEF IInv
<1>2. CASE Walk
  <2>1. UNCHANGED <<name, seqCnt>> /\ seq = {} /\ seq' = {} /\ current = NoFunction
    BY <1>2 DEF Walk, IInv, MapNamed
  <2>2. current' \in Function
    BY <1>2, HeadTailProperties DEF Walk, IInv, TypeOK
  <2>3. TypeOK'
    BY <1>2, <2>1, <2>2 DEF Walk, IInv, TypeOK, Named
  <2>4. MapNamed'
    BY <1>2, <2>1, <2>2, FS_EmptySet, ProgramAssumption DEF Walk, MapNamed
  <2>5. NamesDiffer'
    BY <2>1 DEF IInv, NamesDiffer, Named
  <2>6. ASSUME NEW f \in Function PROVE Numbers(f)' = 0..Count(f)' - 1
    <3>1. Count(f)' = Count(f)
      BY <2>1, FS_EmptySet, ProgramAssumption DEF Count, IInv, TypeOK
    <3>2. Numbers(f)' = Numbers(f)
      BY <2>1 DEF Numbers, Named
    <3> QED
      BY <3>1, <3>2 DEF IInv, NumbersDense
  <2> QED
    BY <2>3, <2>4, <2>5, <2>6 DEF IInv, NumbersDense
<1>3. CASE SkipValue
  <2>1. UNCHANGED <<name, seqCnt, current, seq, left, phase, body>>
    BY <1>3 DEF SkipValue
  <2>2. TypeOK'
    BY <1>3, <2>1 DEF SkipValue, IInv, TypeOK, Named
  <2>3. MapNamed'
    BY <2>1 DEF IInv, MapNamed, Named
  <2> QED
    BY <2>1, <2>2, <2>3, NamesSame DEF IInv
<1>4. CASE AllWalked
  <2>1. UNCHANGED <<name, seqCnt, current, seq>> /\ current = NoFunction
    BY <1>4 DEF AllWalked
  <2>2. TypeOK'
    BY <1>4, ProgramAssumption DEF AllWalked, IInv, TypeOK, Named
  <2>3. MapNamed'
    BY <2>1 DEF IInv, MapNamed, Named
  <2> QED
    BY <2>1, <2>2, <2>3, NamesSame DEF IInv
<1>5. CASE UNCHANGED vars
  <2>1. UNCHANGED <<name, seqCnt, current, seq, left, phase>>
    BY <1>5 DEF vars, walk
  <2>2. TypeOK'
    BY <1>5 DEF vars, walk, IInv, TypeOK, Named
  <2>3. MapNamed'
    BY <2>1 DEF IInv, MapNamed, Named
  <2> QED
    BY <2>1, <2>2, <2>3, NamesSame DEF IInv
<1> QED
  BY <1>1, <1>2, <1>3, <1>4, <1>5

LEMMA NextInv == IInv /\ [Next]_vars => IInv'
  BY EditInv, NameValueInv, WalkedInv, OtherStepsInv DEF Next

THEOREM Invariance == Spec => []IInv
<1>1. Init => IInv
  BY InitInv
<1>2. IInv /\ [Next]_vars => IInv'
  BY NextInv
<1> QED
  BY <1>1, <1>2, PTL DEF Spec

----------------------------------------------------------------------------
(* The results. *)

\* For any program, any passes between prints and any number of prints, the state of
\* naming keeps its types, and only values with a result have a name (TypeOK).
THEOREM TypeCorrect == Spec => []TypeOK
<1>1. IInv => TypeOK
  BY DEF IInv
<1> QED
  BY <1>1, Invariance, PTL

\* For any program two values of a function never have the same number, whatever is
\* put in or taken out between prints (NamesDiffer): set_instr_name is right to count
\* on from seq_cnt_.
THEOREM NamesAlwaysDiffer == Spec => []NamesDiffer
<1>1. IInv => NamesDiffer
  BY DEF IInv
<1> QED
  BY <1>1, Invariance, PTL

\* For any program the numbers of a function have no gap (NumbersDense): the counter
\* and the map together count exactly the names that were given.
THEOREM NumbersAlwaysDense == Spec => []NumbersDense
<1>1. IInv => NumbersDense
  BY DEF IInv
<1> QED
  BY <1>1, Invariance, PTL

\* For any program a name that was given never changes (NamesKept): set_name takes
\* a name once.
THEOREM NamesAlwaysKept == Spec => NamesKept
<1>1. ASSUME TypeOK, [Next]_vars
      PROVE  [\A v \in Value : Named(v) => name'[v] = name[v]]_vars
  <2>1. CASE NameValue
    <3>1. PICK w : NeedsName(w) /\ name' = [name EXCEPT ![w] = <<Prefix(w), Number>>]
      BY <2>1 DEF NameValue
    <3>2. \A v \in Value : Named(v) => v # w
      BY <3>1 DEF NeedsName, Named
    <3> QED
      BY <1>1, <3>1, <3>2 DEF TypeOK
  <2>2. CASE ~NameValue
    <3>1. name' = name \/ UNCHANGED vars
      BY <1>1, <2>2 DEF Next, Edit, Insert, Erase, Begin, Walk, SkipValue, Walked, AllWalked
    <3> QED
      BY <3>1
  <2> QED
    BY <2>1, <2>2
<1> QED
  BY <1>1, TypeCorrect, PTL DEF Spec, NamesKept
----------------------------------------------------------------------------
(* The places of a body before and after an edit. *)

\* Body s is body t with v put in behind place q, where the later ones move up.
Splice(t, q, v, s) ==
  /\ t \in Seq(Value) /\ s \in Seq(Value) /\ q \in 0..Len(t) /\ Len(s) = Len(t) + 1
  /\ s[q + 1] = v
  /\ \A i \in 1..q : s[i] = t[i]
  /\ \A i \in q + 1..Len(t) : s[i + 1] = t[i]
Moved(q, i) == IF i <= q THEN i ELSE i + 1

IsBlockAt(s, k, i) == k \in 1..i /\ Op[s[k]] = "block" /\ \A j \in k + 1..i : Op[s[j]] # "block"
Labelled(s, i) == \E k \in 1..i : Op[s[k]] = "block"

\* A set of numbers has a least one.
LEMMA LeastNumber ==
  ASSUME NEW T, T \subseteq Nat, T # {}
  PROVE  \E m \in T : \A n \in T : m <= n
<1> DEFINE R == OpToRel(<, Nat)
<1>1. IsWellFoundedOn(R, Nat)
  BY NatLessThanWellFounded
<1>2. ASSUME NEW x \in Nat, NEW y \in Nat, x < y PROVE <<x, y>> \in R
  BY <1>2 DEF OpToRel
<1> HIDE DEF R
<1>3. PICK m \in T : \A n \in T : ~ (<<n, m>> \in R)
  BY <1>1, WFMin
<1>4. ASSUME NEW n \in T, ~(m <= n) PROVE FALSE
  <2>1. m \in Nat /\ n \in Nat
    OBVIOUS
  <2>2. n < m
    BY <1>4, <2>1
  <2> QED
    BY <1>2, <1>3, <2>1, <2>2
<1> QED
  BY <1>4

\* A place behind a block is in a block, the last one before it.
LEMMA BlockIs ==
  ASSUME NEW s, NEW i \in Nat, NEW k, IsBlockAt(s, k, i)
  PROVE  BlockOf(s, i) = s[k]
<1> DEFINE P(l) == Op[s[l]] = "block" /\ \A j \in l + 1..i : Op[s[j]] # "block"
<1>1. k \in 1..i /\ P(k)
  BY DEF IsBlockAt
<1>2. \A l \in 1..i : P(l) => l = k
  BY <1>1
<1> HIDE DEF P
<1>3. (CHOOSE l \in 1..i : P(l)) = k
  BY <1>1, <1>2
<1> QED
  BY <1>3 DEF BlockOf, P

LEMMA BlockExists ==
  ASSUME NEW s, NEW i \in Nat, Labelled(s, i)
  PROVE  \E k \in 1..i : IsBlockAt(s, k, i)
<1> DEFINE T == {n \in Nat : n < i /\ Op[s[i - n]] = "block"}
<1>1. PICK k \in 1..i : Op[s[k]] = "block"
  BY DEF Labelled
<1>2. i - k \in T
  BY <1>1
<1>3. PICK m \in T : \A n \in T : m <= n
  <2> HIDE DEF T
  <2>1. T \subseteq Nat
    BY DEF T
  <2> QED
    BY <1>2, <2>1, LeastNumber
<1>4. i - m \in 1..i /\ Op[s[i - m]] = "block"
  OBVIOUS
<1>5. ASSUME NEW j \in (i - m) + 1..i PROVE Op[s[j]] # "block"
  <2>1. i - j \in Nat /\ i - j < i /\ i - j < m /\ i - (i - j) = j
    BY <1>4
  <2>2. i - j \notin T
    BY <1>3, <2>1
  <2> QED
    BY <2>1, <2>2
<1> QED
  BY <1>4, <1>5 DEF IsBlockAt

LEMMA MovedPlaces ==
  ASSUME NEW t, NEW q, NEW v, NEW s, Splice(t, q, v, s)
  PROVE  /\ DOMAIN t = 1..Len(t) /\ DOMAIN s = 1..Len(t) + 1 /\ q \in Nat /\ Len(t) \in Nat
         /\ \A i \in DOMAIN t : Moved(q, i) \in DOMAIN s /\ Moved(q, i) # q + 1 /\ s[Moved(q, i)] = t[i]
         /\ \A k \in DOMAIN s : k = q + 1 \/ \E i \in DOMAIN t : k = Moved(q, i)
         /\ \A i, j \in DOMAIN t : i <= j <=> Moved(q, i) <= Moved(q, j)
         /\ Elements(s) = Elements(t) \cup {v}
<1>1. DOMAIN t = 1..Len(t) /\ DOMAIN s = 1..Len(t) + 1 /\ q \in Nat /\ Len(t) \in Nat /\ q \in 0..Len(t)
  BY DEF Splice
<1>2. \A i \in DOMAIN t : Moved(q, i) \in DOMAIN s /\ Moved(q, i) # q + 1 /\ s[Moved(q, i)] = t[i]
  BY <1>1 DEF Splice, Moved
<1>3. ASSUME NEW k \in DOMAIN s, k # q + 1 PROVE \E i \in DOMAIN t : k = Moved(q, i)
  <2>1. CASE k <= q
    <3>1. k \in DOMAIN t /\ k = Moved(q, k)
      BY <1>1, <2>1 DEF Moved
    <3> QED
      BY <3>1
  <2>2. CASE k > q
    <3>1. k - 1 \in DOMAIN t /\ k = Moved(q, k - 1)
      BY <1>1, <1>3, <2>2 DEF Moved
    <3> QED
      BY <3>1
  <2> QED
    BY <1>1, <2>1, <2>2
<1>4. \A i, j \in DOMAIN t : i <= j <=> Moved(q, i) <= Moved(q, j)
  BY <1>1 DEF Moved
<1>5. Elements(s) = Elements(t) \cup {v}
  <2>1. q + 1 \in DOMAIN s /\ s[q + 1] = v
    BY <1>1 DEF Splice
  <2>2. ASSUME NEW x \in Elements(s) PROVE x \in Elements(t) \cup {v}
    <3>1. PICK k \in DOMAIN s : x = s[k]
      BY DEF Elements
    <3> QED
      BY <1>2, <1>3, <2>1, <3>1 DEF Elements
  <2>3. ASSUME NEW x \in Elements(t) PROVE x \in Elements(s)
    BY <1>2 DEF Elements
  <2> QED
    BY <2>1, <2>2, <2>3 DEF Elements
<1> QED
  BY <1>1, <1>2, <1>3, <1>4, <1>5

\* What is no block changes no block.
LEMMA MovedBlock ==
  ASSUME NEW t, NEW q, NEW v, NEW s, Splice(t, q, v, s), Op[v] # "block", NEW i \in DOMAIN t
  PROVE  /\ Labelled(t, i) <=> Labelled(s, Moved(q, i))
         /\ Labelled(t, i) => BlockOf(s, Moved(q, i)) = BlockOf(t, i)
<1> DEFINE m == Moved(q, i)
<1>1. /\ DOMAIN t = 1..Len(t) /\ DOMAIN s = 1..Len(t) + 1 /\ q \in Nat /\ Len(t) \in Nat
      /\ \A k \in DOMAIN t : Moved(q, k) \in DOMAIN s /\ Moved(q, k) # q + 1 /\ s[Moved(q, k)] = t[k]
      /\ \A k \in DOMAIN s : k = q + 1 \/ \E j \in DOMAIN t : k = Moved(q, j)
      /\ \A k, j \in DOMAIN t : k <= j <=> Moved(q, k) <= Moved(q, j)
  BY MovedPlaces
<1>s. s[q + 1] = v
  BY DEF Splice
<1>2. i \in Nat /\ m \in Nat /\ m \in DOMAIN s
  BY <1>1 DEF Moved
<1> HIDE DEF m
<1>3. ASSUME NEW k \in 1..i, IsBlockAt(t, k, i) PROVE IsBlockAt(s, Moved(q, k), m) /\ s[Moved(q, k)] = t[k]
  <2>1. k \in DOMAIN t /\ Moved(q, k) \in 1..m /\ s[Moved(q, k)] = t[k]
    <3>1. k \in DOMAIN t /\ k <= i
      BY <1>1
    <3>2. Moved(q, k) <= m /\ Moved(q, k) \in DOMAIN s /\ s[Moved(q, k)] = t[k]
      BY <1>1, <3>1 DEF m
    <3> QED
      BY <1>1, <1>2, <3>1, <3>2
  <2>2. ASSUME NEW j \in Moved(q, k) + 1..m PROVE Op[s[j]] # "block"
    <3>1. j \in DOMAIN s /\ Moved(q, k) \in Nat /\ j > Moved(q, k) /\ j <= m
      BY <1>1, <1>2, <2>1
    <3>2. CASE j = q + 1
      BY <1>s, <3>2
    <3>3. CASE j # q + 1
      <4>1. PICK l \in DOMAIN t : j = Moved(q, l)
        BY <1>1, <3>1, <3>3
      <4>2. k <= l /\ l <= i /\ l # k
        <5>1. Moved(q, k) <= Moved(q, l) /\ Moved(q, l) <= Moved(q, i) /\ Moved(q, l) # Moved(q, k)
          BY <2>1, <3>1, <4>1 DEF m
        <5> QED
          BY <1>1, <2>1, <4>1, <5>1
      <4>3. l \in k + 1..i
        BY <1>1, <4>2
      <4> QED
        BY <1>1, <1>3, <4>1, <4>3 DEF IsBlockAt
    <3> QED
      BY <3>2, <3>3
  <2> QED
    BY <1>3, <2>1, <2>2 DEF IsBlockAt
<1>4. ASSUME Labelled(t, i) PROVE Labelled(s, m) /\ BlockOf(s, m) = BlockOf(t, i)
  <2>1. PICK k \in 1..i : IsBlockAt(t, k, i)
    BY <1>2, <1>4, BlockExists
  <2>2. IsBlockAt(s, Moved(q, k), m) /\ s[Moved(q, k)] = t[k]
    BY <1>3, <2>1
  <2>3. BlockOf(t, i) = t[k] /\ BlockOf(s, m) = s[Moved(q, k)]
    BY <1>2, <2>1, <2>2, BlockIs
  <2> QED
    BY <2>2, <2>3 DEF IsBlockAt, Labelled
<1>5. ASSUME Labelled(s, m) PROVE Labelled(t, i)
  <2>1. PICK k \in 1..m : Op[s[k]] = "block"
    BY <1>5 DEF Labelled
  <2>2. k \in DOMAIN s /\ k # q + 1
    BY <1>1, <1>2, <1>s, <2>1
  <2>3. PICK l \in DOMAIN t : k = Moved(q, l)
    BY <1>1, <2>2
  <2>4. l \in 1..i /\ Op[t[l]] = "block"
    BY <1>1, <1>2, <2>1, <2>3 DEF m
  <2> QED
    BY <2>4 DEF Labelled
<1> QED
  BY <1>4, <1>5 DEF m

\* What is no block and no branch changes no predecessors.
LEMMA MovedPredecessors ==
  ASSUME NEW t, NEW q, NEW v, NEW s, Splice(t, q, v, s), Op[v] \notin {"block", "br"},
         \A i \in DOMAIN t : Op[t[i]] = "br" => Labelled(t, i), NEW b
  PROVE  PredecessorsIn(s, b) = PredecessorsIn(t, b)
<1>1. /\ \A k \in DOMAIN t : Moved(q, k) \in DOMAIN s /\ s[Moved(q, k)] = t[k]
      /\ \A k \in DOMAIN s : k = q + 1 \/ \E j \in DOMAIN t : k = Moved(q, j)
  BY MovedPlaces
<1>s. s[q + 1] = v
  BY DEF Splice
<1>2. ASSUME NEW i \in DOMAIN t, Op[t[i]] = "br" PROVE BlockOf(s, Moved(q, i)) = BlockOf(t, i)
  BY <1>2, MovedBlock
<1>3. ASSUME NEW x \in PredecessorsIn(t, b) PROVE x \in PredecessorsIn(s, b)
  <2>1. PICK i \in DOMAIN t : Op[t[i]] = "br" /\ b \in OperandsOf(t[i]) /\ x = BlockOf(t, i)
    BY DEF PredecessorsIn
  <2>2. Moved(q, i) \in DOMAIN s /\ s[Moved(q, i)] = t[i] /\ x = BlockOf(s, Moved(q, i))
    BY <1>1, <1>2, <2>1
  <2> QED
    BY <2>1, <2>2 DEF PredecessorsIn
<1>4. ASSUME NEW x \in PredecessorsIn(s, b) PROVE x \in PredecessorsIn(t, b)
  <2>1. PICK k \in DOMAIN s : Op[s[k]] = "br" /\ b \in OperandsOf(s[k]) /\ x = BlockOf(s, k)
    BY DEF PredecessorsIn
  <2>2. PICK i \in DOMAIN t : k = Moved(q, i)
    BY <1>1, <1>s, <2>1
  <2>3. t[i] = s[k] /\ x = BlockOf(t, i)
    BY <1>1, <1>2, <2>1, <2>2
  <2> QED
    BY <2>1, <2>3 DEF PredecessorsIn
<1> QED
  BY <1>3, <1>4
----------------------------------------------------------------------------
(* What passes keep of a body. *)

\* A body as StartAssumption has it.
Sound(s) ==
  /\ s \in Seq(Value)
  /\ \A i, j \in DOMAIN s : s[i] = s[j] => i = j
  /\ \A v \in Elements(s) : OperandsOf(v) \cap Value \subseteq Elements(s)
  /\ \A i \in DOMAIN s : Op[s[i]] \in {"br", "phi"} => Labelled(s, i)
  /\ \A i \in DOMAIN s : Op[s[i]] = "phi" => PhiBlocks(s[i]) \subseteq PredecessorsIn(s, BlockOf(s, i))

BodyInv == \A f \in Function : Sound(body[f]) /\ Elements(body[f]) \subseteq made

LEMMA PutIn ==
  ASSUME NEW t \in Seq(Value), NEW p \in DOMAIN t, NEW v \in Value
  PROVE  Splice(t, p, v, SubSeq(t, 1, p) \o <<v>> \o SubSeq(t, p + 1, Len(t)))
<1> DEFINE a == SubSeq(t, 1, p)
           b == SubSeq(t, p + 1, Len(t))
           c == a \o <<v>>
<1>1. p \in 1..Len(t) /\ Len(t) \in Nat
  OBVIOUS
<1>2. a \in Seq(Value) /\ Len(a) = p /\ \A i \in 1..p : a[i] = t[i]
  BY <1>1
<1>3. b \in Seq(Value) /\ Len(b) = Len(t) - p /\ \A i \in 1..Len(t) - p : b[i] = t[p + i]
  BY <1>1
<1> HIDE DEF a, b
<1>4. c \in Seq(Value) /\ Len(c) = p + 1 /\ c[p + 1] = v /\ \A i \in 1..p : c[i] = t[i]
  BY <1>1, <1>2
<1> HIDE DEF c
<1>5. c \o b \in Seq(Value) /\ Len(c \o b) = Len(t) + 1
  <2>1. c \o b \in Seq(Value) /\ Len(c \o b) = Len(c) + Len(b)
    BY <1>3, <1>4, ConcatProperties
  <2> QED
    BY <1>1, <1>3, <1>4, <2>1
<1>6. \A i \in 1..p + 1 : (c \o b)[i] = c[i]
  BY <1>1, <1>3, <1>4
<1>7. ASSUME NEW i \in p + 1..Len(t) PROVE (c \o b)[i + 1] = t[i]
  <2>1. i - p \in 1..Len(t) - p /\ p + (i - p) = i
    BY <1>1
  <2>2. (c \o b)[i + 1] = b[i + 1 - (p + 1)]
    BY <1>1, <1>3, <1>4
  <2>3. i + 1 - (p + 1) = i - p
    BY <1>1
  <2> QED
    BY <1>3, <2>1, <2>2, <2>3
<1>8. Splice(t, p, v, c \o b)
  BY <1>1, <1>4, <1>5, <1>6, <1>7 DEF Splice
<1> QED
  BY <1>8 DEF a, b, c

LEMMA TakenOut ==
  ASSUME NEW s \in Seq(Value), NEW p \in DOMAIN s
  PROVE  Splice(SubSeq(s, 1, p - 1) \o SubSeq(s, p + 1, Len(s)), p - 1, s[p], s)
<1> DEFINE a == SubSeq(s, 1, p - 1)
           b == SubSeq(s, p + 1, Len(s))
<1>1. p \in 1..Len(s) /\ Len(s) \in Nat
  OBVIOUS
<1>2. a \in Seq(Value) /\ Len(a) = p - 1 /\ \A i \in 1..p - 1 : a[i] = s[i]
  BY <1>1
<1>3. b \in Seq(Value) /\ Len(b) = Len(s) - p /\ \A i \in 1..Len(s) - p : b[i] = s[p + i]
  BY <1>1
<1> HIDE DEF a, b
<1>4. a \o b \in Seq(Value) /\ Len(a \o b) = Len(s) - 1
  BY <1>1, <1>2, <1>3
<1>5. \A i \in 1..p - 1 : (a \o b)[i] = s[i]
  BY <1>1, <1>2, <1>3
<1>6. ASSUME NEW i \in p..Len(s) - 1 PROVE s[i + 1] = (a \o b)[i]
  <2>1. i - (p - 1) \in 1..Len(s) - p /\ p + (i - (p - 1)) = i + 1
    BY <1>1
  <2>2. (a \o b)[i] = b[i - (p - 1)]
    <3>1. \A j \in 1..Len(a) + Len(b) : (a \o b)[j] = IF j <= Len(a) THEN a[j] ELSE b[j - Len(a)]
      BY <1>2, <1>3, ConcatProperties
    <3>2. i \in 1..Len(a) + Len(b) /\ ~ (i <= Len(a))
      BY <1>1, <1>2, <1>3
    <3> QED
      BY <1>2, <3>1, <3>2
  <2> QED
    BY <1>3, <2>1, <2>2
<1>7. p - 1 \in 0..Len(a \o b) /\ (p - 1) + 1 = p /\ Len(s) = Len(a \o b) + 1
  BY <1>1, <1>4
<1>8. \A i \in (p - 1) + 1..Len(a \o b) : s[i + 1] = (a \o b)[i]
  BY <1>1, <1>4, <1>6
<1>9. Splice(a \o b, p - 1, s[p], s)
  BY <1>4, <1>5, <1>7, <1>8 DEF Splice
<1> QED
  BY <1>9 DEF a, b

\* A phi that is put in.
LEMMA SoundWithPhi ==
  ASSUME NEW t, NEW q, NEW v, NEW s, Splice(t, q, v, s), Sound(t), Op[v] = "phi", v \notin Elements(t),
         OperandsOf(v) \cap Value \subseteq Elements(t), Labelled(s, q + 1),
         PhiBlocks(v) \subseteq PredecessorsIn(t, BlockOf(s, q + 1))
  PROVE  Sound(s)
<1>1. /\ \A k \in DOMAIN t : Moved(q, k) \in DOMAIN s /\ s[Moved(q, k)] = t[k]
      /\ \A k \in DOMAIN s : k = q + 1 \/ \E j \in DOMAIN t : k = Moved(q, j)
      /\ Elements(s) = Elements(t) \cup {v}
  BY MovedPlaces
<1>2. s[q + 1] = v /\ s \in Seq(Value)
  BY DEF Splice
<1>3. \A b : PredecessorsIn(s, b) = PredecessorsIn(t, b)
  BY MovedPredecessors DEF Sound
<1>4. ASSUME NEW i \in DOMAIN s, NEW j \in DOMAIN s, s[i] = s[j] PROVE i = j
  <2>1. \A k \in DOMAIN s : k # q + 1 => s[k] # v
    BY <1>1 DEF Elements
  <2>2. CASE i # q + 1 /\ j # q + 1
    <3>1. PICK k \in DOMAIN t : i = Moved(q, k)
      BY <1>1, <2>2
    <3>2. PICK l \in DOMAIN t : j = Moved(q, l)
      BY <1>1, <2>2
    <3>3. t[k] = t[l]
      BY <1>1, <1>4, <3>1, <3>2
    <3> QED
      BY <3>1, <3>2, <3>3 DEF Sound
  <2> QED
    BY <1>2, <1>4, <2>1, <2>2
<1>5. \A w \in Elements(s) : OperandsOf(w) \cap Value \subseteq Elements(s)
  BY <1>1 DEF Sound
<1>6. ASSUME NEW i \in DOMAIN s, Op[s[i]] \in {"br", "phi"}
      PROVE  /\ Labelled(s, i)
             /\ Op[s[i]] = "phi" => PhiBlocks(s[i]) \subseteq PredecessorsIn(s, BlockOf(s, i))
  <2>1. CASE i = q + 1
    BY <1>2, <1>3, <2>1
  <2>2. CASE i # q + 1
    <3>1. PICK k \in DOMAIN t : i = Moved(q, k)
      BY <1>1, <2>2
    <3>2. s[i] = t[k]
      BY <1>1, <3>1
    <3>3. Labelled(t, k)
      BY <1>6, <3>2 DEF Sound
    <3>4. Labelled(s, i) /\ BlockOf(s, i) = BlockOf(t, k)
      BY <3>1, <3>3, MovedBlock
    <3>5. Op[t[k]] = "phi" => PhiBlocks(t[k]) \subseteq PredecessorsIn(t, BlockOf(t, k))
      BY DEF Sound
    <3> QED
      BY <1>3, <3>2, <3>4, <3>5
  <2> QED
    BY <2>1, <2>2
<1> QED
  BY <1>2, <1>4, <1>5, <1>6 DEF Sound

\* What nothing uses and is taken out.
LEMMA SoundWithout ==
  ASSUME NEW t, NEW q, NEW v, NEW s, Splice(t, q, v, s), Sound(s), Op[v] \notin {"block", "br"},
         \A w \in Elements(s) : v \notin OperandsOf(w)
  PROVE  Sound(t)
<1>1. /\ \A k \in DOMAIN t : Moved(q, k) \in DOMAIN s /\ s[Moved(q, k)] = t[k]
      /\ \A i, j \in DOMAIN t : i <= j <=> Moved(q, i) <= Moved(q, j)
      /\ DOMAIN t = 1..Len(t) /\ Len(t) \in Nat
      /\ Elements(s) = Elements(t) \cup {v}
  BY MovedPlaces
<1>2. t \in Seq(Value)
  BY DEF Splice
<1>3. \A i \in DOMAIN t : Labelled(t, i) <=> Labelled(s, Moved(q, i))
  BY MovedBlock
<1>4. \A i \in DOMAIN t : Op[t[i]] \in {"br", "phi"} => Labelled(t, i)
  BY <1>1, <1>3 DEF Sound
<1>5. \A b : PredecessorsIn(s, b) = PredecessorsIn(t, b)
  BY <1>4, MovedPredecessors
<1>6. ASSUME NEW i \in DOMAIN t, NEW j \in DOMAIN t, t[i] = t[j] PROVE i = j
  <2>1. Moved(q, i) = Moved(q, j)
    BY <1>1, <1>6 DEF Sound
  <2>2. Moved(q, i) <= Moved(q, i)
    BY <1>1
  <2> QED
    BY <1>1, <2>1, <2>2
<1>7. \A w \in Elements(t) : OperandsOf(w) \cap Value \subseteq Elements(t)
  BY <1>1 DEF Sound
<1>8. ASSUME NEW i \in DOMAIN t, Op[t[i]] = "phi"
      PROVE  PhiBlocks(t[i]) \subseteq PredecessorsIn(t, BlockOf(t, i))
  <2>1. BlockOf(s, Moved(q, i)) = BlockOf(t, i)
    BY <1>4, <1>8, MovedBlock
  <2> QED
    BY <1>1, <1>5, <1>8, <2>1 DEF Sound
<1> QED
  BY <1>2, <1>4, <1>6, <1>7, <1>8 DEF Sound

\* What a phi has an entry for is a block, once.
LEMMA PhiEntry ==
  ASSUME NEW v \in Value, Op[v] = "phi"
  PROVE  /\ \A x \in PhiBlocks(v) : x \in OperandsOf(v) \cap Value /\ Op[x] = "block"
         /\ \A x \in OperandsOf(v) \cap Value : Op[x] = "block" => x \in PhiBlocks(v)
         /\ IsFiniteSet(PhiBlocks(v)) /\ Cardinality(PhiBlocks(v)) = Len(Operands[v]) \div 2
<1> DEFINE ops == Operands[v]
           n == Len(ops) \div 2
           h == [j \in 1..n |-> ops[2 * j]]
<1>1. Len(ops) \in Nat /\ DOMAIN ops = 1..Len(ops)
  BY OperandsAssumption
<1>2. n \in Nat /\ \A j \in 1..n : 2 * j \in DOMAIN ops /\ (2 * j) % 2 = 0
  <2>1. PICK m \in Nat : m = Len(ops)
    BY <1>1
  <2>2. m \div 2 \in Nat
    OBVIOUS
  <2>3. \A j \in 1..m \div 2 : 2 * j \in 1..m /\ (2 * j) % 2 = 0
    OBVIOUS
  <2> QED
    BY <1>1, <2>1, <2>2, <2>3
<1>3. \A j \in DOMAIN ops : /\ j % 2 = 0 => /\ ops[j] \in Value /\ Op[ops[j]] = "block"
                                            /\ \A k \in DOMAIN ops : ops[k] = ops[j] => k = j
                            /\ j % 2 # 0 => (ops[j] \in Value => Op[ops[j]] # "block")
  BY OperandsAssumption
<1>4. PhiBlocks(v) = {ops[2 * j] : j \in 1..n} /\ OperandsOf(v) = {ops[j] : j \in DOMAIN ops}
  BY DEF PhiBlocks, OperandsOf, Elements
<1> HIDE DEF ops, n
<1>5. ASSUME NEW x \in PhiBlocks(v) PROVE x \in OperandsOf(v) \cap Value /\ Op[x] = "block"
  <2>1. PICK j \in 1..n : x = ops[2 * j]
    BY <1>4
  <2>2. PICK k : k = 2 * j
    OBVIOUS
  <2>3. k \in DOMAIN ops /\ k % 2 = 0
    BY <1>2, <2>2
  <2> QED
    BY <1>3, <1>4, <2>1, <2>2, <2>3
<1>6. ASSUME NEW x \in OperandsOf(v) \cap Value, Op[x] = "block" PROVE x \in PhiBlocks(v)
  <2>1. PICK j \in DOMAIN ops : x = ops[j]
    BY <1>4
  <2>2. j % 2 = 0
    BY <1>3, <1>6, <2>1
  <2>3. j \div 2 \in 1..n /\ 2 * (j \div 2) = j
    BY <1>1, <2>2 DEF n
  <2>4. PICK k : k = j \div 2
    OBVIOUS
  <2> QED
    BY <1>4, <2>1, <2>3, <2>4
<1>7. h \in Bijection(1..n, PhiBlocks(v))
  <2>1. \A j \in 1..n : h[j] = ops[2 * j]
    OBVIOUS
  <2>2. h \in [1..n -> PhiBlocks(v)]
    BY <1>4
  <2>3. \A x \in PhiBlocks(v) : \E j \in 1..n : h[j] = x
    BY <1>4
  <2>4. ASSUME NEW i \in 1..n, NEW j \in 1..n, h[i] = h[j] PROVE i = j
    <3>1. PICK k \in DOMAIN ops, l \in DOMAIN ops : k = 2 * i /\ l = 2 * j
      BY <1>2
    <3>2. k % 2 = 0 /\ l % 2 = 0
      BY <1>2, <3>1
    <3>3. k = l
      BY <1>3, <2>4, <3>1, <3>2
    <3> QED
      BY <3>1, <3>3
  <2> QED
    BY <2>2, <2>3, <2>4 DEF Bijection, Injection, Surjection, IsInjective
<1>8. IsFiniteSet(PhiBlocks(v)) /\ Cardinality(PhiBlocks(v)) = n
  <2>1. ExistsBijection(1..n, PhiBlocks(v))
    BY <1>7 DEF ExistsBijection
  <2>2. IsFiniteSet(1..n) /\ Cardinality(1..n) = n
    <3>1. 1 \in Int /\ n \in Int
      BY <1>2
    <3>2. IsFiniteSet(1..n) /\ Cardinality(1..n) = IF 1 > n THEN 0 ELSE n - 1 + 1
      BY <3>1, FS_Interval
    <3> QED
      BY <1>2, <3>2
  <2> QED
    BY <2>1, <2>2, FS_Bijection
<1> QED
  BY <1>5, <1>6, <1>8 DEF n, ops

\* No pass breaks a body.
LEMMA EditBody ==
  ASSUME IInv, BodyInv, Edit
  PROVE  /\ BodyInv'
         /\ phase = "idle" /\ UNCHANGED <<name, seqCnt, walk>>
         /\ \E f \in Function : /\ \A g \in Function : g # f => body'[g] = body[g]
                                /\ text' = [text EXCEPT ![f] = <<>>]
<1> PICK f \in Function, p \in 1..Cardinality(Value) :
      /\ p \in DOMAIN body[f]
      /\ Erase(f, p) \/ \E v \in Value : Insert(f, p, v)
  BY DEF Edit
<1>1. Sound(body[f]) /\ body[f] \in Seq(Value) /\ body[f][p] \in Value /\ Elements(body[f]) \subseteq made
  <2>1. Sound(body[f]) /\ Elements(body[f]) \subseteq made
    BY DEF BodyInv
  <2>2. body[f] \in Seq(Value)
    BY <2>1 DEF Sound
  <2> QED
    BY <2>1, <2>2
<1>2. \A g \in Function : g # f => body'[g] = body[g]
  BY DEF Erase, Insert, IInv, TypeOK
<1>3. Sound(body'[f]) /\ Elements(body'[f]) \subseteq made' /\ made \subseteq made'
  <2>1. CASE Erase(f, p)
    <3>1. body'[f] = SubSeq(body[f], 1, p - 1) \o SubSeq(body[f], p + 1, Len(body[f])) /\ made' = made
      BY <2>1 DEF Erase, IInv, TypeOK
    <3>2. Splice(body'[f], p - 1, body[f][p], body[f])
      BY <1>1, <3>1, TakenOut
    <3>3. Op[body[f][p]] \notin {"block", "br"} /\ \A v \in Elements(body[f]) : body[f][p] \notin OperandsOf(v)
      BY <2>1, OperandsAssumption DEF Erase
    <3>4. Sound(body'[f])
      BY <1>1, <3>2, <3>3, SoundWithout
    <3>5. Elements(body[f]) = Elements(body'[f]) \cup {body[f][p]}
      BY <3>2, MovedPlaces
    <3> QED
      BY <1>1, <3>1, <3>4, <3>5
  <2>2. CASE \E v \in Value : Insert(f, p, v)
    <3> PICK v \in Value : Insert(f, p, v)
      BY <2>2
    <3>1. body'[f] = SubSeq(body[f], 1, p) \o <<v>> \o SubSeq(body[f], p + 1, Len(body[f])) /\ made' = made \cup {v}
      BY DEF Insert, IInv, TypeOK
    <3>2. Splice(body[f], p, v, body'[f])
      BY <1>1, <3>1, PutIn
    <3>3. Op[v] = "phi" /\ v \notin Elements(body[f]) /\ OperandsOf(v) \cap Value \subseteq Elements(body[f])
      BY <1>1 DEF Insert
    <3>4. IsBlockAt(body'[f], p, p + 1) /\ p \in Nat
      <4>1. p \in Nat /\ p \in 1..p /\ p \in 1..p + 1
        BY <1>1
      <4>2. body'[f][p + 1] = v /\ body'[f][p] = body[f][p]
        BY <3>2, <4>1 DEF Splice
      <4>3. Op[body[f][p]] = "block"
        BY DEF Insert
      <4>4. \A j \in p + 1..p + 1 : j = p + 1
        BY <4>1
      <4> QED
        BY <3>3, <4>1, <4>2, <4>3, <4>4 DEF IsBlockAt
    <3>5. Labelled(body'[f], p + 1) /\ BlockOf(body'[f], p + 1) = body[f][p]
      <4>1. BlockOf(body'[f], p + 1) = body'[f][p]
        BY <3>4, BlockIs
      <4>2. body'[f][p] = body[f][p]
        BY <3>2, <3>4 DEF Splice
      <4> QED
        BY <3>4, <4>1, <4>2 DEF Labelled, IsBlockAt
    <3>6. PhiBlocks(v) \subseteq PredecessorsIn(body[f], body[f][p])
      <4>1. ASSUME NEW x \in PhiBlocks(v) PROVE x \in OperandsOf(v) \cap Value /\ Op[x] = "block"
        BY <3>3, <4>1, PhiEntry
      <4>2. {b \in OperandsOf(v) \cap Value : Op[b] = "block"} \subseteq PredecessorsIn(body[f], body[f][p])
        BY DEF Insert, Predecessors
      <4> QED
        BY <4>1, <4>2
    <3>7. Sound(body'[f])
      BY <1>1, <3>2, <3>3, <3>5, <3>6, SoundWithPhi
    <3>8. Elements(body'[f]) = Elements(body[f]) \cup {v}
      BY <3>2, MovedPlaces
    <3> QED
      BY <1>1, <3>1, <3>7, <3>8
  <2> QED
    BY <2>1, <2>2
<1>4. BodyInv'
  <2>1. ASSUME NEW g \in Function PROVE Sound(body'[g]) /\ Elements(body'[g]) \subseteq made'
    <3>1. Sound(body[g]) /\ Elements(body[g]) \subseteq made
      BY DEF BodyInv
    <3> QED
      BY <1>2, <1>3, <3>1
  <2> QED
    BY <2>1 DEF BodyInv
<1>5. phase = "idle" /\ UNCHANGED <<name, seqCnt, walk>> /\ text' = [text EXCEPT ![f] = <<>>]
  BY DEF Erase, Insert
<1> QED
  BY <1>2, <1>4, <1>5

----------------------------------------------------------------------------
(* What a walk has named so far, and what the text is of. *)

AllNamed(f) == \A i \in DOMAIN body[f] : ~NeedsName(body[f][i])

WalkInv ==
  /\ current # NoFunction => /\ current = Head(left)
                             /\ \A i \in DOMAIN body[current] : i < at => ~NeedsName(body[current][i])
  /\ phase = "names" => \A f \in Function : f \in Elements(left) \/ AllNamed(f)
  /\ phase = "text" => \A f \in Function : AllNamed(f)

TextInv ==
  /\ DOMAIN text = Function
  /\ \A f \in Function : text[f] # <<>> => AllNamed(f) /\ text[f] = Printed(f)

ReadInv == IInv /\ BodyInv /\ WalkInv /\ TextInv

\* Predecessors are blocks of the body.
LEMMA PredecessorsThere ==
  ASSUME NEW s, Sound(s), NEW b
  PROVE  /\ PredecessorsIn(s, b) \subseteq Elements(s)
         /\ \A x \in PredecessorsIn(s, b) : x \in Value /\ Op[x] = "block"
         /\ IsFiniteSet(PredecessorsIn(s, b))
<1>1. s \in Seq(Value) /\ Len(s) \in Nat /\ DOMAIN s = 1..Len(s)
  BY DEF Sound
<1>2. ASSUME NEW x \in PredecessorsIn(s, b) PROVE x \in Elements(s) /\ x \in Value /\ Op[x] = "block"
  <2>1. PICK i \in DOMAIN s : Op[s[i]] = "br" /\ x = BlockOf(s, i)
    BY DEF PredecessorsIn
  <2>2. Labelled(s, i) /\ i \in Nat
    BY <1>1, <2>1 DEF Sound
  <2>3. PICK k \in 1..i : IsBlockAt(s, k, i)
    BY <2>2, BlockExists
  <2>4. x = s[k] /\ k \in DOMAIN s
    BY <1>1, <2>1, <2>2, <2>3, BlockIs
  <2> QED
    BY <1>1, <2>3, <2>4 DEF IsBlockAt, Elements
<1>3. IsFiniteSet(PredecessorsIn(s, b))
  <2>1. IsFiniteSet(1..Len(s))
    BY <1>1, FS_Interval
  <2> DEFINE Entries == {i \in DOMAIN s : Op[s[i]] = "br" /\ b \in OperandsOf(s[i])}
             h == [i \in Entries |-> BlockOf(s, i)]
  <2>2. IsFiniteSet(Entries)
    BY <1>1, <2>1, FS_Subset
  <2>3. PredecessorsIn(s, b) = {BlockOf(s, i) : i \in Entries}
    BY DEF PredecessorsIn
  <2>4. h \in Surjection(Entries, PredecessorsIn(s, b))
    <3> HIDE DEF Entries
    <3> QED
      BY <2>3 DEF Surjection
  <2> HIDE DEF Entries, h
  <2> QED
    BY <2>2, <2>4, FS_Surjection
<1> QED
  BY <1>2, <1>3

\* A text stays true while the body and the names of its values stay.
LEMMA PrintedStays ==
  ASSUME NEW f, Sound(body[f]), body'[f] = body[f], \A v \in Elements(body[f]) : name'[v] = name[v]
  PROVE  Printed(f)' = Printed(f)
<1>1. \A i \in DOMAIN body[f] : body[f][i] \in Elements(body[f])
  BY DEF Elements
<1>2. \A x : (x \in Value => x \in Elements(body[f])) => AsOp(x)' = AsOp(x)
  BY DEF AsOp
<1>3. ASSUME NEW i \in DOMAIN body[f] PROVE Args(body[f][i])' = Args(body[f][i])
  <2>1. PICK v : v = body[f][i]
    OBVIOUS
  <2>2. \A j \in DOMAIN Operands[v] : Operands[v][j] \in Value => Operands[v][j] \in Elements(body[f])
    <3>1. v \in Elements(body[f]) /\ OperandsOf(v) \cap Value \subseteq Elements(body[f])
      BY <1>1, <2>1 DEF Sound
    <3>2. \A j \in DOMAIN Operands[v] : Operands[v][j] \in OperandsOf(v)
      BY DEF OperandsOf, Elements
    <3> QED
      BY <3>1, <3>2
  <2>3. \A j \in DOMAIN Operands[v] : /\ Typed(Operands[v][j])' = Typed(Operands[v][j])
                                      /\ Untyped(Operands[v][j])' = Untyped(Operands[v][j])
    BY <1>2, <2>2 DEF Typed, Untyped
  <2>4. Args(v)' = Args(v)
    BY <2>3 DEF Args
  <2> QED
    BY <2>1, <2>4
<1>4. ASSUME NEW i \in DOMAIN body[f]
      PROVE  {AsOp(b)' : b \in Undefs(f, i)'} = {AsOp(b) : b \in Undefs(f, i)}
  <2>1. Undefs(f, i)' = Undefs(f, i)
    BY DEF Undefs, Predecessors
  <2>2. Undefs(f, i) \subseteq Elements(body[f])
    BY PredecessorsThere DEF Undefs, Predecessors
  <2> QED
    BY <1>2, <2>1, <2>2
<1>5. ASSUME NEW i \in DOMAIN body[f] PROVE Line(f, i)' = Line(f, i)
  <2>1. name'[body[f][i]] = name[body[f][i]]
    BY <1>1
  <2> QED
    BY <1>3, <1>4, <2>1 DEF Line
<1>6. IsDeclaration(f)' = IsDeclaration(f)
  BY DEF IsDeclaration
<1> QED
  BY <1>5, <1>6 DEF Printed

\* A value that has its name keeps it.
LEMMA NameStays ==
  ASSUME IInv, [Next]_vars, NEW v, ~NeedsName(v)
  PROVE  ~NeedsName(v)' /\ name'[v] = name[v]
<1>1. CASE NameValue
  <2>1. PICK w : NeedsName(w) /\ name' = [name EXCEPT ![w] = <<Prefix(w), Number>>]
    BY <1>1 DEF NameValue
  <2> QED
    BY <2>1 DEF NeedsName, IInv, TypeOK
<1>2. CASE ~NameValue
  <2>1. name' = name
    BY <1>2 DEF Next, Edit, Insert, Erase, Begin, Walk, SkipValue, Walked, AllWalked, vars
  <2> QED
    BY <2>1 DEF NeedsName
<1> QED
  BY <1>1, <1>2

\* Steps that are no edit and print nothing.
LEMMA TextStays ==
  ASSUME ReadInv, [Next]_vars, body' = body, NEW f \in Function,
         text'[f] = text[f] \/ (AllNamed(f) /\ text'[f] = Printed(f))
  PROVE  /\ AllNamed(f) => AllNamed(f)'
         /\ text'[f] # <<>> => AllNamed(f)' /\ text'[f] = Printed(f)'
<1>1. AllNamed(f) => AllNamed(f)'
  BY NameStays DEF AllNamed, ReadInv
<1>2. AllNamed(f) => Printed(f)' = Printed(f)
  <2> SUFFICES ASSUME AllNamed(f) PROVE Printed(f)' = Printed(f)
    OBVIOUS
  <2>1. \A v \in Elements(body[f]) : name'[v] = name[v]
    BY NameStays DEF AllNamed, Elements, ReadInv
  <2>2. Sound(body[f])
    BY DEF ReadInv, BodyInv
  <2> QED
    BY <2>1, <2>2, PrintedStays
<1>3. text[f] # <<>> => AllNamed(f) /\ text[f] = Printed(f)
  BY DEF ReadInv, TextInv
<1> QED
  BY <1>1, <1>2, <1>3

\* The first of a sequence and the others.
LEMMA HeadAndTail ==
  ASSUME NEW S, NEW s \in Seq(S), s # <<>>
  PROVE  /\ Head(s) = s[1] /\ 1 \in DOMAIN s /\ Tail(s) \in Seq(S) /\ Len(Tail(s)) = Len(s) - 1
         /\ \A i \in DOMAIN Tail(s) : i + 1 \in DOMAIN s /\ Tail(s)[i] = s[i + 1]
         /\ Elements(s) = Elements(Tail(s)) \cup {Head(s)}
<1>1. Len(s) \in Nat \ {0} /\ DOMAIN s = 1..Len(s)
  <2>1. Len(s) # 0
    BY EmptySeq
  <2> QED
    BY <2>1
<1>2. /\ Head(s) = s[1] /\ Tail(s) \in Seq(S) /\ Len(Tail(s)) = Len(s) - 1
      /\ \A i \in 1..Len(s) - 1 : Tail(s)[i] = s[i + 1]
  BY <1>1, HeadTailProperties
<1>3. DOMAIN Tail(s) = 1..Len(s) - 1
  BY <1>1, <1>2
<1>4. \A i \in DOMAIN Tail(s) : i + 1 \in DOMAIN s /\ Tail(s)[i] = s[i + 1]
  BY <1>1, <1>2, <1>3
<1>5. \A k \in DOMAIN s : k = 1 \/ (k - 1 \in DOMAIN Tail(s) /\ Tail(s)[k - 1] = s[k])
  BY <1>1, <1>2, <1>3
<1>6. Elements(s) = Elements(Tail(s)) \cup {Head(s)}
  <2> DEFINE r == Tail(s)
             h == Head(s)
  <2>1. h = s[1] /\ 1 \in DOMAIN s
    BY <1>1, <1>2
  <2>2. /\ \A i \in DOMAIN r : i + 1 \in DOMAIN s /\ r[i] = s[i + 1]
        /\ \A k \in DOMAIN s : k = 1 \/ (k - 1 \in DOMAIN r /\ r[k - 1] = s[k])
    BY <1>4, <1>5
  <2> HIDE DEF r, h
  <2>3. ASSUME NEW x \in Elements(s) PROVE x \in Elements(r) \cup {h}
    <3>1. PICK k \in DOMAIN s : x = s[k]
      BY DEF Elements
    <3> QED
      BY <2>1, <2>2, <3>1 DEF Elements
  <2>4. ASSUME NEW x \in Elements(r) PROVE x \in Elements(s)
    <3>1. PICK k \in DOMAIN r : x = r[k]
      BY DEF Elements
    <3> QED
      BY <2>2, <3>1 DEF Elements
  <2>5. h \in Elements(s)
    BY <2>1 DEF Elements
  <2>6. Elements(s) = Elements(r) \cup {h}
    BY <2>3, <2>4, <2>5
  <2> QED
    BY <2>6 DEF r, h
<1> QED
  BY <1>1, <1>2, <1>4, <1>6

\* A number that is given is a name.
LEMMA NumberIsNew ==
  ASSUME IInv, Walking, NEW v
  PROVE  <<Prefix(v), Number>> # NoName
<1>1. Cardinality(seq) \in Nat
  BY FS_CardinalityType DEF IInv, MapNamed
<1>2. Number \in Nat
  BY <1>1 DEF Number, Walking, IInv, TypeOK
<1>3. Prefix(v) \in {"arg", "label", "op"}
  BY DEF Prefix
<1> QED
  BY <1>2, <1>3, NameAssumption

LEMMA InitRead == Init => ReadInv
<1> SUFFICES ASSUME Init PROVE ReadInv
  OBVIOUS
<1>1. BodyInv
  <2>1. ASSUME NEW f \in Function PROVE Sound(body[f]) /\ Elements(body[f]) \subseteq made
    <3>1. body[f] = Start[f] /\ Start[f] \in Seq(Value)
      BY ProgramAssumption DEF Init
    <3>2. Elements(Start[f]) \subseteq made
      BY DEF Init, Elements
    <3>3. Sound(Start[f])
      BY <3>1, StartAssumption DEF Sound, Labelled
    <3> QED
      BY <3>1, <3>2, <3>3
  <2> QED
    BY <2>1 DEF BodyInv
<1>2. WalkInv
  BY DEF Init, WalkInv
<1>3. TextInv
  BY DEF Init, TextInv
<1> QED
  BY <1>1, <1>2, <1>3, InitInv DEF ReadInv

LEMMA EditRead ==
  ASSUME ReadInv, Edit
  PROVE  ReadInv'
<1>1. IInv /\ BodyInv /\ IInv' /\ BodyInv'
  BY EditInv, EditBody DEF ReadInv
<1>2. phase = "idle" /\ UNCHANGED <<name, seqCnt, walk>>
  BY <1>1, EditBody
<1>3. WalkInv'
  <2>1. phase' = "idle" /\ current' = NoFunction
    BY <1>1, <1>2 DEF walk, IInv, MapNamed
  <2> QED
    BY <2>1 DEF WalkInv
<1>4. PICK f \in Function : /\ \A g \in Function : g # f => body'[g] = body[g]
                            /\ text' = [text EXCEPT ![f] = <<>>]
  BY <1>1, EditBody
<1>5. ASSUME NEW g \in Function, text'[g] # <<>> PROVE AllNamed(g)' /\ text'[g] = Printed(g)'
  <2>1. g # f /\ text'[g] = text[g] /\ body'[g] = body[g]
    BY <1>4, <1>5 DEF ReadInv, TextInv
  <2>2. AllNamed(g) /\ text[g] = Printed(g)
    BY <1>5, <2>1 DEF ReadInv, TextInv
  <2>3. AllNamed(g)'
    BY <1>2, <2>1, <2>2 DEF AllNamed, NeedsName
  <2>4. Printed(g)' = Printed(g)
    BY <1>1, <1>2, <2>1, PrintedStays DEF BodyInv
  <2> QED
    BY <2>1, <2>2, <2>3, <2>4
<1>6. DOMAIN text' = Function
  BY <1>4 DEF ReadInv, TextInv
<1> QED
  BY <1>1, <1>3, <1>5, <1>6 DEF ReadInv, TextInv

\* What a step that is no edit leaves alone.
LEMMA StepsRead ==
  ASSUME ReadInv, [Next]_vars, UNCHANGED <<body, made>>, DOMAIN text' = Function,
         \A f \in Function : text'[f] = text[f] \/ (AllNamed(f) /\ text'[f] = Printed(f)),
         WalkInv'
  PROVE  ReadInv'
<1>1. IInv'
  BY NextInv DEF ReadInv
<1>2. BodyInv'
  BY DEF ReadInv, BodyInv
<1>3. TextInv'
  BY TextStays DEF TextInv
<1> QED
  BY <1>1, <1>2, <1>3 DEF ReadInv

LEMMA NextRead == ReadInv /\ [Next]_vars => ReadInv'
<1> SUFFICES ASSUME ReadInv, [Next]_vars PROVE ReadInv'
  OBVIOUS
<1>1. CASE Edit
  BY <1>1, EditRead
<1>2. IInv /\ TypeOK /\ MapNamed /\ WalkInv /\ DOMAIN text = Function
  BY DEF ReadInv, IInv, TextInv
<1>3. \A v : ~NeedsName(v) => ~NeedsName(v)'
  BY <1>2, NameStays
<1>4. ASSUME body' = body, NEW f \in Function, AllNamed(f) PROVE AllNamed(f)'
  BY <1>3, <1>4 DEF AllNamed
<1>5. CASE Begin
  <2>1. UNCHANGED <<body, made, text, current>> /\ current = NoFunction /\ phase' = "names" /\ left' = FunctionList
    BY <1>2, <1>5 DEF Begin, MapNamed
  <2>2. WalkInv'
    BY <2>1, ProgramAssumption DEF WalkInv
  <2> QED
    BY <1>2, <2>1, <2>2, StepsRead
<1>6. CASE Walk
  <2>1. UNCHANGED <<body, made, text, phase, left>> /\ current' = Head(left) /\ at' = 1
    BY <1>6 DEF Walk
  <2>2. \A i \in DOMAIN body[current'] : ~(i < 1)
    <3>1. current' \in Function
      BY <1>2, <1>6, HeadTailProperties DEF Walk, TypeOK
    <3>2. body[current'] \in Seq(Value)
      BY <1>2, <3>1 DEF TypeOK
    <3> QED
      BY <3>2
  <2>3. WalkInv'
    <3>1. phase = "names" => \A f \in Function : f \in Elements(left) \/ AllNamed(f)'
      BY <1>2, <1>4, <2>1 DEF WalkInv
    <3>2. phase = "text" => \A f \in Function : AllNamed(f)'
      BY <1>2, <1>4, <2>1 DEF WalkInv
    <3> QED
      BY <2>1, <2>2, <3>1, <3>2 DEF WalkInv
  <2> QED
    BY <1>2, <2>1, <2>3, StepsRead
<1>7. CASE NameValue \/ SkipValue
  <2>1. UNCHANGED <<body, made, text, phase, left, current>> /\ at' = at + 1 /\ Walking
    BY <1>7 DEF NameValue, SkipValue
  <2>2. ASSUME NEW v, v = body[current][at] PROVE ~NeedsName(v)'
    <3>1. CASE SkipValue
      BY <1>3, <2>2, <3>1 DEF SkipValue
    <3>2. CASE NameValue
      <4>1. v \in Value
        BY <1>2, <2>1, <2>2 DEF Walking, TypeOK
      <4>2. name' = [name EXCEPT ![v] = <<Prefix(v), Number>>]
        BY <2>2, <3>2 DEF NameValue
      <4>3. <<Prefix(v), Number>> # NoName
        BY <1>2, <2>1, NumberIsNew
      <4>4. name'[v] # NoName
        BY <1>2, <4>1, <4>2, <4>3 DEF TypeOK
      <4> QED
        BY <4>4 DEF NeedsName
    <3> QED
      BY <1>7, <3>1, <3>2
  <2>3. ASSUME NEW i \in DOMAIN body[current], i < at + 1 PROVE ~NeedsName(body[current][i])'
    <3>1. current \in Function /\ at \in Nat
      BY <1>2, <2>1 DEF TypeOK, Walking
    <3>2. i \in Nat
      <4>1. body[current] \in Seq(Value)
        BY <1>2, <3>1 DEF TypeOK
      <4> QED
        BY <4>1
    <3>3. i < at \/ i = at
      BY <2>3, <3>1, <3>2
    <3>4. i < at => ~NeedsName(body[current][i])
      BY <1>2, <2>1 DEF WalkInv, Walking
    <3>5. PICK v : v = body[current][i]
      OBVIOUS
    <3>6. ~NeedsName(v)'
      BY <1>3, <2>2, <3>3, <3>4, <3>5
    <3> QED
      BY <2>1, <3>5, <3>6
  <2>4. WalkInv'
    <3>1. phase = "names" => \A f \in Function : f \in Elements(left) \/ AllNamed(f)'
      BY <1>2, <1>4, <2>1 DEF WalkInv
    <3>2. phase = "text" => \A f \in Function : AllNamed(f)'
      BY <1>2, <1>4, <2>1 DEF WalkInv
    <3>3. current = Head(left) /\ \A i \in DOMAIN body[current] : i < at + 1 => ~NeedsName(body[current][i])'
      BY <1>2, <2>1, <2>3 DEF WalkInv, Walking
    <3> QED
      BY <2>1, <3>1, <3>2, <3>3 DEF WalkInv
  <2> QED
    BY <1>2, <2>1, <2>4, StepsRead
<1>8. CASE Walked
  <2>1. UNCHANGED <<body, made, phase, name>> /\ left' = Tail(left) /\ current' = NoFunction
    BY <1>8 DEF Walked
  <2>2. current \in Function /\ left # <<>> /\ current = Head(left) /\ left \in Seq(Function)
    BY <1>2, <1>8 DEF Walked, MapNamed, WalkInv, TypeOK
  <2>3. AllNamed(current)
    <3>1. body[current] \in Seq(Value) /\ at \in Nat /\ at \notin DOMAIN body[current] /\ at # 0
      BY <1>2, <1>8, <2>2 DEF TypeOK, Walked
    <3>2. \A i \in DOMAIN body[current] : i < at
      BY <3>1
    <3> QED
      BY <1>2, <1>8, <3>2 DEF WalkInv, Walked, AllNamed
  <2>4. Elements(left) = Elements(left') \cup {current}
    BY <2>1, <2>2, HeadAndTail
  <2>5. WalkInv'
    <3>1. phase = "names" => \A f \in Function : f \in Elements(left') \/ AllNamed(f)'
      BY <1>2, <1>4, <2>1, <2>3, <2>4 DEF WalkInv
    <3>2. phase = "text" => \A f \in Function : AllNamed(f)'
      BY <1>2, <1>4, <2>1 DEF WalkInv
    <3> QED
      BY <2>1, <3>1, <3>2 DEF WalkInv
  <2>6. text' = text \/ text' = [text EXCEPT ![current] = Printed(current)]
    BY <1>8 DEF Walked
  <2>7. DOMAIN text' = Function /\ \A f \in Function : text'[f] = text[f] \/ (AllNamed(f) /\ text'[f] = Printed(f))
    BY <1>2, <2>3, <2>6
  <2> QED
    BY <2>1, <2>5, <2>7, StepsRead
<1>9. CASE AllWalked
  <2>1. UNCHANGED <<body, made, text, current>> /\ current = NoFunction /\ left = <<>>
    BY <1>9 DEF AllWalked
  <2>2. phase' = "idle" \/ (phase = "names" /\ phase' = "text")
    BY <1>9 DEF AllWalked
  <2>3. phase = "names" => \A f \in Function : AllNamed(f)'
    BY <1>2, <1>4, <2>1 DEF WalkInv, Elements
  <2>4. WalkInv'
    BY <2>1, <2>2, <2>3 DEF WalkInv
  <2> QED
    BY <1>2, <2>1, <2>4, StepsRead
<1>10. CASE UNCHANGED vars
  <2>1. UNCHANGED <<body, made, text, name, phase, left, current, at>>
    BY <1>10 DEF vars, walk
  <2>2. WalkInv'
    BY <1>2, <2>1 DEF WalkInv, AllNamed, NeedsName
  <2> QED
    BY <1>2, <2>1, <2>2, StepsRead
<1> QED
  BY <1>1, <1>5, <1>6, <1>7, <1>8, <1>9, <1>10 DEF Next

THEOREM ReadInvariance == Spec => []ReadInv
<1>1. Init => ReadInv
  BY InitRead
<1>2. ReadInv /\ [Next]_vars => ReadInv'
  BY NextRead
<1> QED
  BY <1>1, <1>2, PTL DEF Spec

----------------------------------------------------------------------------
(* Reading the text back. *)

\* A function with a text has all its values named and is no declaration.
LEMMA TextIs ==
  ASSUME ReadInv, NEW f \in Function, text[f] # <<>>
  PROVE  /\ Sound(body[f]) /\ body[f] \in Seq(Value)
         /\ DOMAIN text[f] = DOMAIN body[f] /\ Len(text[f]) = Len(body[f])
         /\ \A i \in DOMAIN body[f] :
              /\ text[f][i] = Line(f, i) /\ body[f][i] \in Value /\ body[f][i] \in Elements(body[f])
              /\ Owner[body[f][i]] = f
              /\ IsVoid(body[f][i]) \/ Named(body[f][i])
<1>1. AllNamed(f) /\ text[f] = Printed(f)
  BY DEF ReadInv, TextInv
<1>2. text[f] = [i \in DOMAIN body[f] |-> Line(f, i)]
  BY <1>1 DEF Printed
<1>3. Sound(body[f])
  BY DEF ReadInv, BodyInv
<1>4. body[f] \in Seq(Value)
  BY <1>3 DEF Sound
<1>5. DOMAIN text[f] = DOMAIN body[f] /\ Len(text[f]) = Len(body[f])
  <2>1. DOMAIN body[f] = 1..Len(body[f]) /\ Len(body[f]) \in Nat
    BY <1>4
  <2> QED
    BY <1>2, <2>1
<1>6. ASSUME NEW i \in DOMAIN body[f] PROVE IsVoid(body[f][i]) \/ Named(body[f][i])
  <2>1. ~NeedsName(body[f][i])
    BY <1>1 DEF AllNamed
  <2> QED
    BY <2>1 DEF NeedsName, Named
<1>7. \A i \in DOMAIN body[f] : body[f][i] \in Value /\ body[f][i] \in Elements(body[f])
  BY <1>4 DEF Elements
<1>8. \A i \in DOMAIN body[f] : Owner[body[f][i]] = f
  BY DEF ReadInv, IInv, TypeOK
<1> QED
  BY <1>2, <1>3, <1>4, <1>5, <1>6, <1>7, <1>8

\* The line that defines a value can be told from the others.
LEMMA DefinitionFound ==
  ASSUME ReadInv, NEW f \in Function, text[f] # <<>>, NEW x \in Value, x \in Elements(body[f]), ~IsVoid(x)
  PROVE  {k \in DOMAIN text[f] : Defines(f, AsOp(x), k)} = {k \in DOMAIN body[f] : body[f][k] = x}
<1>1. PICK l \in DOMAIN body[f] : x = body[f][l]
  BY DEF Elements
<1>2. Named(x) /\ Owner[x] = f
  BY <1>1, TextIs
<1>3. AsOp(x) = <<"%", name[x]>>
  BY DEF AsOp
<1>4. ASSUME NEW k \in DOMAIN body[f] PROVE Defines(f, AsOp(x), k) <=> body[f][k] = x
  <2>1. PICK w \in Value : w = body[f][k] /\ Owner[w] = f /\ (IsVoid(w) \/ Named(w))
    BY TextIs
  <2>2. text[f][k].def = IF IsVoid(w) THEN NoName ELSE name[w]
    <3>1. text[f][k] = Line(f, k)
      BY TextIs
    <3> QED
      BY <2>1, <3>1 DEF Line
  <2>3. name[w] = name[x] /\ Named(w) => w = x
    BY <1>2, <2>1 DEF ReadInv, IInv, NamesDiffer
  <2> QED
    BY <1>2, <1>3, <2>1, <2>2, <2>3 DEF Defines, Named
<1>5. DOMAIN text[f] = DOMAIN body[f]
  BY TextIs
<1> QED
  BY <1>4, <1>5

\* Each operand is read with its definition and its type.
LEMMA OperandIsRead ==
  ASSUME ReadInv, NEW f \in Function, text[f] # <<>>, NEW i \in DOMAIN text[f],
         NEW j \in DOMAIN text[f][i].args
  PROVE  OperandRead(f, i, j)
<1>1. i \in DOMAIN body[f] /\ text[f][i] = Line(f, i) /\ Sound(body[f])
  BY TextIs
<1>2. PICK v \in Value : v = body[f][i] /\ v \in Elements(body[f])
  BY <1>1, TextIs
<1>3. text[f][i].args = Args(v) /\ text[f][i].op = Op[v] /\ text[f][i].ty = LineType(v)
  BY <1>1, <1>2 DEF Line
<1>4. DOMAIN Args(v) = DOMAIN Operands[v]
  BY DEF Args
<1>5. PICK x : x = Operands[v][j]
  OBVIOUS
<1>6. j \in DOMAIN Operands[v] /\ x \in OperandsOf(v)
  BY <1>3, <1>4, <1>5 DEF OperandsOf, Elements
<1>7. TypeOf[x] # NoType /\ (x \in Value => ~IsVoid(x))
  BY <1>6, OperandsAssumption
<1>8. PICK a : a = text[f][i].args[j]
  OBVIOUS
<1>9. a = IF \/ Op[v] \in Binary /\ (j = 1 \/ TypeOf[x] = TypeOf[Operands[v][1]])
             \/ Op[v] = "phi"
             \/ Op[v] = "call" /\ j = 1
          THEN Untyped(x) ELSE Typed(x)
  BY <1>3, <1>5, <1>6, <1>8 DEF Args
<1>10. a.as = AsOp(x)
  BY <1>9 DEF Typed, Untyped
<1>11. TypeRead(text[f][i], j) = TypeOf[x]
  <2>1. CASE a = Typed(x)
    BY <1>7, <1>8, <2>1 DEF TypeRead, Typed
  <2>2. CASE Op[v] \in Binary /\ (j = 1 \/ TypeOf[x] = TypeOf[Operands[v][1]])
    <3>1. a.ty = NoType /\ Op[v] \notin {"phi", "call"}
      BY <1>9, <2>2 DEF Untyped, Binary
    <3>2. LineType(v) = TypeOf[Operands[v][1]]
      BY <2>2 DEF LineType, Binary
    <3> QED
      BY <1>3, <1>5, <1>8, <2>2, <3>1, <3>2 DEF TypeRead
  <2>3. CASE Op[v] = "phi"
    <3>1. a.ty = NoType
      BY <1>9, <2>3 DEF Untyped
    <3>2. LineType(v) = TypeOf[Operands[v][1]]
      BY <2>3 DEF LineType
    <3>3. IF j % 2 = 0 THEN TypeOf[x] = "label" ELSE TypeOf[x] = TypeOf[Operands[v][1]]
      BY <1>5, <1>6, <2>3, OperandsAssumption
    <3> QED
      BY <1>3, <1>8, <2>3, <3>1, <3>2, <3>3 DEF TypeRead
  <2>4. CASE Op[v] = "call" /\ j = 1
    <3>1. a.ty = NoType
      BY <1>9, <2>4 DEF Untyped
    <3>2. TypeOf[x] = "function"
      BY <1>5, <2>4, OperandsAssumption
    <3> QED
      BY <1>3, <1>8, <2>4, <3>1, <3>2 DEF TypeRead
  <2> QED
    BY <1>9, <2>1, <2>2, <2>3, <2>4
<1>12. CASE x \in Value
  <2>1. x \in Elements(body[f])
    BY <1>1, <1>2, <1>6, <1>12 DEF Sound
  <2>2. {k \in DOMAIN text[f] : Defines(f, AsOp(x), k)} = {k \in DOMAIN body[f] : body[f][k] = x}
    BY <1>7, <1>12, <2>1, DefinitionFound
  <2> QED
    BY <1>2, <1>5, <1>8, <1>10, <1>11, <1>12, <2>2 DEF OperandRead
<1>13. CASE x \notin Value
  <2>1. AsOp(x)[2] = x
    BY <1>13 DEF AsOp
  <2> QED
    BY <1>2, <1>5, <1>8, <1>10, <1>11, <1>13, <2>1 DEF OperandRead
<1> QED
  BY <1>12, <1>13

\* A phi is read with one entry for each predecessor.
LEMMA EntriesAreRead ==
  ASSUME ReadInv, NEW f \in Function, text[f] # <<>>, NEW i \in DOMAIN text[f], text[f][i].op = "phi"
  PROVE  EntriesRead(f, i)
<1>1. i \in DOMAIN body[f] /\ text[f][i] = Line(f, i) /\ Sound(body[f])
  BY TextIs
<1>2. PICK v \in Value : v = body[f][i]
  BY <1>1, TextIs
<1>3. text[f][i].args = Args(v) /\ Op[v] = "phi" /\ text[f][i].undef = {AsOp(b) : b \in Undefs(f, i)}
  BY <1>1, <1>2 DEF Line
<1>4. Operands[v] \in Seq(Value \cup Outside \cup Function)
  BY OperandsAssumption
<1> DEFINE P == PredecessorsIn(body[f], BlockOf(body[f], i))
           n == Len(Operands[v]) \div 2
<1>5. /\ PhiBlocks(v) \subseteq P /\ IsFiniteSet(P)
      /\ \A x \in P : x \in Value /\ Op[x] = "block"
  <2>1. PhiBlocks(v) \subseteq P
    BY <1>1, <1>2, <1>3 DEF Sound
  <2> QED
    BY <1>1, <2>1, PredecessorsThere
<1>6. Undefs(f, i) = IF n < Cardinality(P) THEN P \ OperandsOf(v) ELSE {}
  BY <1>2 DEF Undefs, Predecessors
<1>7. /\ \A x \in PhiBlocks(v) : x \in OperandsOf(v)
      /\ \A x \in OperandsOf(v) \cap Value : Op[x] = "block" => x \in PhiBlocks(v)
      /\ Cardinality(PhiBlocks(v)) = n /\ IsFiniteSet(PhiBlocks(v))
  BY <1>3, PhiEntry
<1>8. PhiBlocks(v) \cup Undefs(f, i) = P
  <2> HIDE DEF P, n
  <2>1. CASE n < Cardinality(P)
    BY <1>5, <1>6, <1>7, <2>1
  <2>2. CASE ~ (n < Cardinality(P))
    <3>1. Cardinality(P) \in Nat /\ n \in Nat
      BY <1>5, <1>7, FS_CardinalityType
    <3>2. Cardinality(PhiBlocks(v)) = Cardinality(P)
      <4>1. Cardinality(PhiBlocks(v)) <= Cardinality(P)
        BY <1>5, FS_Subset
      <4> QED
        BY <1>7, <2>2, <3>1, <4>1
    <3>3. PhiBlocks(v) = P
      BY <1>5, <3>2, FS_Subset
    <3> QED
      BY <1>6, <2>2, <3>3
  <2> QED
    BY <2>1, <2>2
<1>9. Len(Args(v)) = Len(Operands[v]) /\ DOMAIN Operands[v] = 1..Len(Operands[v]) /\ Len(Operands[v]) \in Nat
  <2>1. DOMAIN Operands[v] = 1..Len(Operands[v]) /\ Len(Operands[v]) \in Nat
    BY <1>4
  <2>2. DOMAIN Args(v) = 1..Len(Operands[v])
    BY <2>1 DEF Args
  <2> QED
    BY <2>1, <2>2
<1>10. ASSUME NEW j \in 1..n PROVE Args(v)[2 * j].as = AsOp(Operands[v][2 * j])
  <2>1. PICK m \in Nat : m = Len(Operands[v])
    BY <1>9
  <2>2. \A l \in 1..m \div 2 : 2 * l \in 1..m
    OBVIOUS
  <2>3. PICK k : k = 2 * j
    OBVIOUS
  <2>4. k \in DOMAIN Operands[v]
    BY <1>9, <2>1, <2>2, <2>3
  <2>5. Args(v)[k] = Untyped(Operands[v][k])
    BY <1>3, <2>4 DEF Args
  <2> QED
    BY <2>3, <2>5 DEF Untyped
<1>11. Elements([j \in 1..n |-> Args(v)[2 * j].as]) = {AsOp(b) : b \in PhiBlocks(v)}
  <2>1. PhiBlocks(v) = {Operands[v][2 * j] : j \in 1..n}
    BY DEF PhiBlocks
  <2>2. Elements([j \in 1..n |-> Args(v)[2 * j].as]) = {Args(v)[2 * j].as : j \in 1..n}
    BY DEF Elements
  <2> HIDE DEF n
  <2>3. {Args(v)[2 * j].as : j \in 1..n} = {AsOp(Operands[v][2 * j]) : j \in 1..n}
    BY <1>10
  <2> QED
    BY <2>1, <2>2, <2>3
<1>12. Elements([j \in 1..n |-> Args(v)[2 * j].as]) \cup text[f][i].undef = {AsOp(b) : b \in P}
  BY <1>3, <1>8, <1>11
<1> QED
  BY <1>3, <1>9, <1>12 DEF EntriesRead, Predecessors

\* For any program, any passes between prints and any number of prints, the text of a
\* function can be read back (ReadBack): each operand leads to its one definition and
\* to its type, and each phi has one entry for each predecessor.
THEOREM TextReadsBack == Spec => []ReadBack
<1>1. ASSUME ReadInv PROVE ReadBack
  <2> SUFFICES ASSUME NEW f \in Function, text[f] # <<>>
               PROVE  /\ Len(text[f]) = Len(body[f])
                      /\ \A i \in DOMAIN text[f] :
                           /\ (text[f][i].def = NoName) = (TypeOf[body[f][i]] = "void")
                           /\ \A j \in DOMAIN text[f][i].args : OperandRead(f, i, j)
                           /\ text[f][i].op = "phi" => EntriesRead(f, i)
    BY DEF ReadBack
  <2>1. Len(text[f]) = Len(body[f]) /\ DOMAIN text[f] = DOMAIN body[f]
    BY <1>1, TextIs
  <2>2. ASSUME NEW i \in DOMAIN text[f] PROVE (text[f][i].def = NoName) = (TypeOf[body[f][i]] = "void")
    <3>1. PICK v \in Value : v = body[f][i] /\ text[f][i] = Line(f, i) /\ (IsVoid(v) \/ Named(v))
      BY <1>1, <2>1, TextIs
    <3>2. text[f][i].def = IF IsVoid(v) THEN NoName ELSE name[v]
      BY <3>1 DEF Line
    <3>3. IsVoid(v) <=> TypeOf[v] = "void"
      BY OperandsAssumption
    <3> QED
      BY <3>1, <3>2, <3>3 DEF Named
  <2>3. \A i \in DOMAIN text[f] : \A j \in DOMAIN text[f][i].args : OperandRead(f, i, j)
    BY <1>1, OperandIsRead
  <2>4. \A i \in DOMAIN text[f] : text[f][i].op = "phi" => EntriesRead(f, i)
    BY <1>1, EntriesAreRead
  <2> QED
    BY <2>1, <2>2, <2>3, <2>4
<1> QED
  BY <1>1, ReadInvariance, PTL

----------------------------------------------------------------------------
(* The labels. *)

FunctionLabels == {Symbol[f] : f \in Function}
GlobalLabels == {Symbol[g] : g \in Globals}
Comparison == {"true_label", "false_label", "exit"} \X Nat
BlockLabels == {<<".", f, "_", n>> : f \in Function, n \in ({"arg", "label", "op"} \X Nat) \cup {NoName}}
Label == FunctionLabels \cup GlobalLabels \cup Comparison \cup BlockLabels

\* A module whose labels all differ, and a function of it that compares floats.
NoClash == OneFunctionCompares /\ NoExitNames
Comparing(f) == \E v \in Value : Owner[v] = f /\ Op[v] = "fcmp"

\* What has been emitted: of the functions and of their values.
Begun(f) == f \notin Elements(emitting) \/ (f = Current /\ next > 0)
Written(f, m) == f \notin Elements(emitting) \/ (f = Current /\ m < next)

StageInv ==
  /\ stage \in {"before", "naming", "emitting", "done"}
  /\ labels \in Seq(Label) /\ tfcount \in Nat /\ next \in Nat /\ emitting \in Seq(Function)
  /\ \A i, j \in DOMAIN emitting : emitting[i] = emitting[j] => i = j
  /\ stage \in {"before", "naming"} => labels = <<>> /\ refs = {} /\ emitting = <<>> /\ next = 0
  /\ stage = "naming" => /\ ~printing /\ phase \in {"names", "idle"}
                         /\ phase = "idle" => \A f \in Function : AllNamed(f)
  /\ stage \in {"emitting", "done"} => \A f \in Function : AllNamed(f)
  /\ stage = "done" => emitting = <<>>
  /\ emitting = <<>> => next = 0

\* Where a label comes from.
Kind(x) ==
  \/ x \in GlobalLabels
  \/ \E f \in Function : x = Symbol[f] /\ Begun(f)
  \/ x \in Comparison /\ \E f \in Function : Comparing(f) /\ Begun(f)
  \/ \E f \in Function, m \in Nat :
       /\ m \in DOMAIN body[f] /\ Op[body[f][m]] = "block"
       /\ x = LabelName(body[f][m]) /\ Written(f, m)
KindInv == \A i \in DOMAIN labels : Kind(labels[i])

UniqueInv == NoClash => LabelsDistinct
CountInv ==
  NoClash /\ next > 0 /\ Comparing(Current) =>
    \A i \in DOMAIN labels : labels[i] \in Comparison => labels[i][2] < tfcount

\* The labels that are named, and those of the blocks so far.
Ahead(r) ==
  /\ next > 0 /\ emitting # <<>>
  /\ \E m \in DOMAIN body[Current] :
       m >= next /\ Op[body[Current][m]] = "block" /\ r = LabelName(body[Current][m])
RefInv == \A r \in refs : r \in Elements(labels) \/ r \in FunctionLabels \/ Ahead(r)
BlockInv ==
  next > 0 =>
    \A m \in DOMAIN body[Current] :
      m < next /\ Op[body[Current][m]] = "block" => LabelName(body[Current][m]) \in Elements(labels)
CalleeInv ==
  stage \in {"emitting", "done"} =>
    \A f \in Function : Begun(f) => IsDeclaration(f) \/ Symbol[f] \in Elements(labels)

LInv == StageInv /\ KindInv /\ UniqueInv /\ CountInv /\ RefInv /\ BlockInv /\ CalleeInv

LabelsInv == ReadInv /\ LInv

\* Labels of different kinds differ.
LEMMA KindsDiffer ==
  ASSUME NEW x \in Function \cup Globals, NEW f, NEW n
  PROVE  /\ Symbol[x] # <<".", f, "_", n>>
         /\ \A c \in Comparison : c # <<".", f, "_", n>>
         /\ NoClash => Symbol[x] \notin Comparison
<1>1. \A c \in Comparison : c # <<".", f, "_", n>>
  <2>1. ASSUME NEW c \in Comparison PROVE c # <<".", f, "_", n>>
    <3>1. PICK a, k : c = <<a, k>>
      BY <2>1 DEF Comparison
    <3> QED
      BY <3>1
  <2> QED
    BY <2>1
<1>2. CASE Symbol[x] = <<x>>
  <2>1. \A c \in Comparison : c # <<x>>
    <3>1. ASSUME NEW c \in Comparison PROVE c # <<x>>
      <4>1. PICK a, k : c = <<a, k>>
        BY <3>1 DEF Comparison
      <4> QED
        BY <4>1
    <3> QED
      BY <3>1
  <2>2. <<x>> # <<".", f, "_", n>>
    OBVIOUS
  <2>3. Symbol[x] # <<".", f, "_", n>>
    BY <1>2, <2>2
  <2>4. Symbol[x] \notin Comparison
    BY <1>2, <2>1
  <2> QED
    BY <1>1, <2>3, <2>4
<1>3. CASE Symbol[x] \in {"exit"} \X Nat
  <2>1. Symbol[x] \in Comparison
    BY <1>3 DEF Comparison
  <2>2. ~NoClash
    BY <1>3 DEF NoClash, NoExitNames
  <2> QED
    BY <1>1, <2>1, <2>2
<1> QED
  BY <1>2, <1>3, SymbolAssumption

\* Block labels tell the functions and their blocks apart.
LEMMA BlockLabelsDiffer ==
  ASSUME ReadInv, NEW f \in Function, NEW g \in Function, AllNamed(f), AllNamed(g),
         NEW m \in DOMAIN body[f], NEW n \in DOMAIN body[g],
         Op[body[f][m]] = "block", Op[body[g][n]] = "block",
         LabelName(body[f][m]) = LabelName(body[g][n])
  PROVE  f = g /\ m = n
<1>1. PICK v \in Value, w \in Value : v = body[f][m] /\ w = body[g][n] /\ Owner[v] = f /\ Owner[w] = g
  BY DEF ReadInv, IInv, TypeOK
<1>2. Owner[v] = Owner[w] /\ name[v] = name[w]
  BY <1>1 DEF LabelName
<1>3. ~NeedsName(v) /\ ~NeedsName(w)
  BY <1>1 DEF AllNamed
<1>4. Named(v) /\ Named(w)
  BY <1>1, <1>3 DEF NeedsName, Named, Prefix
<1>5. v = w
  BY <1>2, <1>4 DEF ReadInv, IInv, NamesDiffer
<1>6. f = g /\ body[f][m] = body[f][n]
  BY <1>1, <1>2, <1>5
<1> QED
  BY <1>6 DEF ReadInv, BodyInv, Sound

LEMMA BlockLabel ==
  ASSUME ReadInv, NEW f \in Function, NEW m \in DOMAIN body[f]
  PROVE  LabelName(body[f][m]) \in BlockLabels
BY DEF ReadInv, IInv, TypeOK, LabelName, BlockLabels

\* Labels are added at the end.
LEMMA Longer ==
  ASSUME labels \in Seq(Label), NEW r \in Seq(Label), labels' = labels \o r
  PROVE  /\ labels' \in Seq(Label) /\ Len(labels') = Len(labels) + Len(r)
         /\ DOMAIN labels = 1..Len(labels) /\ Len(labels) \in Nat
         /\ DOMAIN labels' = 1..Len(labels) + Len(r) /\ DOMAIN r = 1..Len(r) /\ Len(r) \in Nat
         /\ \A i \in DOMAIN labels : i \in DOMAIN labels' /\ labels'[i] = labels[i]
         /\ \A l \in DOMAIN r : Len(labels) + l \in DOMAIN labels' /\ labels'[Len(labels) + l] = r[l]
         /\ \A k \in DOMAIN labels' : \/ k \in DOMAIN labels
                                      \/ \E l \in DOMAIN r : k = Len(labels) + l
         /\ Elements(labels') = Elements(labels) \cup Elements(r)
<1>1. /\ labels' \in Seq(Label) /\ Len(labels') = Len(labels) + Len(r)
      /\ DOMAIN labels = 1..Len(labels) /\ Len(labels) \in Nat
      /\ DOMAIN labels' = 1..Len(labels) + Len(r) /\ DOMAIN r = 1..Len(r) /\ Len(r) \in Nat
      /\ \A i \in 1..Len(labels) + Len(r) :
           labels'[i] = IF i <= Len(labels) THEN labels[i] ELSE r[i - Len(labels)]
  BY ConcatProperties
<1>2. \A i \in DOMAIN labels : i \in DOMAIN labels' /\ labels'[i] = labels[i]
  BY <1>1
<1>3. ASSUME NEW l \in DOMAIN r
      PROVE  Len(labels) + l \in DOMAIN labels' /\ labels'[Len(labels) + l] = r[l]
  <2>1. Len(labels) + l \in 1..Len(labels) + Len(r) /\ ~ (Len(labels) + l <= Len(labels))
        /\ Len(labels) + l - Len(labels) = l
    BY <1>1
  <2> QED
    BY <1>1, <2>1
<1>4. ASSUME NEW k \in DOMAIN labels', k \notin DOMAIN labels PROVE \E l \in DOMAIN r : k = Len(labels) + l
  <2>1. k - Len(labels) \in DOMAIN r /\ k = Len(labels) + (k - Len(labels))
    BY <1>1, <1>4
  <2> QED
    BY <2>1
<1>5. Elements(labels') = Elements(labels) \cup Elements(r)
  <2>1. ASSUME NEW x \in Elements(labels') PROVE x \in Elements(labels) \cup Elements(r)
    <3>1. PICK k \in DOMAIN labels' : x = labels'[k]
      BY DEF Elements
    <3>2. CASE k \in DOMAIN labels
      BY <1>2, <3>1, <3>2 DEF Elements
    <3>3. CASE k \notin DOMAIN labels
      BY <1>3, <1>4, <3>1, <3>3 DEF Elements
    <3> QED
      BY <3>2, <3>3
  <2>2. ASSUME NEW x \in Elements(labels) PROVE x \in Elements(labels')
    <3>1. PICK k \in DOMAIN labels : x = labels[k]
      BY DEF Elements
    <3>2. x = labels'[k] /\ k \in DOMAIN labels'
      BY <1>2, <3>1
    <3> QED
      BY <3>2 DEF Elements
  <2>3. ASSUME NEW x \in Elements(r) PROVE x \in Elements(labels')
    <3>1. PICK l \in DOMAIN r : x = r[l]
      BY DEF Elements
    <3>2. PICK k \in DOMAIN labels' : x = labels'[k]
      BY <1>3, <3>1
    <3> QED
      BY <3>2 DEF Elements
  <2> QED
    BY <2>1, <2>2, <2>3
<1> QED
  BY <1>1, <1>2, <1>3, <1>4, <1>5

\* New labels that differ from each other and from the old ones.
LEMMA StillUnique ==
  ASSUME LInv, LabelsDistinct, NEW r \in Seq(Label), labels' = labels \o r,
         \A k, l \in DOMAIN r : r[k] = r[l] => k = l,
         \A i \in DOMAIN labels : \A l \in DOMAIN r : labels[i] # r[l]
  PROVE  LabelsDistinct'
<1>1. labels \in Seq(Label)
  BY DEF LInv, StageInv
<1>2. /\ \A i \in DOMAIN labels : labels'[i] = labels[i]
      /\ \A l \in DOMAIN r : labels'[Len(labels) + l] = r[l]
      /\ \A k \in DOMAIN labels' : \/ k \in DOMAIN labels
                                   \/ \E l \in DOMAIN r : k = Len(labels) + l
  BY <1>1, Longer
<1> SUFFICES ASSUME NEW i \in DOMAIN labels', NEW j \in DOMAIN labels', labels'[i] = labels'[j]
             PROVE  i = j
  BY DEF LabelsDistinct
<1>3. CASE i \in DOMAIN labels /\ j \in DOMAIN labels
  BY <1>2, <1>3 DEF LabelsDistinct
<1>4. CASE i \in DOMAIN labels /\ j \notin DOMAIN labels
  BY <1>2, <1>4
<1>5. CASE i \notin DOMAIN labels /\ j \in DOMAIN labels
  BY <1>2, <1>5
<1>6. CASE i \notin DOMAIN labels /\ j \notin DOMAIN labels
  BY <1>2, <1>6
<1> QED
  BY <1>3, <1>4, <1>5, <1>6

\* Every step of the emission is a step, or a stutter, of naming.
LEMMA NamingStep ==
  ASSUME [LabelsNext]_labelVars
  PROVE  [Next]_vars
BY DEF LabelsNext, labelVars, Before, StartRun, Name, EmitGlobals, EmitDeclaration, EmitFunction, EmitValue,
       FunctionEmitted, Emitted, Next, output

\* The labels keep their kinds while the program and the names stay.
LEMMA KindStays ==
  ASSUME LInv, UNCHANGED vars,
         \A f \in Function : Begun(f) => Begun(f)',
         \A f \in Function : \A m \in Nat : Written(f, m) => Written(f, m)',
         NEW x, Kind(x)
  PROVE  Kind(x)'
<1>1. body' = body /\ name' = name
  BY DEF vars
<1>2. CASE x \in GlobalLabels
  BY <1>2 DEF Kind, GlobalLabels
<1>3. CASE \/ \E f \in Function : x = Symbol[f] /\ Begun(f)
           \/ x \in Comparison /\ \E f \in Function : Comparing(f) /\ Begun(f)
  BY <1>3 DEF Kind, Comparison, Comparing
<1>4. CASE \E f \in Function, m \in Nat :
             /\ m \in DOMAIN body[f] /\ Op[body[f][m]] = "block"
             /\ x = LabelName(body[f][m]) /\ Written(f, m)
  <2>1. PICK f \in Function, m \in Nat :
             /\ m \in DOMAIN body[f] /\ Op[body[f][m]] = "block"
             /\ x = LabelName(body[f][m]) /\ Written(f, m)
    BY <1>4
  <2>2. LabelName(body[f][m])' = LabelName(body[f][m])
    BY <1>1 DEF LabelName
  <2>3. Written(f, m)'
    BY <2>1
  <2> QED
    BY <1>1, <2>1, <2>2, <2>3 DEF Kind
<1> QED
  BY <1>2, <1>3, <1>4 DEF Kind

LEMMA KindsStay ==
  ASSUME LInv, UNCHANGED vars, NEW r \in Seq(Label), labels' = labels \o r,
         \A f \in Function : Begun(f) => Begun(f)',
         \A f \in Function : \A m \in Nat : Written(f, m) => Written(f, m)',
         \A l \in DOMAIN r : Kind(r[l])'
  PROVE  KindInv'
<1>1. labels \in Seq(Label)
  BY DEF LInv, StageInv
<1>2. ASSUME NEW k \in DOMAIN labels', NEW x, x = labels'[k] PROVE Kind(x)'
  <2>1. CASE k \in DOMAIN labels
    <3>1. x = labels[k]
      BY <1>1, <1>2, <2>1, Longer
    <3>2. Kind(x)
      BY <2>1, <3>1 DEF LInv, KindInv
    <3> QED
      BY <3>2, KindStays
  <2>2. CASE k \notin DOMAIN labels
    <3>1. PICK l \in DOMAIN r : labels'[k] = r[l]
      BY <1>1, <2>2, Longer
    <3>2. x = r[l]
      BY <1>2, <3>1
    <3> QED
      BY <3>2
  <2> QED
    BY <2>1, <2>2
<1> QED
  BY <1>2 DEF KindInv

LEMMA InitLabels == LabelsInit => LabelsInv
<1> SUFFICES ASSUME LabelsInit PROVE LabelsInv
  OBVIOUS
<1>1. StageInv
  BY DEF LabelsInit, StageInv
<1>2. DOMAIN labels = {}
  BY DEF LabelsInit
<1>3. KindInv /\ UniqueInv /\ CountInv /\ RefInv /\ BlockInv /\ CalleeInv
  BY <1>2 DEF LabelsInit, KindInv, UniqueInv, LabelsDistinct, CountInv, RefInv, BlockInv, CalleeInv
<1> QED
  BY <1>1, <1>3, InitRead DEF LabelsInit, LabelsInv, LInv

\* Before the code generator runs, and while it has the values named.
LEMMA NamingLabels ==
  ASSUME LabelsInv, Before \/ StartRun \/ Name
  PROVE  LInv'
<1>1. stage \in {"before", "naming"} /\ UNCHANGED <<labels, refs, tfcount, emitting, next>>
  BY DEF Before, StartRun, Name, output
<1>2. labels' = <<>> /\ refs' = {} /\ emitting' = <<>> /\ next' = 0 /\ tfcount' \in Nat
  BY <1>1 DEF LabelsInv, LInv, StageInv
<1>3. stage' \in {"before", "naming"}
  BY <1>1 DEF Before, StartRun, Name, output
<1>4. ASSUME stage' = "naming"
      PROVE  ~printing' /\ phase' \in {"names", "idle"} /\ (phase' = "idle" => \A f \in Function : AllNamed(f)')
  <2>1. CASE StartRun
    BY <2>1 DEF StartRun, Begin
  <2>2. CASE Name
    <3>1. ~printing /\ phase \in {"names", "idle"} /\ TypeOK /\ MapNamed /\ WalkInv
      BY <2>2 DEF Name, LabelsInv, LInv, StageInv, ReadInv, IInv
    <3>2. CASE Walk \/ NameValue \/ SkipValue \/ Walked
      <4>1. phase # "idle"
        BY <3>1, <3>2 DEF Walk, NameValue, SkipValue, Walked, Walking, MapNamed
      <4>2. UNCHANGED <<phase, printing>>
        BY <3>2 DEF Walk, NameValue, SkipValue, Walked
      <4> QED
        BY <3>1, <4>1, <4>2
    <3>3. CASE AllWalked
      <4>1. phase' = "idle" /\ printing' = printing /\ phase = "names" /\ left = <<>> /\ UNCHANGED <<body, name>>
        BY <3>1, <3>3 DEF AllWalked
      <4>2. \A f \in Function : AllNamed(f)
        BY <3>1, <4>1 DEF WalkInv, Elements
      <4>3. \A f \in Function : AllNamed(f)'
        BY <4>1, <4>2 DEF AllNamed, NeedsName
      <4> QED
        BY <3>1, <4>1, <4>3
    <3> QED
      BY <2>2, <3>2, <3>3 DEF Name
  <2>3. CASE Before
    BY <1>4, <2>3 DEF Before, output
  <2> QED
    BY <2>1, <2>2, <2>3
<1>5. StageInv'
  BY <1>2, <1>3, <1>4 DEF StageInv, Label, FunctionLabels, GlobalLabels, Comparison, BlockLabels
<1>6. DOMAIN labels' = {}
  BY <1>2
<1>7. KindInv' /\ UniqueInv' /\ CountInv' /\ RefInv' /\ BlockInv' /\ CalleeInv'
  BY <1>2, <1>3, <1>6 DEF KindInv, UniqueInv, LabelsDistinct, CountInv, RefInv, BlockInv, CalleeInv
<1> QED
  BY <1>5, <1>7 DEF LInv

LEMMA GlobalsLabels ==
  ASSUME LabelsInv, EmitGlobals
  PROVE  LInv'
<1>1. PICK order \in [1..Cardinality(Globals) -> Globals] :
        Elements(order) = Globals /\ labels' = [i \in DOMAIN order |-> Symbol[order[i]]]
  BY DEF EmitGlobals
<1>2. UNCHANGED vars /\ UNCHANGED <<refs, tfcount>> /\ emitting' = FunctionList /\ next' = 0 /\ stage' = "emitting"
  BY DEF EmitGlobals
<1>3. refs = {} /\ tfcount \in Nat /\ \A f \in Function : AllNamed(f)
  BY DEF EmitGlobals, LabelsInv, LInv, StageInv
<1>4. PICK n \in Nat : n = Cardinality(Globals)
  BY GlobalsAssumption, FS_CardinalityType
<1>5. \A i \in 1..n : \A j \in 1..n : order[i] = order[j] => i = j
  <2>1. order \in Surjection(1..n, Globals)
    BY <1>1, <1>4 DEF Surjection, Elements
  <2>2. IsFiniteSet(1..n) /\ Cardinality(1..n) = n
    <3>1. 1 \in Int /\ n \in Int
      OBVIOUS
    <3>2. IsFiniteSet(1..n) /\ Cardinality(1..n) = IF 1 > n THEN 0 ELSE n - 1 + 1
      BY <3>1, FS_Interval
    <3> QED
      BY <3>2
  <2>3. order \in Injection(1..n, Globals)
    BY <1>4, <2>1, <2>2, FS_SurjSameCardinalityImpliesInj
  <2> QED
    BY <2>3 DEF Injection, IsInjective
<1>6. /\ DOMAIN labels' = 1..n
      /\ \A i \in 1..n : labels'[i] = Symbol[order[i]] /\ labels'[i] \in GlobalLabels
  BY <1>1, <1>4 DEF GlobalLabels
<1>7. labels' \in Seq(Label)
  <2>1. labels' = [i \in 1..n |-> Symbol[order[i]]]
    BY <1>1, <1>4
  <2>2. \A i \in 1..n : Symbol[order[i]] \in Label
    BY <1>6 DEF Label
  <2> QED
    BY <2>1, <2>2
<1>8. \A f \in Function : AllNamed(f)'
  BY <1>2, <1>3 DEF vars, AllNamed, NeedsName
<1>9. FunctionList \in Seq(Function) /\ \A f \in Function : f \in Elements(FunctionList)
  BY ProgramAssumption
<1>10. StageInv'
  <2>1. emitting' \in Seq(Function) /\ next' = 0 /\ tfcount' \in Nat /\ stage' = "emitting"
    BY <1>2, <1>3, <1>9
  <2>2. \A i, j \in DOMAIN emitting' : emitting'[i] = emitting'[j] => i = j
    BY <1>2, GlobalsAssumption
  <2> QED
    BY <1>7, <1>8, <2>1, <2>2 DEF StageInv
<1>11. KindInv'
  BY <1>6 DEF KindInv, Kind, GlobalLabels
<1>12. UniqueInv'
  <2>1. ASSUME NEW i \in 1..n, NEW j \in 1..n, Symbol[order[i]] = Symbol[order[j]] PROVE i = j
    BY <1>1, <1>4, <1>5, <2>1, SymbolAssumption
  <2> QED
    BY <1>6, <2>1 DEF UniqueInv, LabelsDistinct
<1>13. CountInv' /\ RefInv' /\ BlockInv'
  BY <1>2, <1>3 DEF CountInv, RefInv, BlockInv
<1>14. CalleeInv'
  <2>1. \A f \in Function : ~Begun(f)'
    BY <1>2, <1>9 DEF Begun
  <2> QED
    BY <2>1 DEF CalleeInv
<1> QED
  BY <1>10, <1>11, <1>12, <1>13, <1>14 DEF LInv

\* A function is done with and the next one is at hand.
LEMMA FunctionBehind ==
  ASSUME LInv, emitting # <<>>, emitting' = Tail(emitting), next' = 0
  PROVE  /\ Current \in Function /\ Current \in Elements(emitting)
         /\ emitting' \in Seq(Function) /\ \A i, j \in DOMAIN emitting' : emitting'[i] = emitting'[j] => i = j
         /\ \A f \in Function : Begun(f)' <=> Begun(f) \/ f = Current
         /\ \A f \in Function : \A m \in Nat : Written(f, m) => Written(f, m)'
<1>1. emitting \in Seq(Function) /\ \A i, j \in DOMAIN emitting : emitting[i] = emitting[j] => i = j
  BY DEF LInv, StageInv
<1>2. PICK c : c = Current
  OBVIOUS
<1>3. /\ c = emitting[1] /\ 1 \in DOMAIN emitting /\ emitting' \in Seq(Function)
      /\ \A i \in DOMAIN emitting' : i + 1 \in DOMAIN emitting /\ emitting'[i] = emitting[i + 1]
      /\ Elements(emitting) = Elements(emitting') \cup {c}
  BY <1>1, <1>2, HeadAndTail DEF Current
<1>4. DOMAIN emitting' = 1..Len(emitting') /\ Len(emitting') \in Nat
  BY <1>3
<1>5. \A i, j \in DOMAIN emitting' : emitting'[i] = emitting'[j] => i = j
  BY <1>1, <1>3, <1>4
<1>6. c \notin Elements(emitting')
  <2>1. \A i \in DOMAIN emitting' : i + 1 # 1
    BY <1>4
  <2>2. \A i \in DOMAIN emitting' : emitting'[i] # c
    BY <1>1, <1>3, <2>1
  <2> QED
    BY <2>2 DEF Elements
<1>7. c \in Function
  BY <1>1, <1>3
<1>8. \A f : Begun(f)' <=> f \notin Elements(emitting')
  BY DEF Begun
<1>9. \A f \in Function : Begun(f)' <=> Begun(f) \/ f = c
  BY <1>2, <1>3, <1>6, <1>8 DEF Begun
<1>10. \A f \in Function : \A m \in Nat : Written(f, m) => Written(f, m)'
  BY <1>2, <1>3, <1>6 DEF Written
<1> QED
  BY <1>2, <1>3, <1>5, <1>7, <1>9, <1>10

LEMMA NamesAtEmission ==
  ASSUME LInv, stage = "emitting", UNCHANGED vars
  PROVE  /\ \A f \in Function : AllNamed(f)
         /\ \A f \in Function : AllNamed(f)'
         /\ \A f : IsDeclaration(f)' <=> IsDeclaration(f)
BY DEF LInv, StageInv, vars, AllNamed, NeedsName, IsDeclaration

LEMMA FunctionDoneLabels ==
  ASSUME LabelsInv, EmitDeclaration \/ FunctionEmitted
  PROVE  LInv'
<1>1. /\ UNCHANGED vars /\ UNCHANGED <<labels, refs, tfcount, stage>> /\ emitting' = Tail(emitting) /\ next' = 0
      /\ stage = "emitting" /\ emitting # <<>>
  BY DEF EmitDeclaration, FunctionEmitted, Emitting
<1>2. LInv /\ labels \in Seq(Label) /\ next \in Nat
  BY DEF LabelsInv, LInv, StageInv
<1>3. PICK c \in Function : c = Current
  BY <1>1, <1>2, FunctionBehind
<1>4. /\ emitting' \in Seq(Function) /\ \A i, j \in DOMAIN emitting' : emitting'[i] = emitting'[j] => i = j
      /\ \A f \in Function : Begun(f)' <=> Begun(f) \/ f = c
      /\ \A f \in Function : \A m \in Nat : Written(f, m) => Written(f, m)'
  BY <1>1, <1>2, <1>3, FunctionBehind
<1>5. /\ \A f \in Function : AllNamed(f)'
      /\ \A f : IsDeclaration(f)' <=> IsDeclaration(f)
  BY <1>1, <1>2, NamesAtEmission
<1>6. StageInv'
  BY <1>1, <1>2, <1>4, <1>5 DEF LInv, StageInv
<1>7. KindInv'
  <2>1. <<>> \in Seq(Label) /\ labels' = labels \o <<>> /\ DOMAIN <<>> = {}
    BY <1>1, <1>2, ConcatEmptySeq
  <2> QED
    BY <1>1, <1>2, <1>4, <2>1, KindsStay
<1>8. UniqueInv' /\ CountInv' /\ BlockInv'
  BY <1>1, <1>2 DEF LInv, UniqueInv, LabelsDistinct, CountInv, BlockInv
<1>9. RefInv'
  <2>1. \A r : ~Ahead(r)
    <3>1. CASE EmitDeclaration
      BY <3>1 DEF EmitDeclaration, Ahead
    <3>2. CASE FunctionEmitted
      <4>1. body[c] \in Seq(Value) /\ next > Len(body[c])
        BY <1>3, <3>2 DEF FunctionEmitted, LabelsInv, ReadInv, IInv, TypeOK
      <4>2. \A m \in DOMAIN body[c] : ~ (m >= next)
        BY <1>2, <4>1
      <4> QED
        BY <1>3, <4>2 DEF Ahead
    <3> QED
      BY <3>1, <3>2
  <2> QED
    BY <1>1, <1>2, <2>1 DEF LInv, RefInv, FunctionLabels
<1>10. CalleeInv'
  <2>1. Begun(c) \/ IsDeclaration(c)
    <3>1. CASE EmitDeclaration
      BY <1>3, <3>1 DEF EmitDeclaration
    <3>2. CASE FunctionEmitted
      <4>1. next > Len(body[c]) /\ body[c] \in Seq(Value)
        BY <1>3, <3>2 DEF FunctionEmitted, LabelsInv, ReadInv, IInv, TypeOK
      <4>2. next > 0
        BY <1>2, <4>1
      <4> QED
        BY <1>3, <4>2 DEF Begun
    <3> QED
      BY <3>1, <3>2
  <2>2. ASSUME NEW f \in Function, Begun(f)' PROVE IsDeclaration(f)' \/ Symbol[f] \in Elements(labels')
    BY <1>1, <1>2, <1>4, <1>5, <2>1, <2>2 DEF LInv, CalleeInv
  <2> QED
    BY <2>2 DEF CalleeInv
<1> QED
  BY <1>6, <1>7, <1>8, <1>9, <1>10 DEF LInv

LEMMA EndLabels ==
  ASSUME LabelsInv, Emitted \/ UNCHANGED labelVars
  PROVE  LInv'
<1>1. UNCHANGED vars /\ UNCHANGED <<labels, refs, tfcount, emitting, next>>
  BY DEF Emitted, labelVars, output
<1>2. stage' = stage \/ (stage = "emitting" /\ stage' = "done" /\ emitting = <<>>)
  BY DEF Emitted, labelVars, output
<1>3. body' = body /\ name' = name /\ phase' = phase /\ printing' = printing
  BY <1>1 DEF vars, walk
<1>4. \A f \in Function : (AllNamed(f)' <=> AllNamed(f)) /\ (IsDeclaration(f)' <=> IsDeclaration(f))
  BY <1>3 DEF AllNamed, NeedsName, IsDeclaration
<1>5. /\ \A f \in Function : Begun(f)' <=> Begun(f)
      /\ \A f \in Function : \A m \in Nat : Written(f, m)' <=> Written(f, m)
  BY <1>1 DEF Begun, Written, Current
<1>6. LInv /\ labels \in Seq(Label)
  BY DEF LabelsInv, LInv, StageInv
<1>7. StageInv'
  BY <1>1, <1>2, <1>3, <1>4, <1>6 DEF LInv, StageInv
<1>8. KindInv'
  <2>1. <<>> \in Seq(Label) /\ labels' = labels \o <<>> /\ DOMAIN <<>> = {}
    BY <1>1, <1>6, ConcatEmptySeq
  <2> QED
    BY <1>1, <1>5, <1>6, <2>1, KindsStay
<1>9. UniqueInv' /\ CountInv' /\ CalleeInv'
  BY <1>1, <1>2, <1>4, <1>5, <1>6 DEF LInv, UniqueInv, LabelsDistinct, CountInv, CalleeInv, Current
<1>10. RefInv' /\ BlockInv'
  <2>1. Current' = Current /\ \A b : LabelName(b)' = LabelName(b)
    BY <1>1, <1>3 DEF Current, LabelName
  <2>2. RefInv'
    <3>1. \A x : Ahead(x)' <=> Ahead(x)
      BY <1>1, <1>3, <2>1 DEF Ahead
    <3> QED
      BY <1>1, <1>6, <3>1 DEF LInv, RefInv, FunctionLabels
  <2>3. BlockInv'
    BY <1>1, <1>3, <1>6, <2>1 DEF LInv, BlockInv
  <2> QED
    BY <2>2, <2>3
<1> QED
  BY <1>7, <1>8, <1>9, <1>10 DEF LInv

\* A function is gone through.
LEMMA Onward ==
  ASSUME LInv, emitting # <<>>, emitting' = emitting, next' = next + 1
  PROVE  /\ \A f \in Function : Begun(f) => Begun(f)'
         /\ \A f \in Function : Begun(f)' <=> Begun(f) \/ f = Current
         /\ \A f \in Function : \A m \in Nat : Written(f, m) => Written(f, m)'
         /\ \A f \in Function : \A m \in Nat : f = Current /\ m = next => Written(f, m)'
         /\ Current \in Function /\ Current \in Elements(emitting) /\ Current' = Current
<1>1. emitting \in Seq(Function) /\ next \in Nat
  BY DEF LInv, StageInv
<1>2. Current \in Function /\ Current \in Elements(emitting) /\ Current' = Current
  BY <1>1, HeadAndTail DEF Current
<1>3. PICK n \in Nat : n = next
  BY <1>1
<1>4. PICK c : c = Current
  OBVIOUS
<1>5. Current' = c /\ next' = n + 1 /\ n + 1 > 0
  BY <1>2, <1>3, <1>4
<1>6. \A f : Begun(f)' <=> f \notin Elements(emitting) \/ f = c
  BY <1>5 DEF Begun
<1>7. \A f : \A m : Written(f, m)' <=> f \notin Elements(emitting) \/ (f = c /\ m < n + 1)
  BY <1>5 DEF Written
<1>8. \A f \in Function : \A m \in Nat : Written(f, m) => Written(f, m)'
  <2>1. \A m \in Nat : m < n => m < n + 1
    OBVIOUS
  <2> QED
    BY <1>3, <1>4, <1>7, <2>1 DEF Written
<1>9. \A f \in Function : Begun(f)' <=> Begun(f) \/ f = c
  BY <1>3, <1>4, <1>6 DEF Begun
<1>10. \A f \in Function : \A m \in Nat : f = Current /\ m = next => Written(f, m)'
  BY <1>3, <1>4, <1>7
<1> QED
  BY <1>2, <1>4, <1>8, <1>9, <1>10

LEMMA FunctionStarted ==
  ASSUME LabelsInv, EmitFunction
  PROVE  LInv'
<1>1. /\ UNCHANGED vars /\ UNCHANGED <<refs, emitting, stage>> /\ tfcount' = 0 /\ next = 0 /\ next' = 1
      /\ stage = "emitting" /\ emitting # <<>> /\ labels' = Append(labels, Symbol[Current])
  BY DEF EmitFunction, Emitting
<1>2. LInv /\ labels \in Seq(Label)
  BY DEF LabelsInv, LInv, StageInv
<1>3. next' = next + 1
  BY <1>1
<1>4. PICK c \in Function : c = Current /\ c \in Elements(emitting)
  BY <1>1, <1>2, <1>3, Onward
<1>5. PICK r \in Seq(Label) : r = <<Symbol[c]>> /\ labels' = labels \o r
  <2>1. Symbol[c] \in Label
    BY DEF Label, FunctionLabels
  <2>2. <<Symbol[c]>> \in Seq(Label)
    BY <2>1
  <2>3. labels' = labels \o <<Symbol[c]>>
    BY <1>1, <1>2, <1>4, <2>1, AppendIsConcat
  <2> QED
    BY <2>2, <2>3
<1>6. DOMAIN r = {1} /\ r[1] = Symbol[c]
  BY <1>5
<1>7. /\ \A f \in Function : Begun(f)' <=> Begun(f) \/ f = c
      /\ \A f \in Function : \A m \in Nat : Written(f, m) => Written(f, m)'
  BY <1>1, <1>2, <1>3, <1>4, Onward
<1>8. /\ \A f \in Function : AllNamed(f)'
      /\ \A f : IsDeclaration(f)' <=> IsDeclaration(f)
  BY <1>1, <1>2, NamesAtEmission
<1>9. /\ labels' \in Seq(Label) /\ Len(labels') = Len(labels) + 1
      /\ DOMAIN labels = 1..Len(labels) /\ Len(labels) \in Nat /\ DOMAIN labels' = 1..Len(labels) + 1
      /\ labels'[Len(labels) + 1] = Symbol[c]
      /\ \A x \in Elements(labels) : x \in Elements(labels')
      /\ Symbol[c] \in Elements(labels')
  <2>1. Len(r) = 1
    BY <1>5
  <2>2. Symbol[c] \in Elements(r)
    BY <1>6 DEF Elements
  <2> QED
    BY <1>2, <1>5, <1>6, <2>1, <2>2, Longer
<1>10. StageInv'
  BY <1>1, <1>2, <1>8, <1>9 DEF LInv, StageInv
<1>11. KindInv'
  <2>1. Begun(c)'
    BY <1>4, <1>7
  <2>2. ASSUME NEW l \in DOMAIN r PROVE Kind(r[l])'
    BY <1>6, <2>1 DEF Kind
  <2> QED
    BY <1>1, <1>2, <1>5, <1>7, <2>2, KindsStay
<1>12. ASSUME NoClash PROVE UniqueInv'
  <2>1. ASSUME NEW i \in DOMAIN labels, labels[i] = Symbol[c] PROVE FALSE
    <3>1. Kind(Symbol[c])
      BY <1>2, <2>1 DEF LInv, KindInv
    <3>2. CASE Symbol[c] \in GlobalLabels
      <4>1. PICK g \in Globals : Symbol[c] = Symbol[g]
        BY <3>2 DEF GlobalLabels
      <4>2. c = g
        BY <4>1, SymbolAssumption
      <4> QED
        BY <4>2, GlobalsAssumption
    <3>3. CASE \E f \in Function : Symbol[c] = Symbol[f] /\ Begun(f)
      <4>1. PICK f \in Function : Symbol[c] = Symbol[f] /\ Begun(f)
        BY <3>3
      <4>2. f = c
        BY <4>1, SymbolAssumption
      <4> QED
        BY <1>1, <1>4, <4>1, <4>2 DEF Begun
    <3>4. CASE Symbol[c] \in Comparison
      BY <1>12, <3>4, KindsDiffer
    <3>5. CASE \E b : Symbol[c] = LabelName(b)
      BY <3>5, KindsDiffer DEF LabelName
    <3> QED
      BY <3>1, <3>2, <3>3, <3>4, <3>5 DEF Kind
  <2>2. \A k, l \in DOMAIN r : r[k] = r[l] => k = l
    BY <1>6
  <2>3. \A i \in DOMAIN labels : \A l \in DOMAIN r : labels[i] # r[l]
    BY <1>6, <2>1
  <2>4. LabelsDistinct
    BY <1>2, <1>12 DEF LInv, UniqueInv
  <2> QED
    BY <1>2, <1>5, <2>2, <2>3, <2>4, StillUnique DEF UniqueInv
<1>13. ASSUME NoClash, Comparing(c), NEW i \in DOMAIN labels', labels'[i] \in Comparison PROVE FALSE
  <2>1. i \in DOMAIN labels /\ labels'[i] = labels[i]
    <3>1. \A l \in DOMAIN r : r[l] \notin Comparison
      BY <1>6, <1>13, KindsDiffer
    <3> QED
      BY <1>2, <1>5, <1>13, <3>1, Longer
  <2>2. Kind(labels[i])
    BY <1>2, <2>1 DEF LInv, KindInv
  <2>3. PICK f \in Function : Comparing(f) /\ Begun(f)
    <3>1. labels[i] \notin GlobalLabels /\ labels[i] \notin FunctionLabels
      BY <1>13, <2>1, KindsDiffer DEF GlobalLabels, FunctionLabels
    <3>2. \A b : labels[i] # LabelName(b)
      BY <1>4, <1>13, <2>1, KindsDiffer DEF LabelName
    <3> QED
      BY <2>2, <3>1, <3>2 DEF Kind, FunctionLabels
  <2>4. f = c
    BY <1>13, <2>3 DEF NoClash, OneFunctionCompares, Comparing
  <2> QED
    BY <1>1, <1>4, <2>3, <2>4 DEF Begun
<1>17. CountInv'
  <2>1. Current' = c
    BY <1>1, <1>4 DEF Current
  <2> QED
    BY <1>13, <2>1 DEF CountInv, Comparison, Comparing
<1>14. RefInv'
  BY <1>1, <1>2, <1>9 DEF LInv, RefInv, Ahead, FunctionLabels
<1>15. BlockInv'
  <2>1. body' = body /\ Current' = c
    BY <1>1, <1>4 DEF vars, Current
  <2>2. body[c] \in Seq(Value)
    BY <1>4 DEF LabelsInv, ReadInv, IInv, TypeOK
  <2>3. \A m \in DOMAIN body[c] : ~ (m < 1)
    BY <2>2
  <2> QED
    BY <1>1, <2>1, <2>3 DEF BlockInv
<1>16. CalleeInv'
  <2>1. ASSUME NEW f \in Function, Begun(f)' PROVE IsDeclaration(f)' \/ Symbol[f] \in Elements(labels')
    BY <1>1, <1>2, <1>7, <1>8, <1>9, <2>1 DEF LInv, CalleeInv
  <2> QED
    BY <2>1 DEF CalleeInv
<1> QED
  BY <1>10, <1>11, <1>12, <1>17, <1>14, <1>15, <1>16 DEF LInv, UniqueInv

\* The labels that a value adds.
LabelsOf(v) ==
  IF Op[v] = "block" THEN <<LabelName(v)>> ELSE IF Op[v] = "fcmp" THEN FcmpLabels ELSE <<>>

\* What every value does to the labels.
LEMMA ValueLabels ==
  ASSUME LabelsInv, EmitValue,
         NEW c \in Function, c = Current, NEW n \in Nat, n = next,
         NEW v \in Value, v = body[c][n]
  PROVE  /\ UNCHANGED vars /\ UNCHANGED <<emitting, stage>> /\ next' = n + 1 /\ Current' = c
         /\ stage = "emitting" /\ emitting # <<>> /\ c \in Elements(emitting)
         /\ n \in DOMAIN body[c] /\ body[c] \in Seq(Value) /\ n > 0
         /\ LInv /\ ReadInv /\ labels \in Seq(Label) /\ tfcount \in Nat /\ tfcount' \in Nat
         /\ \E r \in Seq(Label) : r = LabelsOf(v) /\ labels' = labels \o r
         /\ \A f \in Function : AllNamed(f) /\ AllNamed(f)'
<1>1. /\ UNCHANGED vars /\ UNCHANGED <<emitting, stage>> /\ next' = n + 1
      /\ stage = "emitting" /\ emitting # <<>> /\ n \in DOMAIN body[c]
  BY DEF EmitValue, Emitting
<1>2. LInv /\ ReadInv /\ labels \in Seq(Label) /\ tfcount \in Nat
  BY DEF LabelsInv, LInv, StageInv
<1>3. c \in Elements(emitting) /\ Current' = c
  BY <1>1, <1>2, Onward
<1>4. body[c] \in Seq(Value) /\ n > 0
  <2>1. body[c] \in Seq(Value)
    BY <1>2 DEF ReadInv, IInv, TypeOK
  <2> QED
    BY <1>1, <2>1
<1>5. labels' = labels \o LabelsOf(v)
  BY DEF EmitValue, LabelsOf
<1>6. LabelsOf(v) \in Seq(Label)
  <2>1. LabelName(v) \in Label
    BY <1>1, <1>2, BlockLabel DEF Label
  <2>2. \A s \in {"true_label", "false_label", "exit"} : <<s, tfcount>> \in Label
    BY <1>2 DEF Label, Comparison
  <2>3. <<LabelName(v)>> \in Seq(Label) /\ FcmpLabels \in Seq(Label)
    BY <2>1, <2>2 DEF FcmpLabels
  <2> QED
    BY <2>3 DEF LabelsOf
<1>7. tfcount' \in Nat
  BY <1>2 DEF EmitValue, NextCount
<1>8. \A f \in Function : AllNamed(f) /\ AllNamed(f)'
  BY <1>1, <1>2, NamesAtEmission
<1> QED
  BY <1>1, <1>2, <1>3, <1>4, <1>5, <1>6, <1>7, <1>8

LEMMA ValueEmitted ==
  ASSUME LabelsInv, EmitValue
  PROVE  LInv'
<1>1. PICK n \in Nat : n = next
  BY DEF LabelsInv, LInv, StageInv
<1>2. PICK c \in Function : c = Current
  <2>1. emitting \in Seq(Function) /\ emitting # <<>>
    BY DEF LabelsInv, LInv, StageInv, EmitValue, Emitting
  <2> QED
    BY <2>1, HeadAndTail DEF Current
<1>3. PICK v \in Value : v = body[c][n]
  BY <1>1, <1>2 DEF EmitValue, LabelsInv, ReadInv, IInv, TypeOK
<1>4. /\ UNCHANGED vars /\ UNCHANGED <<emitting, stage>> /\ next' = n + 1 /\ Current' = c
      /\ stage = "emitting" /\ emitting # <<>> /\ c \in Elements(emitting)
      /\ n \in DOMAIN body[c] /\ body[c] \in Seq(Value) /\ n > 0
      /\ LInv /\ ReadInv /\ labels \in Seq(Label) /\ tfcount \in Nat /\ tfcount' \in Nat
      /\ \A f \in Function : AllNamed(f) /\ AllNamed(f)'
  BY <1>1, <1>2, <1>3, ValueLabels
<1>5. PICK r \in Seq(Label) : r = LabelsOf(v) /\ labels' = labels \o r
  BY <1>1, <1>2, <1>3, ValueLabels
<1>6. /\ \A f \in Function : Begun(f) => Begun(f)'
      /\ \A f \in Function : Begun(f)' <=> Begun(f) \/ f = c
      /\ \A f \in Function : \A m \in Nat : Written(f, m) => Written(f, m)'
      /\ Written(c, n)'
  <2>1. next' = next + 1
    BY <1>1, <1>4
  <2> QED
    BY <1>1, <1>2, <1>4, <2>1, Onward
<1>7. /\ labels' \in Seq(Label) /\ Len(labels') = Len(labels) + Len(r) /\ Len(labels) \in Nat
      /\ \A i \in DOMAIN labels : i \in DOMAIN labels' /\ labels'[i] = labels[i]
      /\ \A l \in DOMAIN r : Len(labels) + l \in DOMAIN labels' /\ labels'[Len(labels) + l] = r[l]
      /\ \A k \in DOMAIN labels' : \/ k \in DOMAIN labels
                                   \/ \E l \in DOMAIN r : k = Len(labels) + l
      /\ Elements(labels') = Elements(labels) \cup Elements(r)
  BY <1>4, <1>5, Longer
<1>8. /\ Op[v] = "block" => DOMAIN r = {1} /\ r[1] = LabelName(v)
      /\ Op[v] = "fcmp" => /\ DOMAIN r = {1, 2, 3} /\ r = FcmpLabels
                           /\ r[1] = <<"true_label", tfcount>> /\ r[2] = <<"false_label", tfcount>>
                           /\ r[3] = <<"exit", tfcount>>
      /\ Op[v] \notin {"block", "fcmp"} => DOMAIN r = {}
  BY <1>5 DEF LabelsOf, FcmpLabels
<1>9. body' = body /\ LabelName(v)' = LabelName(v) /\ \A b : LabelName(b)' = LabelName(b)
  BY <1>4 DEF vars, LabelName
<1>10. Op[v] = "block" => LabelName(v) \in Elements(labels')
  BY <1>7, <1>8 DEF Elements
<1>11. StageInv'
  BY <1>4, <1>7 DEF LInv, StageInv
<1>12. KindInv'
  <2>1. ASSUME NEW l \in DOMAIN r PROVE Kind(r[l])'
    <3>1. CASE Op[v] = "block"
      <4>1. r[l] = LabelName(body[c][n])
        BY <1>3, <1>8, <3>1
      <4>2. n \in DOMAIN body'[c] /\ Op[body'[c][n]] = "block" /\ Written(c, n)' /\ v = body'[c][n]
        BY <1>3, <1>4, <1>6, <1>9, <3>1
      <4>3. r[l] = LabelName(v)'
        BY <1>3, <1>9, <4>1
      <4> QED
        BY <4>2, <4>3 DEF Kind, LabelName
    <3>2. CASE Op[v] = "fcmp"
      <4>1. PICK s \in {"true_label", "false_label", "exit"} : r[l] = <<s, tfcount>>
        BY <1>8, <3>2
      <4> QED
        <5>1. Comparing(c) /\ Begun(c)'
          BY <1>3, <1>4, <1>6, <3>2 DEF Comparing, ReadInv, IInv, TypeOK, Begun
        <5> QED
          BY <1>4, <4>1, <5>1 DEF Kind, Comparison, Comparing
    <3> QED
      BY <1>8, <3>1, <3>2
  <2> QED
    BY <1>4, <1>5, <1>6, <2>1, KindsStay
<1>13. ASSUME NoClash PROVE UniqueInv'
  <2>1. \A k, l \in DOMAIN r : r[k] = r[l] => k = l
    <3>1. CASE Op[v] = "fcmp"
      <4>1. r[1][1] = "true_label" /\ r[2][1] = "false_label" /\ r[3][1] = "exit"
        BY <1>8, <3>1
      <4> QED
        BY <1>8, <3>1, <4>1
    <3> QED
      BY <1>8, <3>1
  <2>2. ASSUME NEW i \in DOMAIN labels, NEW l \in DOMAIN r, labels[i] = r[l]
        PROVE  FALSE
    <3>1. Kind(r[l])
      BY <1>4, <2>2 DEF LInv, KindInv
    <3>2. CASE Op[v] = "block"
      <4>1. r[l] = LabelName(v)
        BY <1>8, <3>2
      <4>2. PICK a, b : r[l] = <<".", a, "_", b>>
        BY <4>1 DEF LabelName
      <4>4. r[l] \notin Comparison \cup GlobalLabels \cup FunctionLabels
        BY <1>2, <4>2, KindsDiffer DEF GlobalLabels, FunctionLabels
      <4>5. PICK f \in Function, m \in Nat :
              /\ m \in DOMAIN body[f] /\ Op[body[f][m]] = "block"
              /\ r[l] = LabelName(body[f][m]) /\ Written(f, m)
        BY <3>1, <4>4 DEF Kind, FunctionLabels
      <4>6. f = c /\ m = n
        <5>1. AllNamed(f) /\ AllNamed(c) /\ ReadInv
          BY <1>4
        <5>2. Op[body[c][n]] = "block" /\ LabelName(body[f][m]) = LabelName(body[c][n])
          BY <1>3, <3>2, <4>1, <4>5
        <5>3. n \in DOMAIN body[c] /\ m \in DOMAIN body[f] /\ Op[body[f][m]] = "block"
          BY <1>4, <4>5
        <5> QED
          BY <5>1, <5>2, <5>3, BlockLabelsDiffer
      <4>7. ~Written(c, n)
        BY <1>1, <1>2, <1>4 DEF Written
      <4> QED
        BY <4>5, <4>6, <4>7
    <3>3. CASE Op[v] = "fcmp"
      <4>1. r[l] \in Comparison /\ r[l][2] = tfcount
        <5>1. PICK s \in {"true_label", "false_label", "exit"} : r[l] = <<s, tfcount>>
          BY <1>8, <3>3
        <5> QED
          BY <1>4, <5>1 DEF Comparison
      <4>2. ~ (labels[i][2] < tfcount)
        BY <1>4, <2>2, <4>1
      <4>3. Comparing(Current)
        BY <1>2, <1>3, <1>4, <3>3 DEF Comparing, ReadInv, IInv, TypeOK
      <4> QED
        BY <1>1, <1>4, <1>13, <2>2, <4>1, <4>2, <4>3 DEF LInv, CountInv
    <3> QED
      BY <1>8, <3>2, <3>3
  <2> QED
    <3>1. LabelsDistinct
      BY <1>4, <1>13 DEF LInv, UniqueInv
    <3> QED
      BY <1>4, <1>5, <2>1, <2>2, <3>1, StillUnique DEF UniqueInv
<1>14. CountInv'
  <2>1. ASSUME NoClash, Comparing(c), NEW i \in DOMAIN labels', labels'[i] \in Comparison
        PROVE  labels'[i][2] < tfcount'
    <3>1. CASE i \in DOMAIN labels
      <4>1. labels[i] = labels'[i]
        BY <1>7, <3>1
      <4>2. labels[i][2] < tfcount
        BY <1>1, <1>2, <1>4, <2>1, <3>1, <4>1 DEF LInv, CountInv
      <4>3. PICK k \in Nat : k = labels[i][2]
        BY <2>1, <4>1 DEF Comparison
      <4>4. k < tfcount => k < tfcount'
        BY <1>4 DEF EmitValue, NextCount
      <4> QED
        BY <1>7, <3>1, <4>1, <4>2, <4>3, <4>4
    <3>2. CASE i \notin DOMAIN labels
      <4>1. PICK l \in DOMAIN r : labels'[i] = r[l]
        BY <1>7, <3>2
      <4>2. CASE Op[v] = "fcmp"
        <5>1. r[l][2] = tfcount
          BY <1>8, <4>2
        <5>2. tfcount' = tfcount + 1
          BY <1>1, <1>2, <1>3, <4>2 DEF EmitValue, NextCount
        <5> QED
          BY <1>4, <4>1, <5>1, <5>2
      <4>3. CASE Op[v] = "block"
        <5>1. PICK a, b : r[l] = <<".", a, "_", b>>
          BY <1>8, <4>3 DEF LabelName
        <5> QED
          BY <2>1, <4>1, <5>1, KindsDiffer
      <4> QED
        BY <1>8, <4>2, <4>3
    <3> QED
      BY <3>1, <3>2
  <2> QED
    BY <1>4, <2>1 DEF CountInv, Comparison, Comparing
<1>15. BlockInv'
  <2>1. ASSUME NEW m \in DOMAIN body[c], m < n + 1, Op[body[c][m]] = "block"
        PROVE  LabelName(body[c][m]) \in Elements(labels')
    <3>1. m \in Nat
      BY <1>4
    <3>2. CASE m = n
      BY <1>3, <1>10, <2>1, <3>2
    <3>3. CASE m # n
      <4>1. m < n
        BY <2>1, <3>1, <3>3
      <4> QED
        BY <1>1, <1>2, <1>4, <1>7, <2>1, <4>1 DEF LInv, BlockInv
    <3> QED
      BY <3>2, <3>3
  <2> QED
    BY <1>4, <1>9, <2>1 DEF BlockInv
<1>16. RefInv'
  <2>1. ASSUME NEW m \in DOMAIN body[c], Op[body[c][m]] = "block", NEW x, x = LabelName(body[c][m])
        PROVE  x \in Elements(labels') \/ Ahead(x)'
    <3>1. m \in Nat
      BY <1>4
    <3>2. CASE m < n + 1
      <4>1. m < n \/ m = n
        BY <3>1, <3>2
      <4>2. CASE m = n
        BY <1>3, <1>10, <2>1, <4>2
      <4>3. CASE m < n
        BY <1>1, <1>2, <1>4, <1>7, <2>1, <4>3 DEF LInv, BlockInv
      <4> QED
        BY <4>1, <4>2, <4>3
    <3>3. CASE ~ (m < n + 1)
      <4>1. m >= n + 1 /\ n + 1 > 0
        BY <3>1, <3>3
      <4>2. PICK b : b = body[c][m]
        OBVIOUS
      <4>3. x = LabelName(b)' /\ b = body'[c][m] /\ m \in DOMAIN body'[c] /\ Op[body'[c][m]] = "block"
        BY <1>9, <2>1, <4>2
      <4> QED
        BY <1>4, <4>1, <4>3 DEF Ahead, LabelName
    <3> QED
      BY <3>2, <3>3
  <2>2. ASSUME NEW x \in refs PROVE x \in Elements(labels') \/ x \in FunctionLabels \/ Ahead(x)'
    <3>1. x \in Elements(labels) \/ x \in FunctionLabels \/ Ahead(x)
      BY <1>4 DEF LInv, RefInv
    <3>2. Ahead(x) => \E m \in DOMAIN body[c] : Op[body[c][m]] = "block" /\ x = LabelName(body[c][m])
      BY <1>2 DEF Ahead
    <3> QED
      BY <1>7, <2>1, <3>1, <3>2
  <2>3. ASSUME NEW x \in refs', x \notin refs PROVE x \in Elements(labels') \/ x \in FunctionLabels \/ Ahead(x)'
    <3>1. CASE Op[v] = "br"
      <4>1. PICK b \in OperandsOf(v) \cap Value : Op[b] = "block" /\ x = LabelName(b)
        BY <1>1, <1>2, <1>3, <2>3, <3>1 DEF EmitValue
      <4>2. v \in Elements(body[c]) /\ Sound(body[c])
        BY <1>3, <1>4 DEF Elements, ReadInv, BodyInv
      <4>3. PICK m \in DOMAIN body[c] : b = body[c][m]
        BY <4>1, <4>2 DEF Sound, Elements
      <4> QED
        BY <2>1, <4>1, <4>3
    <3>2. CASE Op[v] = "call"
      <4>1. x = Symbol[Operands[v][1]] /\ Operands[v][1] \in Function
        BY <1>1, <1>2, <1>3, <2>3, <3>2, OperandsAssumption DEF EmitValue
      <4> QED
        BY <4>1 DEF FunctionLabels
    <3>3. CASE Op[v] = "fcmp"
      BY <1>1, <1>2, <1>3, <1>7, <1>8, <2>3, <3>3 DEF EmitValue
    <3>4. CASE Op[v] \notin {"br", "call", "fcmp"}
      BY <1>1, <1>2, <1>3, <2>3, <3>4 DEF EmitValue
    <3> QED
      BY <3>1, <3>2, <3>3, <3>4
  <2> QED
    BY <2>2, <2>3 DEF RefInv, FunctionLabels
<1>17. CalleeInv'
  <2>1. Begun(c)
    BY <1>1, <1>2, <1>4 DEF Begun
  <2>2. \A f : IsDeclaration(f)' <=> IsDeclaration(f)
    BY <1>9 DEF IsDeclaration
  <2>3. ASSUME NEW f \in Function, Begun(f)' PROVE IsDeclaration(f)' \/ Symbol[f] \in Elements(labels')
    BY <1>4, <1>6, <1>7, <2>1, <2>2, <2>3 DEF LInv, CalleeInv
  <2> QED
    BY <2>3 DEF CalleeInv
<1> QED
  BY <1>11, <1>12, <1>13, <1>14, <1>15, <1>16, <1>17 DEF LInv, UniqueInv

LEMMA NextLabels == LabelsInv /\ [LabelsNext]_labelVars => LabelsInv'
<1> SUFFICES ASSUME LabelsInv, [LabelsNext]_labelVars PROVE LabelsInv'
  OBVIOUS
<1>1. ReadInv'
  BY NamingStep, NextRead DEF LabelsInv
<1>2. LInv'
  BY NamingLabels, GlobalsLabels, FunctionDoneLabels, FunctionStarted, ValueEmitted, EndLabels DEF LabelsNext
<1> QED
  BY <1>1, <1>2 DEF LabelsInv

\* For any program, whatever passes and prints come before, each label that a branch or
\* a call of the assembly names is defined, or is a function of the runtime.
THEOREM LabelsAlwaysDefined == LabelsSpec => []LabelsDefined
<1>1. ASSUME LabelsInv, stage = "done", NEW r \in refs
      PROVE  r \in Elements(labels) \/ r \in {Symbol[f] : f \in {f \in Function : IsDeclaration(f)}}
  <2>1. LInv
    BY <1>1 DEF LabelsInv
  <2>2. emitting = <<>>
    BY <1>1, <2>1 DEF LInv, StageInv
  <2>3. \A f : Begun(f)
    BY <2>2 DEF Begun, Elements
  <2>4. r \in Elements(labels) \/ r \in FunctionLabels
    BY <1>1, <2>1, <2>2 DEF LInv, RefInv, Ahead
  <2>5. ASSUME NEW f \in Function, r = Symbol[f]
        PROVE  IsDeclaration(f) \/ r \in Elements(labels)
    BY <1>1, <2>1, <2>3, <2>5 DEF LInv, CalleeInv
  <2> QED
    BY <2>4, <2>5 DEF FunctionLabels
<1>2. LabelsInv => LabelsDefined
  BY <1>1 DEF LabelsDefined
<1> QED
  BY InitLabels, NextLabels, <1>2, PTL DEF LabelsSpec

\* When one function at most compares floats and no name is exit with a number, no
\* label of the file stands at two places either, so that each reference names one
\* place.  Without the first hypothesis this is false (LabelsDistinct).
THEOREM LabelsResolve == LabelsSpec => [](NoClash => ReferencesResolve)
<1>1. LabelsInv => (NoClash => LabelsDistinct)
  BY DEF LabelsInv, LInv, UniqueInv
<1>2. (NoClash => LabelsDistinct) /\ LabelsDefined => (NoClash => ReferencesResolve)
  BY DEF ReferencesResolve
<1> QED
  BY InitLabels, NextLabels, LabelsAlwaysDefined, <1>1, <1>2, PTL DEF LabelsSpec

----------------------------------------------------------------------------
(* The frame.  Numbers first. *)

\* A value is made of two parts, each of which fits its field.
LEMMA Parts ==
  ASSUME NEW v, Int32(v)
  PROVE  /\ v \in Int
         /\ (v \div 4096) * 4096 + (v % 4096) = v
         /\ v \div 4096 \in Int /\ -524288 <= v \div 4096 /\ v \div 4096 <= 524287
         /\ v % 4096 \in Int /\ 0 <= v % 4096 /\ v % 4096 <= 4095
BY SMT DEF Int32

LEMMA Alignment ==
  ASSUME NEW n \in Nat
  PROVE  /\ ALIGN(n, 4) \in Nat /\ ALIGN(n, 4) >= n
         /\ ALIGN(n, 8) \in Nat /\ ALIGN(n, 8) >= n
         /\ ALIGN(n, 16) \in Nat /\ ALIGN(n, 16) >= n
BY SMT DEF ALIGN

\* What fits the immediate of a load, a store or an addition.
LEMMA Immediate ==
  ASSUME NEW x \in Int
  PROVE  /\ IS_IMM_12(x) <=> x >= -2048 /\ x <= 2047
         /\ IS_IMM_12(0) /\ IS_IMM_12(-8) /\ IS_IMM_12(-16)
BY SMT DEF IS_IMM_12, IMM_12_MAX, IMM_12_MIN

----------------------------------------------------------------------------
(* The layout of a frame. *)

\* The offset after n arrays, from the one after n - 1 of them.
Step(f, n, before) == IF n = 0 THEN 16 ELSE ALIGN(before + 8, 8) + f[n]

Begins(g, m, f) ==
  /\ DOMAIN g = 0..m
  /\ \A n \in 0..m : g[n] = Step(f, n, g[n - 1])

\* The offsets are defined up to each number of arrays.
LEMMA OffsetsBegin ==
  ASSUME NEW f, NEW m \in Nat
  PROVE  \E g : Begins(g, m, f)
<1> DEFINE T == {n \in Nat : ~ \E g : Begins(g, n, f)}
<1>1. ASSUME NEW n \in T PROVE FALSE
  <2>1. PICK k \in T : \A l \in T : k <= l
    BY <1>1, LeastNumber
  <2>2. CASE k = 0
    <3> DEFINE g == [i \in 0..0 |-> 16]
    <3>1. Begins(g, 0, f)
      BY DEF Begins, Step
    <3> QED
      BY <2>2, <3>1
  <2>3. CASE k # 0
    <3>1. k - 1 \in Nat /\ k - 1 \notin T
      BY <2>1, <2>3
    <3>2. PICK h : Begins(h, k - 1, f)
      BY <3>1
    <3> DEFINE g == [i \in 0..k |-> IF i = k THEN Step(f, k, h[k - 1]) ELSE h[i]]
    <3>3. DOMAIN g = 0..k
      OBVIOUS
    <3>4. ASSUME NEW i \in 0..k PROVE g[i] = Step(f, i, g[i - 1])
      <4>1. CASE i = 0
        BY <2>3, <3>2, <4>1 DEF Begins, Step
      <4>2. CASE i # 0 /\ i = k
        BY <2>3, <4>2
      <4>3. CASE i # 0 /\ i # k
        <5>1. i \in 0..(k - 1) /\ i - 1 \in 0..k /\ i - 1 # k
          BY <4>3
        <5> QED
          BY <3>2, <4>3, <5>1 DEF Begins
      <4> QED
        BY <4>1, <4>2, <4>3
    <3>5. Begins(g, k, f)
      <4> HIDE DEF g
      <4> QED
        BY <3>3, <3>4 DEF Begins
    <3> QED
      BY <3>5
  <2> QED
    BY <2>2, <2>3
<1> QED
  BY <1>1

LEMMA OffsetRule ==
  ASSUME NEW f, Len(f) \in Nat
  PROVE  \A n \in 0..Len(f) : OffsetAfter(f)[n] = Step(f, n, OffsetAfter(f)[n - 1])
<1> DEFINE Rec(g) == [n \in 0..Len(f) |-> Step(f, n, g[n - 1])]
<1>1. PICK g : Begins(g, Len(f), f)
  BY OffsetsBegin
<1>2. PICK h : h = [n \in 0..Len(f) |-> g[n]]
  OBVIOUS
<1>3. h = Rec(h)
  <2>1. ASSUME NEW n \in 0..Len(f) PROVE h[n] = Step(f, n, h[n - 1])
    <3>1. CASE n = 0
      BY <1>1, <1>2, <3>1 DEF Begins, Step
    <3>2. CASE n # 0
      <4>1. n - 1 \in 0..Len(f)
        BY <3>2
      <4> QED
        BY <1>1, <1>2, <4>1 DEF Begins
    <3> QED
      BY <3>1, <3>2
  <2> QED
    BY <1>2, <2>1
<1>4. OffsetAfter(f) = CHOOSE c : c = Rec(c)
  BY DEF OffsetAfter, Step
<1>5. OffsetAfter(f) = Rec(OffsetAfter(f))
  <2> HIDE DEF Rec
  <2> QED
    BY <1>3, <1>4
<1> QED
  BY <1>5

\* The offsets grow.
LEMMA OffsetsGrow ==
  ASSUME NEW f \in Seq(Nat)
  PROVE  /\ \A n \in 0..Len(f) : OffsetAfter(f)[n] \in Nat /\ OffsetAfter(f)[n] >= 16
         /\ \A n \in 0..Len(f) : OffsetAfter(f)[n] <= OffsetAfter(f)[Len(f)]
         /\ \A n \in 1..Len(f) : OffsetAfter(f)[n] = ALIGN(OffsetAfter(f)[n - 1] + 8, 8) + f[n]
<1> DEFINE o == OffsetAfter(f)
           L == Len(f)
<1>1. L \in Nat /\ \A n \in 1..L : f[n] \in Nat
  BY LenProperties, ElementOfSeq
<1>2. \A n \in 0..L : o[n] = Step(f, n, o[n - 1])
  BY <1>1, OffsetRule
<1> HIDE DEF o, L
<1>3. ASSUME NEW n \in 1..L, o[n - 1] \in Nat
      PROVE  o[n] \in Nat /\ o[n] >= o[n - 1] /\ o[n] = ALIGN(o[n - 1] + 8, 8) + f[n]
  <2>1. o[n] = ALIGN(o[n - 1] + 8, 8) + f[n]
    BY <1>2 DEF Step
  <2>2. ALIGN(o[n - 1] + 8, 8) \in Nat /\ ALIGN(o[n - 1] + 8, 8) >= o[n - 1] + 8
    <3>1. o[n - 1] + 8 \in Nat
      BY <1>3
    <3> QED
      BY <3>1, Alignment
  <2>3. f[n] \in Nat
    BY <1>1
  <2> QED
    BY <1>3, <2>1, <2>2, <2>3
<1> DEFINE Low == {n \in Nat : n \in 0..L /\ ~ (o[n] \in Nat /\ o[n] >= 16)}
<1>4. ASSUME NEW n \in Low PROVE FALSE
  <2>1. PICK k \in Low : \A l \in Low : k <= l
    <3>1. Low \in SUBSET Nat /\ Low # {}
      BY <1>4
    <3> HIDE DEF Low
    <3> QED
      BY <3>1, LeastNumber
  <2>2. CASE k = 0
    BY <1>2, <2>1, <2>2 DEF Step
  <2>3. CASE k # 0
    <3>1. k \in 1..L /\ k - 1 \in 0..L /\ k - 1 \in Nat /\ ~ (k <= k - 1)
      BY <1>1, <2>3
    <3>2. o[k - 1] \in Nat /\ o[k - 1] >= 16
      BY <2>1, <3>1
    <3> QED
      BY <1>3, <3>1, <3>2
  <2> QED
    BY <2>2, <2>3
<1>5. \A n \in 0..L : o[n] \in Nat /\ o[n] >= 16
  BY <1>1, <1>4
<1> DEFINE Wrong == {n \in Nat : n <= L /\ ~ (o[L - n] <= o[L])}
<1>6. ASSUME NEW n \in Wrong PROVE FALSE
  <2>1. PICK k \in Wrong : \A l \in Wrong : k <= l
    <3>1. Wrong \in SUBSET Nat /\ Wrong # {}
      BY <1>6
    <3> HIDE DEF Wrong
    <3> QED
      BY <3>1, LeastNumber
  <2>2. CASE k = 0
    BY <1>1, <1>5, <2>1, <2>2
  <2>3. CASE k # 0
    <3>1. k - 1 \in Nat /\ ~ (k <= k - 1) /\ k - 1 <= L /\ L - k \in 0..L /\ L - (k - 1) \in 1..L
          /\ (L - (k - 1)) - 1 = L - k
      BY <1>1, <2>3
    <3>2. o[L - (k - 1)] <= o[L]
      BY <2>1, <3>1
    <3>3. o[L - (k - 1)] >= o[L - k]
      BY <1>3, <1>5, <3>1
    <3>4. o[L - (k - 1)] \in Nat /\ o[L - k] \in Nat /\ o[L] \in Nat
      BY <1>1, <1>5, <3>1
    <3> QED
      BY <2>1, <3>2, <3>3, <3>4
  <2> QED
    BY <2>2, <2>3
<1>7. ASSUME NEW n \in 0..L PROVE o[n] <= o[L]
  <2>1. L - n \in Nat /\ L - n <= L /\ L - (L - n) = n
    BY <1>1
  <2> QED
    BY <1>6, <2>1
<1>8. ASSUME NEW n \in 1..L PROVE o[n] = ALIGN(o[n - 1] + 8, 8) + f[n]
  <2>1. n - 1 \in 0..L
    BY <1>1
  <2> QED
    BY <1>3, <1>5, <2>1
<1> QED
  BY <1>5, <1>7, <1>8 DEF o, L

\* The slots of a frame and the arrays lie between the saved registers and its end.
LEMMA FrameLayout ==
  ASSUME NEW f \in Seq(Nat)
  PROVE  /\ FrameSize(f) \in Nat /\ FrameSize(f) >= 20
         /\ IntegerSlot(f) \in Int /\ IntegerSlot(f) <= -20 /\ IntegerSlot(f) >= -FrameSize(f)
         /\ \A k \in 1..Len(f) :
              /\ PointerSlot(f, k) \in Int /\ PointerSlot(f, k) <= -20
              /\ PointerSlot(f, k) - f[k] >= -FrameSize(f)
<1> DEFINE o == OffsetAfter(f)
           L == Len(f)
<1>1. L \in Nat /\ \A n \in 1..L : f[n] \in Nat
  BY LenProperties, ElementOfSeq
<1>2. /\ \A n \in 0..L : o[n] \in Nat /\ o[n] >= 16
      /\ \A n \in 0..L : o[n] <= o[L]
      /\ \A n \in 1..L : o[n] = ALIGN(o[n - 1] + 8, 8) + f[n]
  BY OffsetsGrow
<1> HIDE DEF o, L
<1>3. o[L] \in Nat /\ o[L] >= 16
  BY <1>1, <1>2
<1>4. IntegerOffset(f) \in Nat /\ IntegerOffset(f) >= o[L] + 4
  <2>1. o[L] + 4 \in Nat /\ IntegerOffset(f) = ALIGN(o[L] + 4, 4)
    BY <1>3 DEF IntegerOffset, o, L
  <2> QED
    BY <2>1, Alignment
<1>5. FrameSize(f) \in Nat /\ FrameSize(f) >= IntegerOffset(f)
  BY <1>4, Alignment DEF FrameSize
<1>6. ASSUME NEW k \in 1..L
      PROVE  /\ PointerSlot(f, k) \in Int /\ PointerSlot(f, k) <= -20
             /\ PointerSlot(f, k) - f[k] >= -FrameSize(f)
  <2>1. k - 1 \in 0..L /\ k \in 0..L
    BY <1>1
  <2>2. o[k - 1] \in Nat /\ o[k - 1] >= 16 /\ o[k] \in Nat /\ o[k] <= o[L] /\ o[k] = ALIGN(o[k - 1] + 8, 8) + f[k]
    BY <1>2, <2>1
  <2>3. ALIGN(o[k - 1] + 8, 8) \in Nat /\ ALIGN(o[k - 1] + 8, 8) >= o[k - 1] + 8
    <3>1. o[k - 1] + 8 \in Nat
      BY <2>2
    <3> QED
      BY <3>1, Alignment
  <2>4. PointerSlot(f, k) = -ALIGN(o[k - 1] + 8, 8)
    BY DEF PointerSlot, o
  <2>5. f[k] \in Nat
    BY <1>1
  <2> DEFINE q == ALIGN(o[k - 1] + 8, 8)
  <2>6. q \in Nat /\ q >= 24 /\ PointerSlot(f, k) = -q /\ q + f[k] = o[k]
    BY <2>2, <2>3, <2>4
  <2> HIDE DEF q
  <2>7. o[k] <= FrameSize(f)
    BY <1>3, <1>4, <1>5, <2>2
  <2> QED
    BY <1>5, <2>2, <2>5, <2>6, <2>7
<1>7. IntegerSlot(f) = -IntegerOffset(f)
  BY DEF IntegerSlot
<1> QED
  BY <1>1, <1>3, <1>4, <1>5, <1>6, <1>7 DEF L
----------------------------------------------------------------------------
(* Instructions, and sequences of them with a first one. *)

Registers == {"zero", "sp", "fp", "ra", "t0", "t8"}
Targets == Registers \ {"zero"}
Operations == {"addi", "add.d", "sub.d", "lu12i.w", "ori", "lu32i.d", "lu52i.d", "ld", "st"}
Instructions == {i \in [op : Operations, rd : Targets, rj : Registers, x : Int \cup Registers] : Encoded(i)}

Then(i, s) == <<i>> \o s

LEMMA Cons ==
  ASSUME NEW i \in Instructions, NEW s \in Seq(Instructions)
  PROVE  /\ Then(i, s) \in Seq(Instructions) /\ Then(i, s) # <<>>
         /\ Head(Then(i, s)) = i /\ Tail(Then(i, s)) = s
         /\ <<i>> = Then(i, <<>>) /\ <<>> \in Seq(Instructions)
<1>1. <<i>> \in Seq(Instructions) /\ Len(<<i>>) = 1 /\ <<i>>[1] = i /\ <<>> \in Seq(Instructions)
  OBVIOUS
<1>2. Then(i, s) \in Seq(Instructions) /\ Len(Then(i, s)) = 1 + Len(s) /\ Len(s) \in Nat
  BY <1>1, ConcatProperties, LenProperties DEF Then
<1>3. Then(i, s)[1] = i /\ \A n \in 1..Len(s) : Then(i, s)[n + 1] = s[n]
  BY <1>1, <1>2, ConcatProperties DEF Then
<1>4. Then(i, s) # <<>>
  BY <1>2
<1>5. /\ Tail(Then(i, s)) \in Seq(Instructions) /\ Len(Tail(Then(i, s))) = Len(s)
      /\ \A n \in 1..Len(s) : Tail(Then(i, s))[n] = Then(i, s)[n + 1]
  BY <1>2, <1>4, HeadTailProperties
<1>6. Tail(Then(i, s)) = s
  BY <1>2, <1>3, <1>5, SeqEqual
<1>7. Head(Then(i, s)) = i
  BY <1>2, <1>3, <1>4, HeadTailProperties
<1>8. <<i>> = Then(i, <<>>)
  BY <1>1, ConcatEmptySeq DEF Then
<1> QED
  BY <1>1, <1>2, <1>4, <1>6, <1>7, <1>8

LEMMA Single ==
  ASSUME NEW i \in Instructions
  PROVE  <<i>> = Then(i, <<>>) /\ <<i>> \in Seq(Instructions) /\ <<>> \in Seq(Instructions)
<1>1. PICK s : s = <<>> /\ s \in Seq(Instructions)
  BY EmptySeq
<1>2. <<i>> = Then(i, <<>>)
  BY <1>1, Cons
<1> QED
  BY <1>1, <1>2

LEMMA Shift ==
  ASSUME NEW i \in Instructions, NEW s \in Seq(Instructions), NEW t \in Seq(Instructions)
  PROVE  Then(i, s) \o t = Then(i, s \o t)
<1>1. <<i>> \in Seq(Instructions)
  OBVIOUS
<1> QED
  BY <1>1, ConcatAssociative DEF Then

LEMMA OneMore ==
  ASSUME NEW i \in Instructions, NEW s \in Seq(Instructions)
  PROVE  /\ Then(i, s) \in Seq(Instructions) /\ Then(i, s)[1] = i /\ Len(Then(i, s)) = Len(s) + 1
         /\ Len(s) >= 1 => Then(i, s)[2] = s[1]
         /\ Len(s) >= 2 => Then(i, s)[3] = s[2]
         /\ Len(s) >= 3 => Then(i, s)[4] = s[3]
<1>1. <<i>> \in Seq(Instructions) /\ Len(<<i>>) = 1 /\ <<i>>[1] = i
  OBVIOUS
<1>2. Len(s) \in Nat
  BY LenProperties
<1>3. /\ Then(i, s) \in Seq(Instructions) /\ Len(Then(i, s)) = 1 + Len(s)
      /\ \A n \in 1..1 + Len(s) : Then(i, s)[n] = IF n <= 1 THEN <<i>>[n] ELSE s[n - 1]
  BY <1>1, <1>2, ConcatProperties DEF Then
<1> QED
  BY <1>1, <1>2, <1>3

LEMMA Pairs ==
  ASSUME NEW i \in Instructions, NEW j \in Instructions
  PROVE  <<i, j>> = Then(i, <<j>>) /\ <<i, j>> \in Seq(Instructions)
<1> DEFINE t == <<j>>
           s == Then(i, t)
<1>1. t \in Seq(Instructions) /\ Len(t) = 1 /\ t[1] = j
  OBVIOUS
<1>2. <<i, j>> \in Seq(Instructions)
  OBVIOUS
<1> HIDE DEF t
<1>3. /\ s \in Seq(Instructions) /\ Len(s) = Len(t) + 1 /\ s[1] = i
      /\ Len(t) >= 1 => s[2] = t[1]
      /\ Len(t) >= 2 => s[3] = t[2]
      /\ Len(t) >= 3 => s[4] = t[3]
  BY <1>1, OneMore
<1> HIDE DEF s
<1>4. s \in Seq(Instructions) /\ Len(s) = 2 /\ s[1] = i /\ s[2] = j
  BY <1>1, <1>3
<1>5. <<i, j>> = s
  BY <1>2, <1>4, SeqEqual
<1> QED
  BY <1>2, <1>5 DEF s, t

LEMMA Triples ==
  ASSUME NEW i \in Instructions, NEW j \in Instructions, NEW k \in Instructions
  PROVE  <<i, j, k>> = Then(i, <<j, k>>) /\ <<i, j, k>> \in Seq(Instructions)
<1> DEFINE t == <<j, k>>
           s == Then(i, t)
<1>1. t \in Seq(Instructions) /\ Len(t) = 2 /\ t[1] = j /\ t[2] = k
  OBVIOUS
<1>2. <<i, j, k>> \in Seq(Instructions)
  OBVIOUS
<1> HIDE DEF t
<1>3. /\ s \in Seq(Instructions) /\ Len(s) = Len(t) + 1 /\ s[1] = i
      /\ Len(t) >= 1 => s[2] = t[1]
      /\ Len(t) >= 2 => s[3] = t[2]
      /\ Len(t) >= 3 => s[4] = t[3]
  BY <1>1, OneMore
<1> HIDE DEF s
<1>4. s \in Seq(Instructions) /\ Len(s) = 3 /\ s[1] = i /\ s[2] = j /\ s[3] = k
  BY <1>1, <1>3
<1>5. <<i, j, k>> = s
  BY <1>2, <1>4, SeqEqual
<1> QED
  BY <1>2, <1>5 DEF s, t

LEMMA Quadruples ==
  ASSUME NEW i \in Instructions, NEW j \in Instructions, NEW k \in Instructions, NEW l \in Instructions
  PROVE  <<i, j, k, l>> = Then(i, <<j, k, l>>) /\ <<i, j, k, l>> \in Seq(Instructions)
<1> DEFINE t == <<j, k, l>>
           s == Then(i, t)
<1>1. t \in Seq(Instructions) /\ Len(t) = 3 /\ t[1] = j /\ t[2] = k /\ t[3] = l
  OBVIOUS
<1>2. <<i, j, k, l>> \in Seq(Instructions)
  OBVIOUS
<1> HIDE DEF t
<1>3. /\ s \in Seq(Instructions) /\ Len(s) = Len(t) + 1 /\ s[1] = i
      /\ Len(t) >= 1 => s[2] = t[1]
      /\ Len(t) >= 2 => s[3] = t[2]
      /\ Len(t) >= 3 => s[4] = t[3]
  BY <1>1, OneMore
<1> HIDE DEF s
<1>4. s \in Seq(Instructions) /\ Len(s) = 4 /\ s[1] = i /\ s[2] = j /\ s[3] = k /\ s[4] = l
  BY <1>1, <1>3
<1>5. <<i, j, k, l>> = s
  BY <1>2, <1>4, SeqEqual
<1> QED
  BY <1>2, <1>5 DEF s, t

----------------------------------------------------------------------------
(* What the generator emits. *)

Upper(val, r) == I("lu12i.w", r, r, val \div 4096)
Lower(val, r) == I("ori", r, r, val % 4096)
Sign32(val, r) == I("lu32i.d", r, r, High(val))
Sign52(val, r) == I("lu52i.d", r, r, High(val))
Sum(rd, rj, r) == I("add.d", rd, rj, r)
Difference(rd, rj, r) == I("sub.d", rd, rj, r)

LEMMA Fields ==
  ASSUME NEW op, NEW rd, NEW rj, NEW x
  PROVE  LET i == I(op, rd, rj, x) IN i.op = op /\ i.rd = rd /\ i.rj = rj /\ i.x = x
BY DEF I

LEMMA Coded ==
  ASSUME NEW op \in Operations, NEW rd \in Targets, NEW rj \in Registers, NEW x \in Int \cup Registers,
         Encoded(I(op, rd, rj, x))
  PROVE  I(op, rd, rj, x) \in Instructions
BY DEF I, Instructions

LEMMA Immediates ==
  ASSUME NEW r \in Targets, NEW q \in Registers, NEW x \in Int, IS_IMM_12(x)
  PROVE  /\ I("addi", r, q, x) \in Instructions
         /\ I("ld", r, q, x) \in Instructions
         /\ I("st", r, q, x) \in Instructions
<1>1. ASSUME NEW op \in {"addi", "ld", "st"} PROVE I(op, r, q, x) \in Instructions
  <2>1. PICK i : i = I(op, r, q, x)
    OBVIOUS
  <2>2. i.op = op /\ i.x = x
    BY <2>1, Fields
  <2>3. Encoded(i)
    BY <2>2, SMT DEF Encoded
  <2>4. op \in Operations
    BY DEF Operations
  <2> QED
    BY <2>1, <2>3, <2>4, Coded
<1> QED
  BY <1>1

LEMMA ThreeRegisters ==
  ASSUME NEW r \in Targets, NEW q \in Registers, NEW s \in Registers
  PROVE  Sum(r, q, s) \in Instructions /\ Difference(r, q, s) \in Instructions
<1>1. ASSUME NEW op \in {"add.d", "sub.d"} PROVE I(op, r, q, s) \in Instructions
  <2>1. PICK i : i = I(op, r, q, s)
    OBVIOUS
  <2>2. i.op = op /\ i.x = s
    BY <2>1, Fields
  <2>3. Encoded(i)
    BY <2>2, SMT DEF Encoded
  <2>4. op \in Operations
    BY DEF Operations
  <2> QED
    BY <2>1, <2>3, <2>4, Coded
<1> QED
  BY <1>1 DEF Sum, Difference

LEMMA PartsEncoded ==
  ASSUME NEW val, Int32(val), NEW r \in Targets
  PROVE  /\ Upper(val, r) \in Instructions /\ Lower(val, r) \in Instructions
         /\ Sign32(val, r) \in Instructions /\ Sign52(val, r) \in Instructions
<1>1. High(val) \in Int /\ IS_IMM_12(High(val)) /\ -524288 <= High(val) /\ High(val) <= 524287
  BY Immediate, SMT DEF High
<1>2. r \in Registers
  BY DEF Targets
<1>3. Upper(val, r) \in Instructions
  <2>1. PICK i : i = Upper(val, r)
    OBVIOUS
  <2>2. i.op = "lu12i.w" /\ i.x = val \div 4096
    BY <2>1, Fields DEF Upper
  <2>3. Encoded(i) /\ i.x \in Int
    BY <2>2, Parts, SMT DEF Encoded
  <2> QED
    BY <1>2, <2>1, <2>2, <2>3, Coded DEF Upper, Operations
<1>4. Lower(val, r) \in Instructions
  <2>1. PICK i : i = Lower(val, r)
    OBVIOUS
  <2>2. i.op = "ori" /\ i.x = val % 4096
    BY <2>1, Fields DEF Lower
  <2>3. Encoded(i) /\ i.x \in Int
    BY <2>2, Parts, SMT DEF Encoded
  <2> QED
    BY <1>2, <2>1, <2>2, <2>3, Coded DEF Lower, Operations
<1>5. Sign32(val, r) \in Instructions
  <2>1. PICK i : i = Sign32(val, r)
    OBVIOUS
  <2>2. i.op = "lu32i.d" /\ i.x = High(val)
    BY <2>1, Fields DEF Sign32
  <2>3. Encoded(i) /\ i.x \in Int
    BY <2>2, <1>1, SMT DEF Encoded
  <2> QED
    BY <1>2, <2>1, <2>2, <2>3, Coded DEF Sign32, Operations
<1>6. Sign52(val, r) \in Instructions
  <2>1. PICK i : i = Sign52(val, r)
    OBVIOUS
  <2>2. i.op = "lu52i.d" /\ i.x = High(val)
    BY <2>1, Fields DEF Sign52
  <2>3. Encoded(i) /\ i.x \in Int
    BY <2>2, <1>1, SMT DEF Encoded
  <2> QED
    BY <1>2, <2>1, <2>2, <2>3, Coded DEF Sign52, Operations
<1> QED
  BY <1>3, <1>4, <1>5, <1>6

\* The parts of a constant, one after the other.
Load32(val, r, s) == Then(Upper(val, r), Then(Lower(val, r), s))
Load64(val, r, s) == Load32(val, r, Then(Sign32(val, r), Then(Sign52(val, r), s)))

LEMMA LoadsEmitted ==
  ASSUME NEW val, Int32(val), NEW r \in Targets, NEW s \in Seq(Instructions)
  PROVE  /\ LoadLargeInt32(val, r) \o s = Load32(val, r, s)
         /\ LoadLargeInt32(val, r) = Load32(val, r, <<>>)
         /\ LoadLargeInt64(val, r) \o s = Load64(val, r, s)
         /\ Load32(val, r, s) \in Seq(Instructions) /\ Load64(val, r, s) \in Seq(Instructions)
         /\ LoadLargeInt64(val, r) \in Seq(Instructions)
<1> DEFINE u == Upper(val, r)
           l == Lower(val, r)
           a == Sign32(val, r)
           b == Sign52(val, r)
<1>1. u \in Instructions /\ l \in Instructions /\ a \in Instructions /\ b \in Instructions
  BY PartsEncoded
<1>2. LoadLargeInt32(val, r) = <<u, l>>
  BY DEF LoadLargeInt32, Upper, Lower
<1>3. LoadLargeInt64(val, r) = <<u, l>> \o <<a, b>>
  BY <1>2 DEF LoadLargeInt64, Sign32, Sign52
<1> HIDE DEF u, l, a, b
<1>4. <<u, l>> = Then(u, Then(l, <<>>)) /\ <<a, b>> = Then(a, Then(b, <<>>))
      /\ <<u, l>> \in Seq(Instructions) /\ <<a, b>> \in Seq(Instructions)
  BY <1>1, Cons, Pairs
<1>5. ASSUME NEW i \in Instructions, NEW j \in Instructions, NEW t \in Seq(Instructions)
      PROVE  /\ <<i, j>> \o t = Then(i, Then(j, t)) /\ Then(i, Then(j, t)) \in Seq(Instructions)
             /\ <<i, j>> \in Seq(Instructions)
  <2>1. <<i, j>> = Then(i, <<j>>) /\ <<j>> = Then(j, <<>>) /\ <<>> \in Seq(Instructions)
        /\ <<i, j>> \in Seq(Instructions)
    BY Cons, Pairs
  <2>2. <<j>> \o t = Then(j, t) /\ <<j>> \in Seq(Instructions)
    BY <2>1, Cons DEF Then
  <2>3. <<i, j>> \o t = Then(i, <<j>> \o t)
    <3>1. PICK x : x = <<j>>
      OBVIOUS
    <3>2. x \in Seq(Instructions)
      BY <2>2, <3>1
    <3>3. Then(i, x) \o t = Then(i, x \o t)
      BY <3>2, Shift
    <3>4. <<i, j>> = Then(i, x)
      BY <2>1, <3>1
    <3> QED
      BY <3>1, <3>3, <3>4
  <2> QED
    BY <2>1, <2>2, <2>3, Cons
<1>6. LoadLargeInt32(val, r) \o s = Then(u, Then(l, s)) /\ Then(u, Then(l, s)) \in Seq(Instructions)
  BY <1>1, <1>2, <1>5
<1>7. <<a, b>> \o s = Then(a, Then(b, s)) /\ <<a, b>> \o s \in Seq(Instructions)
  BY <1>1, <1>5
<1>8. LoadLargeInt64(val, r) \o s = <<u, l>> \o (<<a, b>> \o s)
  BY <1>3, <1>4, ConcatAssociative
<1>9. LoadLargeInt64(val, r) \o s = Then(u, Then(l, Then(a, Then(b, s))))
  <2>1. PICK t : t = <<a, b>> \o s
    OBVIOUS
  <2>2. t \in Seq(Instructions)
    BY <1>7, <2>1
  <2>3. <<u, l>> \o t = Then(u, Then(l, t))
    BY <1>1, <1>5, <2>2
  <2> QED
    BY <1>7, <1>8, <2>1, <2>3
<1>10. Then(u, Then(l, Then(a, Then(b, s)))) \in Seq(Instructions)
  BY <1>1, <1>5, <1>7
<1>11. LoadLargeInt64(val, r) \in Seq(Instructions)
  BY <1>3, <1>4, ConcatProperties
<1> QED
  BY <1>2, <1>4, <1>6, <1>9, <1>10, <1>11 DEF Load32, Load64, u, l, a, b

LEMMA LoadTyped ==
  ASSUME NEW val, Int32(val), NEW r \in Targets
  PROVE  LoadLargeInt64(val, r) \in Seq(Instructions)
<1>1. PICK s : s = <<>> /\ s \in Seq(Instructions)
  BY EmptySeq
<1> QED
  BY <1>1, LoadsEmitted

\* An access to a slot, and the store that ends an alloca.
Through(op, r, offset, scratch) == Then(Sum(scratch, "fp", scratch), Then(I(op, r, scratch, 0), <<>>))
Near(op, r, offset) == Then(I(op, r, "fp", offset), <<>>)
Space(slot, size) == Then(I("addi", "t0", "t0", -size), StoreFromGreg("t0", slot))

LEMMA AccessEmitted ==
  ASSUME NEW op \in {"ld", "st"}, NEW r \in Targets, NEW scratch \in Targets, NEW offset, Int32(offset)
  PROVE  /\ Access(op, r, offset, scratch) \in Seq(Instructions)
         /\ Access(op, r, offset, scratch) =
              IF IS_IMM_12(offset) THEN Near(op, r, offset)
              ELSE Load64(offset, scratch, Through(op, r, offset, scratch))
         /\ Through(op, r, offset, scratch) \in Seq(Instructions)
<1>1. offset \in Int /\ scratch \in Registers /\ "fp" \in Registers /\ IS_IMM_12(0)
  BY Immediate DEF Int32, Targets, Registers
<1>2. PICK a : a = Sum(scratch, "fp", scratch)
  OBVIOUS
<1>3. PICK b : b = I(op, r, scratch, 0)
  OBVIOUS
<1>4. a \in Instructions
  BY <1>1, <1>2, ThreeRegisters
<1>5. b \in Instructions
  BY <1>1, <1>3, Immediates
<1>6. <<a, b>> = Then(a, Then(b, <<>>)) /\ <<a, b>> \in Seq(Instructions)
  BY <1>4, <1>5, Pairs, Single
<1>7. CASE IS_IMM_12(offset)
  <2>1. PICK c : c = I(op, r, "fp", offset)
    OBVIOUS
  <2>2. c \in Instructions
    BY <1>1, <1>7, <2>1, Immediates
  <2>3. <<c>> = Then(c, <<>>) /\ <<c>> \in Seq(Instructions)
    BY <2>2, Single
  <2> QED
    BY <1>2, <1>3, <1>6, <1>7, <2>1, <2>3 DEF Access, Near, Through
<1>8. CASE ~ IS_IMM_12(offset)
  <2>1. Access(op, r, offset, scratch) = LoadLargeInt64(offset, scratch) \o <<a, b>>
    BY <1>2, <1>3, <1>8 DEF Access, Sum
  <2>2. LoadLargeInt64(offset, scratch) \o <<a, b>> = Load64(offset, scratch, <<a, b>>)
        /\ Load64(offset, scratch, <<a, b>>) \in Seq(Instructions)
    BY <1>6, LoadsEmitted
  <2>3. Through(op, r, offset, scratch) = <<a, b>>
    BY <1>2, <1>3, <1>6 DEF Through
  <2> QED
    BY <1>6, <1>8, <2>1, <2>2, <2>3
<1> QED
  BY <1>7, <1>8

LEMMA ConstantEmitted ==
  ASSUME NEW c, Int32(c)
  PROVE  /\ LoadConstant(c, "t0") \in Seq(Instructions)
         /\ LoadConstant(c, "t0") =
              IF IS_IMM_12(c) THEN Then(I("addi", "t0", "zero", c), <<>>) ELSE Load32(c, "t0", <<>>)
<1>1. c \in Int /\ "t0" \in Targets /\ "zero" \in Registers /\ <<>> \in Seq(Instructions)
  BY DEF Int32, Targets, Registers
<1>2. CASE IS_IMM_12(c)
  <2>1. PICK i : i = I("addi", "t0", "zero", c)
    OBVIOUS
  <2>2. i \in Instructions
    BY <1>1, <1>2, <2>1, Immediates
  <2> QED
    BY <1>2, <2>1, <2>2, Single DEF LoadConstant
<1>3. CASE ~ IS_IMM_12(c)
  BY <1>1, <1>3, LoadsEmitted DEF LoadConstant
<1> QED
  BY <1>2, <1>3

LEMMA AllocaEmitted ==
  ASSUME NEW f, NEW k, NEW slot, NEW size, slot = PointerSlot(f, k), size = f[k], Int32(slot), Small(size)
  PROVE  /\ AllocaCode(f, k) \in Seq(Instructions)
         /\ AllocaCode(f, k) =
              IF IS_IMM_12(slot) THEN Then(I("addi", "t0", "fp", slot), Space(slot, size))
              ELSE Load64(slot, "t0", Then(Sum("t0", "fp", "t0"), Space(slot, size)))
         /\ Space(slot, size) \in Seq(Instructions)
         /\ Then(Sum("t0", "fp", "t0"), Space(slot, size)) \in Seq(Instructions)
<1>1. slot \in Int /\ "t0" \in Targets /\ "t8" \in Targets /\ "t0" \in Registers /\ "fp" \in Registers
  BY DEF Int32, Targets, Registers
<1>2. -size \in Int /\ IS_IMM_12(-size)
  BY Immediate DEF Small
<1>3. PICK i : i = I("addi", "t0", "t0", -size)
  OBVIOUS
<1>4. PICK s : s = StoreFromGreg("t0", slot)
  OBVIOUS
<1>5. i \in Instructions
  BY <1>1, <1>2, <1>3, Immediates
<1>6. s \in Seq(Instructions)
  BY <1>1, <1>4, AccessEmitted DEF StoreFromGreg
<1>7. <<i>> \o s = Then(i, s) /\ Then(i, s) \in Seq(Instructions) /\ <<i>> \in Seq(Instructions)
  BY <1>5, <1>6, Cons DEF Then
<1>8. Space(slot, size) = Then(i, s)
  BY <1>3, <1>4 DEF Space
<1>9. PICK a : a = Sum("t0", "fp", "t0")
  OBVIOUS
<1>10. a \in Instructions
  BY <1>1, <1>9, ThreeRegisters
<1>11. Then(a, Then(i, s)) \in Seq(Instructions)
  BY <1>7, <1>10, Cons
<1>12. CASE IS_IMM_12(slot)
  <2>1. PICK c : c = I("addi", "t0", "fp", slot)
    OBVIOUS
  <2>2. c \in Instructions
    BY <1>1, <1>12, <2>1, Immediates
  <2>3. AllocaCode(f, k) = (<<c>> \o <<i>>) \o s
    BY <1>3, <1>4, <1>12, <2>1 DEF AllocaCode
  <2>4. <<c>> \in Seq(Instructions)
    BY <2>2
  <2>5. AllocaCode(f, k) = <<c>> \o (<<i>> \o s)
    BY <1>6, <1>7, <2>3, <2>4, ConcatAssociative
  <2>6. AllocaCode(f, k) = Then(c, Then(i, s))
    BY <1>7, <2>5 DEF Then
  <2>7. AllocaCode(f, k) \in Seq(Instructions)
    BY <1>7, <2>2, <2>6, Cons
  <2> QED
    BY <1>7, <1>8, <1>9, <1>11, <1>12, <2>1, <2>6, <2>7
<1>13. CASE ~ IS_IMM_12(slot)
  <2> DEFINE l == LoadLargeInt64(slot, "t0")
  <2>1. AllocaCode(f, k) = ((l \o <<a>>) \o <<i>>) \o s
    BY <1>3, <1>4, <1>9, <1>13 DEF AllocaCode, Sum
  <2>2. l \in Seq(Instructions) /\ <<a>> \in Seq(Instructions)
    BY <1>1, <1>10, LoadTyped
  <2>3. l \o Then(a, Then(i, s)) = Load64(slot, "t0", Then(a, Then(i, s)))
        /\ Load64(slot, "t0", Then(a, Then(i, s))) \in Seq(Instructions)
    BY <1>1, <1>11, LoadsEmitted
  <2> HIDE DEF l
  <2>4. l \o <<a>> \in Seq(Instructions) /\ <<i>> \o s \in Seq(Instructions)
    BY <1>7, <2>2, ConcatProperties
  <2>5. ((l \o <<a>>) \o <<i>>) \o s = (l \o <<a>>) \o (<<i>> \o s)
    BY <1>6, <1>7, <2>4, ConcatAssociative
  <2>6. (l \o <<a>>) \o (<<i>> \o s) = l \o (<<a>> \o (<<i>> \o s))
    BY <2>2, <2>4, ConcatAssociative
  <2>7. <<a>> \o (<<i>> \o s) = Then(a, Then(i, s))
    BY <1>7 DEF Then
  <2>8. AllocaCode(f, k) = Load64(slot, "t0", Then(a, Then(i, s)))
    BY <2>1, <2>3, <2>5, <2>6, <2>7
  <2> QED
    BY <1>7, <1>8, <1>9, <1>11, <1>13, <2>3, <2>8
<1> QED
  BY <1>12, <1>13

\* The saved registers, and what makes and removes a frame of a given size.
SaveRa == I("st", "ra", "sp", -8)
SaveFp == I("st", "fp", "sp", -16)
LoadRa == I("ld", "ra", "sp", -8)
LoadFp == I("ld", "fp", "sp", -16)
Restore == Then(LoadRa, Then(LoadFp, <<>>))

NearFrame(size) == Then(I("addi", "fp", "sp", 0), Then(I("addi", "sp", "sp", -size), <<>>))
FarFrame == Then(Difference("sp", "sp", "t0"), Then(Sum("fp", "sp", "t0"), <<>>))

\* A frame that fits in both directions or in none.
Sized(f) == FrameSize(f) \in Nat /\ Int32(FrameSize(f)) /\ FrameSize(f) # 2048

Four(a, b, c, d) ==
  /\ <<a, b, c, d>> = Then(a, Then(b, Then(c, Then(d, <<>>))))
  /\ <<a, b, c, d>> \in Seq(Instructions) /\ Then(b, Then(c, Then(d, <<>>))) \in Seq(Instructions)
  /\ Then(c, Then(d, <<>>)) \in Seq(Instructions) /\ Then(d, <<>>) \in Seq(Instructions)

LEMMA FourEmitted ==
  ASSUME NEW a \in Instructions, NEW b \in Instructions, NEW c \in Instructions, NEW d \in Instructions
  PROVE  Four(a, b, c, d)
<1>1. <<d>> = Then(d, <<>>) /\ <<d>> \in Seq(Instructions)
  BY Single
<1>2. <<c, d>> = Then(c, <<d>>) /\ <<c, d>> \in Seq(Instructions)
  BY Pairs
<1>3. <<b, c, d>> = Then(b, <<c, d>>) /\ <<b, c, d>> \in Seq(Instructions)
  BY Triples
<1>4. <<a, b, c, d>> = Then(a, <<b, c, d>>) /\ <<a, b, c, d>> \in Seq(Instructions)
  BY Quadruples
<1> QED
  BY <1>1, <1>2, <1>3, <1>4 DEF Four

LEMMA FrameCode ==
  ASSUME NEW f, Sized(f)
  PROVE  /\ SaveRa \in Instructions /\ SaveFp \in Instructions /\ LoadRa \in Instructions /\ LoadFp \in Instructions
         /\ I("addi", "fp", "sp", 0) \in Instructions
         /\ Difference("sp", "sp", "t0") \in Instructions /\ Sum("fp", "sp", "t0") \in Instructions
         /\ Sum("sp", "sp", "t0") \in Instructions
         /\ IS_IMM_12(-FrameSize(f)) => /\ I("addi", "sp", "sp", -FrameSize(f)) \in Instructions
                                        /\ I("addi", "sp", "sp", FrameSize(f)) \in Instructions
         /\ FrameSize(f) \in Int /\ -FrameSize(f) \in Int
<1>1. /\ {"ra", "fp", "sp", "t0"} \subseteq Targets /\ {"ra", "fp", "sp", "t0"} \subseteq Registers
      /\ -8 \in Int /\ -16 \in Int /\ 0 \in Int
  BY DEF Targets, Registers
<1>2. IS_IMM_12(-8) /\ IS_IMM_12(-16) /\ IS_IMM_12(0)
  BY <1>1, Immediate
<1>3. SaveRa \in Instructions /\ SaveFp \in Instructions
  BY <1>1, <1>2, Immediates DEF SaveRa, SaveFp
<1>4. LoadRa \in Instructions /\ LoadFp \in Instructions
  BY <1>1, <1>2, Immediates DEF LoadRa, LoadFp
<1>5. I("addi", "fp", "sp", 0) \in Instructions
  BY <1>1, <1>2, Immediates
<1>6. /\ Difference("sp", "sp", "t0") \in Instructions /\ Sum("fp", "sp", "t0") \in Instructions
      /\ Sum("sp", "sp", "t0") \in Instructions
  BY <1>1, ThreeRegisters
<1>7. FrameSize(f) \in Int /\ -FrameSize(f) \in Int
  BY DEF Sized
<1>8. ASSUME IS_IMM_12(-FrameSize(f)) PROVE IS_IMM_12(FrameSize(f))
  <2>1. -FrameSize(f) >= -2048
    BY <1>7, <1>8, Immediate
  <2>2. FrameSize(f) >= -2048 /\ FrameSize(f) <= 2047
    BY <2>1 DEF Sized
  <2> QED
    BY <1>7, <2>2, Immediate
<1>9. ASSUME IS_IMM_12(-FrameSize(f))
      PROVE  /\ I("addi", "sp", "sp", -FrameSize(f)) \in Instructions
             /\ I("addi", "sp", "sp", FrameSize(f)) \in Instructions
  BY <1>1, <1>7, <1>8, <1>9, Immediates
<1> QED
  BY <1>3, <1>4, <1>5, <1>6, <1>7, <1>9

LEMMA PrologueEmitted ==
  ASSUME NEW f, Sized(f)
  PROVE  /\ Prologue(f) \in Seq(Instructions)
         /\ Prologue(f) =
              IF IS_IMM_12(-FrameSize(f)) THEN Then(SaveRa, Then(SaveFp, NearFrame(FrameSize(f))))
              ELSE Load64(FrameSize(f), "t0", Then(SaveRa, Then(SaveFp, FarFrame)))
         /\ Then(SaveRa, Then(SaveFp, FarFrame)) \in Seq(Instructions)
         /\ Then(SaveFp, FarFrame) \in Seq(Instructions) /\ FarFrame \in Seq(Instructions)
         /\ IS_IMM_12(-FrameSize(f)) => /\ Then(SaveFp, NearFrame(FrameSize(f))) \in Seq(Instructions)
                                        /\ NearFrame(FrameSize(f)) \in Seq(Instructions)
<1> DEFINE z == FrameSize(f)
           a == SaveRa
           b == SaveFp
           c == I("addi", "fp", "sp", 0)
           d == I("addi", "sp", "sp", -z)
           e == Difference("sp", "sp", "t0")
           g == Sum("fp", "sp", "t0")
<1>1. /\ a \in Instructions /\ b \in Instructions /\ c \in Instructions /\ e \in Instructions /\ g \in Instructions
      /\ IS_IMM_12(-z) => d \in Instructions
  BY FrameCode
<1>2. Prologue(f) = IF IS_IMM_12(-z) THEN <<a, b, c, d>> ELSE LoadLargeInt64(z, "t0") \o <<a, b, e, g>>
  BY DEF Prologue, SaveRa, SaveFp, Sum, Difference
<1>3. NearFrame(z) = Then(c, Then(d, <<>>)) /\ FarFrame = Then(e, Then(g, <<>>))
  BY DEF NearFrame, FarFrame
<1>4. Int32(z) /\ "t0" \in Targets
  BY DEF Sized, Targets, Registers
<1> HIDE DEF a, b, c, d, e, g, z
<1>5. /\ <<a, b, e, g>> = Then(a, Then(b, FarFrame)) /\ <<a, b, e, g>> \in Seq(Instructions)
      /\ Then(b, FarFrame) \in Seq(Instructions) /\ FarFrame \in Seq(Instructions)
  <2>1. Four(a, b, e, g)
    BY <1>1, FourEmitted
  <2> QED
    BY <1>3, <2>1 DEF Four
<1>6. CASE IS_IMM_12(-z)
  <2>1. /\ <<a, b, c, d>> = Then(a, Then(b, NearFrame(z))) /\ <<a, b, c, d>> \in Seq(Instructions)
        /\ Then(b, NearFrame(z)) \in Seq(Instructions) /\ NearFrame(z) \in Seq(Instructions)
    <3>1. Four(a, b, c, d)
      BY <1>1, <1>6, FourEmitted
    <3> QED
      BY <1>3, <3>1 DEF Four
  <2> QED
    BY <1>2, <1>5, <1>6, <2>1 DEF a, b, z
<1>7. CASE ~ IS_IMM_12(-z)
  <2>1. PICK s : s = <<a, b, e, g>>
    OBVIOUS
  <2>2. s \in Seq(Instructions)
    BY <1>5, <2>1
  <2>3. LoadLargeInt64(z, "t0") \o s = Load64(z, "t0", s) /\ Load64(z, "t0", s) \in Seq(Instructions)
    BY <1>4, <2>2, LoadsEmitted
  <2>4. Prologue(f) = LoadLargeInt64(z, "t0") \o s
    BY <1>2, <1>7, <2>1
  <2> QED
    BY <1>5, <1>7, <2>1, <2>3, <2>4 DEF a, b, z
<1> QED
  BY <1>6, <1>7

LEMMA EpilogueEmitted ==
  ASSUME NEW f, Sized(f)
  PROVE  /\ Epilogue(f) \in Seq(Instructions)
         /\ Epilogue(f) =
              IF IS_IMM_12(-FrameSize(f)) THEN Then(I("addi", "sp", "sp", FrameSize(f)), Restore)
              ELSE Load64(FrameSize(f), "t0", Then(Sum("sp", "sp", "t0"), Restore))
         /\ Then(Sum("sp", "sp", "t0"), Restore) \in Seq(Instructions)
         /\ Restore \in Seq(Instructions)
<1> DEFINE z == FrameSize(f)
           a == LoadRa
           b == LoadFp
           c == I("addi", "sp", "sp", z)
           d == Sum("sp", "sp", "t0")
<1>1. /\ a \in Instructions /\ b \in Instructions /\ d \in Instructions
      /\ IS_IMM_12(-z) => c \in Instructions
  BY FrameCode
<1>2. Epilogue(f) = (IF IS_IMM_12(-z) THEN <<c>> ELSE LoadLargeInt64(z, "t0") \o <<d>>) \o <<a, b>>
  BY DEF Epilogue, LoadRa, LoadFp, Sum
<1>3. Restore = Then(a, Then(b, <<>>))
  BY DEF Restore
<1>4. Int32(z) /\ "t0" \in Targets
  BY DEF Sized, Targets, Registers
<1> HIDE DEF a, b, c, d, z
<1>5. <<a, b>> = Restore /\ Restore \in Seq(Instructions)
  BY <1>1, <1>3, Pairs, Single
<1>6. Then(d, Restore) \in Seq(Instructions)
  BY <1>1, <1>5, Cons
<1>7. CASE IS_IMM_12(-z)
  <2>1. Epilogue(f) = Then(c, Restore)
    BY <1>2, <1>5, <1>7 DEF Then
  <2>2. Then(c, Restore) \in Seq(Instructions)
    BY <1>1, <1>5, <1>7, Cons
  <2> QED
    BY <1>5, <1>6, <1>7, <2>1, <2>2 DEF c, d, z
<1>8. CASE ~ IS_IMM_12(-z)
  <2> DEFINE l == LoadLargeInt64(z, "t0")
  <2>1. Epilogue(f) = (l \o <<d>>) \o Restore
    BY <1>2, <1>5, <1>8
  <2>2. l \in Seq(Instructions) /\ <<d>> \in Seq(Instructions)
    BY <1>1, <1>4, LoadTyped
  <2>3. l \o Then(d, Restore) = Load64(z, "t0", Then(d, Restore))
        /\ Load64(z, "t0", Then(d, Restore)) \in Seq(Instructions)
    BY <1>4, <1>6, LoadsEmitted
  <2> HIDE DEF l
  <2>4. (l \o <<d>>) \o Restore = l \o (<<d>> \o Restore)
    BY <1>5, <2>2, ConcatAssociative
  <2>5. <<d>> \o Restore = Then(d, Restore)
    BY DEF Then
  <2> QED
    BY <1>5, <1>6, <1>8, <2>1, <2>3, <2>4, <2>5 DEF d, z
<1> QED
  BY <1>7, <1>8

----------------------------------------------------------------------------
(* What one instruction does. *)

Set(r, v) == regs' = [regs EXCEPT ![r] = v] /\ mem' = mem
Went(s) == code' = s /\ UNCHANGED <<calls, goal>>
Fetched(where) == IF where \in DOMAIN mem THEN mem[where] ELSE Beyond

LEMMA Executed ==
  ASSUME NEW op, NEW rd \in Targets, NEW rj \in Registers, NEW x, I(op, rd, rj, x) \in Instructions,
         NEW s \in Seq(Instructions), code = Then(I(op, rd, rj, x), s), Execute
  PROVE  /\ Went(s)
         /\ op = "st" => mem' = Put(regs[rj] + x, regs[rd]) /\ UNCHANGED regs
         /\ op # "st" => Set(rd, Computed(I(op, rd, rj, x)))
<1>1. PICK i : i = I(op, rd, rj, x)
  OBVIOUS
<1>2. i \in Instructions /\ i.op = op /\ i.rd = rd /\ i.rj = rj /\ i.x = x
  BY <1>1, Fields
<1>3. Head(code) = i /\ Tail(code) = s
  BY <1>1, <1>2, Cons
<1>4. code' = s /\ UNCHANGED <<calls, goal>>
  BY <1>3 DEF Execute
<1>5. CASE op = "st"
  BY <1>2, <1>3, <1>4, <1>5 DEF Execute, Went
<1>6. CASE op # "st"
  <2>1. regs' = [regs EXCEPT ![rd] = Computed(i)] /\ mem' = mem
    BY <1>2, <1>3, <1>6 DEF Execute
  <2> QED
    BY <1>1, <1>4, <1>6, <2>1 DEF Set, Went
<1> QED
  BY <1>5, <1>6

LEMMA Added ==
  ASSUME NEW rd \in Targets, NEW rj \in Registers, NEW x \in Int, IS_IMM_12(x),
         NEW s \in Seq(Instructions), code = Then(I("addi", rd, rj, x), s), Execute
  PROVE  Went(s) /\ Set(rd, regs[rj] + x)
<1>1. I("addi", rd, rj, x) \in Instructions
  BY Immediates
<1>2. Computed(I("addi", rd, rj, x)) = regs[rj] + x
  BY Fields DEF Computed
<1> QED
  BY <1>1, <1>2, Executed

LEMMA Summed ==
  ASSUME NEW rd \in Targets, NEW rj \in Registers, NEW r \in Registers, NEW s \in Seq(Instructions), Execute
  PROVE  /\ code = Then(Sum(rd, rj, r), s) => Went(s) /\ Set(rd, regs[rj] + regs[r])
         /\ code = Then(Difference(rd, rj, r), s) => Went(s) /\ Set(rd, regs[rj] - regs[r])
<1>1. Sum(rd, rj, r) \in Instructions /\ Difference(rd, rj, r) \in Instructions
  BY ThreeRegisters
<1>2. Computed(Sum(rd, rj, r)) = regs[rj] + regs[r]
  BY Fields DEF Computed, Sum
<1>3. Computed(Difference(rd, rj, r)) = regs[rj] - regs[r]
  BY Fields DEF Computed, Difference
<1>4. ASSUME code = Then(Sum(rd, rj, r), s) PROVE Went(s) /\ Set(rd, regs[rj] + regs[r])
  BY <1>1, <1>2, <1>4, Executed DEF Sum
<1>5. ASSUME code = Then(Difference(rd, rj, r), s) PROVE Went(s) /\ Set(rd, regs[rj] - regs[r])
  BY <1>1, <1>3, <1>5, Executed DEF Difference
<1> QED
  BY <1>4, <1>5

LEMMA Read ==
  ASSUME NEW rd \in Targets, NEW rj \in Registers, NEW x \in Int, IS_IMM_12(x),
         NEW s \in Seq(Instructions), code = Then(I("ld", rd, rj, x), s), Execute
  PROVE  Went(s) /\ Set(rd, Fetched(regs[rj] + x))
<1>1. I("ld", rd, rj, x) \in Instructions
  BY Immediates
<1>2. Computed(I("ld", rd, rj, x)) = Fetched(regs[rj] + x)
  BY Fields DEF Computed, Fetched
<1> QED
  BY <1>1, <1>2, Executed

LEMMA StoreWritten ==
  ASSUME NEW rd \in Targets, NEW rj \in Registers, NEW x \in Int, IS_IMM_12(x),
         NEW s \in Seq(Instructions), code = Then(I("st", rd, rj, x), s), Execute
  PROVE  Went(s) /\ mem' = Put(regs[rj] + x, regs[rd]) /\ UNCHANGED regs
<1>1. I("st", rd, rj, x) \in Instructions
  BY Immediates
<1> QED
  BY <1>1, Executed

LEMMA PartLoaded ==
  ASSUME NEW val, Int32(val), NEW r \in Targets, NEW s \in Seq(Instructions), Execute
  PROVE  /\ code = Then(Upper(val, r), s) => Went(s) /\ Set(r, (val \div 4096) * 4096)
         /\ code = Then(Lower(val, r), s) => Went(s) /\ Set(r, regs[r] + (val % 4096))
         /\ code = Then(Sign32(val, r), s) /\ regs[r] = val => Went(s) /\ Set(r, val)
         /\ code = Then(Sign52(val, r), s) /\ regs[r] = val => Went(s) /\ Set(r, val)
<1>1. /\ Upper(val, r) \in Instructions /\ Lower(val, r) \in Instructions
      /\ Sign32(val, r) \in Instructions /\ Sign52(val, r) \in Instructions
  BY PartsEncoded
<1>2. r \in Registers
  BY DEF Targets
<1>3. Computed(Upper(val, r)) = (val \div 4096) * 4096
  BY Fields DEF Computed, Upper
<1>4. Computed(Lower(val, r)) = regs[r] + (val % 4096)
  BY Fields DEF Computed, Lower
<1>5. regs[r] = val => Computed(Sign32(val, r)) = val
  BY Fields DEF Computed, Sign32, High
<1>6. regs[r] = val => Computed(Sign52(val, r)) = val
  BY Fields DEF Computed, Sign52, High
<1>7. ASSUME code = Then(Upper(val, r), s) PROVE Went(s) /\ Set(r, (val \div 4096) * 4096)
  BY <1>1, <1>2, <1>3, <1>7, Executed DEF Upper
<1>8. ASSUME code = Then(Lower(val, r), s) PROVE Went(s) /\ Set(r, regs[r] + (val % 4096))
  BY <1>1, <1>2, <1>4, <1>8, Executed DEF Lower
<1>9. ASSUME code = Then(Sign32(val, r), s), regs[r] = val PROVE Went(s) /\ Set(r, val)
  BY <1>1, <1>2, <1>5, <1>9, Executed DEF Sign32
<1>10. ASSUME code = Then(Sign52(val, r), s), regs[r] = val PROVE Went(s) /\ Set(r, val)
  BY <1>1, <1>2, <1>6, <1>10, Executed DEF Sign52
<1> QED
  BY <1>7, <1>8, <1>9, <1>10

\* An instruction that writes register r only.
Only(r) ==
  /\ regs' \in [Registers -> Int] /\ mem' = mem /\ UNCHANGED <<calls, goal>>
  /\ \A q \in Registers : q # r => regs'[q] = regs[q]

LEMMA SetOnly ==
  ASSUME NEW r \in Targets, NEW v \in Int, NEW s, regs \in [Registers -> Int], Went(s), Set(r, v)
  PROVE  Only(r) /\ regs'[r] = v /\ code' = s
BY DEF Only, Went, Set, Targets

----------------------------------------------------------------------------
(* The stages of loading a large constant. *)

Signs(val, r, s) == Then(Sign32(val, r), Then(Sign52(val, r), s))

Loading32(val, r, s) ==
  \/ code = Load32(val, r, s)
  \/ code = Then(Lower(val, r), s) /\ regs[r] = (val \div 4096) * 4096

Loading64(val, r, s) ==
  \/ Loading32(val, r, Signs(val, r, s))
  \/ code = Signs(val, r, s) /\ regs[r] = val
  \/ code = Then(Sign52(val, r), s) /\ regs[r] = val

Loaded(val, r, s) == code = s /\ regs[r] = val

LEMMA Loading32Step ==
  ASSUME NEW val, Int32(val), NEW r \in Targets, NEW s \in Seq(Instructions), regs \in [Registers -> Int],
         Loading32(val, r, s)
  PROVE  /\ code # <<>>
         /\ Execute => Only(r) /\ (Loading32(val, r, s)' \/ Loaded(val, r, s)')
<1>1. /\ Upper(val, r) \in Instructions /\ Lower(val, r) \in Instructions
  BY PartsEncoded
<1>2. Then(Lower(val, r), s) \in Seq(Instructions) /\ Then(Lower(val, r), s) # <<>>
  BY <1>1, Cons
<1>3. Load32(val, r, s) # <<>>
  BY <1>1, <1>2, Cons DEF Load32
<1>4. /\ (val \div 4096) * 4096 \in Int /\ val \in Int
      /\ (val \div 4096) * 4096 + (val % 4096) = val
  BY Parts, SMT
<1>5. ASSUME Execute, code = Load32(val, r, s)
      PROVE  Only(r) /\ Loading32(val, r, s)'
  <2>1. Went(Then(Lower(val, r), s)) /\ Set(r, (val \div 4096) * 4096)
    BY <1>2, <1>5, PartLoaded DEF Load32
  <2>2. Only(r) /\ regs'[r] = (val \div 4096) * 4096 /\ code' = Then(Lower(val, r), s)
    BY <1>4, <2>1, SetOnly
  <2> QED
    BY <2>2 DEF Loading32
<1>6. ASSUME Execute, code = Then(Lower(val, r), s), regs[r] = (val \div 4096) * 4096
      PROVE  Only(r) /\ Loaded(val, r, s)'
  <2>1. Went(s) /\ Set(r, regs[r] + (val % 4096))
    BY <1>6, PartLoaded
  <2>2. regs[r] + (val % 4096) = val
    BY <1>4, <1>6
  <2>3. Only(r) /\ regs'[r] = val /\ code' = s
    BY <1>4, <2>1, <2>2, SetOnly
  <2> QED
    BY <2>3 DEF Loaded
<1> QED
  BY <1>2, <1>3, <1>5, <1>6 DEF Loading32

LEMMA Loading64Step ==
  ASSUME NEW val, Int32(val), NEW r \in Targets, NEW s \in Seq(Instructions), regs \in [Registers -> Int],
         Loading64(val, r, s)
  PROVE  /\ code # <<>>
         /\ Execute => Only(r) /\ (Loading64(val, r, s)' \/ Loaded(val, r, s)')
<1>1. /\ Sign32(val, r) \in Instructions /\ Sign52(val, r) \in Instructions
  BY PartsEncoded
<1>2. Then(Sign52(val, r), s) \in Seq(Instructions) /\ Then(Sign52(val, r), s) # <<>>
  BY <1>1, Cons
<1>3. Signs(val, r, s) \in Seq(Instructions) /\ Signs(val, r, s) # <<>>
  BY <1>1, <1>2, Cons DEF Signs
<1>4. val \in Int
  BY Parts
<1>5. ASSUME Loading32(val, r, Signs(val, r, s))
      PROVE  code # <<>> /\ (Execute => Only(r) /\ Loading64(val, r, s)')
  <2>1. PICK t : t = Signs(val, r, s)
    OBVIOUS
  <2>2. t \in Seq(Instructions) /\ Loading32(val, r, t)
    BY <1>3, <1>5, <2>1
  <2>3. code # <<>> /\ (Execute => Only(r) /\ (Loading32(val, r, t)' \/ Loaded(val, r, t)'))
    BY <2>2, Loading32Step
  <2> QED
    BY <2>1, <2>3 DEF Loading64, Loaded
<1>6. ASSUME Execute, code = Signs(val, r, s), regs[r] = val
      PROVE  Only(r) /\ Loading64(val, r, s)'
  <2>1. Went(Then(Sign52(val, r), s)) /\ Set(r, val)
    BY <1>2, <1>6, PartLoaded DEF Signs
  <2>2. Only(r) /\ regs'[r] = val /\ code' = Then(Sign52(val, r), s)
    BY <1>4, <2>1, SetOnly
  <2> QED
    BY <2>2 DEF Loading64
<1>7. ASSUME Execute, code = Then(Sign52(val, r), s), regs[r] = val
      PROVE  Only(r) /\ Loaded(val, r, s)'
  <2>1. Went(s) /\ Set(r, val)
    BY <1>7, PartLoaded
  <2>2. Only(r) /\ regs'[r] = val /\ code' = s
    BY <1>4, <2>1, SetOnly
  <2> QED
    BY <2>2 DEF Loaded
<1> QED
  BY <1>2, <1>3, <1>5, <1>6, <1>7 DEF Loading64

----------------------------------------------------------------------------
(* The stages of an access to a slot. *)

Reaching(op, r, offset, scratch) ==
  \/ IS_IMM_12(offset) /\ code = Near(op, r, offset)
  \/ Loading64(offset, scratch, Through(op, r, offset, scratch))
  \/ Loaded(offset, scratch, Through(op, r, offset, scratch))
  \/ code = Then(I(op, r, scratch, 0), <<>>) /\ regs[scratch] = regs["fp"] + offset

\* The access itself.
Reached(op, r, where) ==
  /\ code' = <<>> /\ UNCHANGED <<calls, goal>>
  /\ op = "ld" => Set(r, Fetched(where))
  /\ op = "st" => mem' = Put(where, regs[r]) /\ UNCHANGED regs

LEMMA AccessBegins ==
  ASSUME NEW op \in {"ld", "st"}, NEW r \in Targets, NEW scratch \in Targets, NEW offset, Int32(offset),
         code' = Access(op, r, offset, scratch)
  PROVE  Reaching(op, r, offset, scratch)'
BY AccessEmitted DEF Reaching, Loading64, Loading32, Load64, Signs

LEMMA AccessStep ==
  ASSUME NEW op \in {"ld", "st"}, NEW r \in Targets, NEW scratch \in Targets, NEW offset, Int32(offset),
         scratch # "fp", regs \in [Registers -> Int], Reaching(op, r, offset, scratch)
  PROVE  /\ code # <<>>
         /\ Execute => \/ Only(scratch) /\ Reaching(op, r, offset, scratch)'
                       \/ Reached(op, r, regs["fp"] + offset)
<1>1. offset \in Int /\ scratch \in Registers /\ "fp" \in Registers /\ IS_IMM_12(0) /\ 0 \in Int
  BY Immediate DEF Int32, Targets, Registers
<1>2. PICK a : a = Sum(scratch, "fp", scratch)
  OBVIOUS
<1>3. PICK b : b = I(op, r, scratch, 0)
  OBVIOUS
<1>4. a \in Instructions
  BY <1>1, <1>2, ThreeRegisters
<1>5. b \in Instructions
  BY <1>1, <1>3, Immediates
<1>6. PICK e : e = <<>> /\ e \in Seq(Instructions)
  BY EmptySeq
<1>7. PICK u : u = Then(b, e)
  OBVIOUS
<1>8. u \in Seq(Instructions) /\ u # <<>>
  BY <1>5, <1>6, <1>7, Cons
<1>9. PICK t : t = Then(a, u)
  OBVIOUS
<1>10. t \in Seq(Instructions) /\ t # <<>> /\ t = Through(op, r, offset, scratch)
  BY <1>2, <1>3, <1>4, <1>6, <1>7, <1>8, <1>9, Cons DEF Through
<1>11. CASE IS_IMM_12(offset) /\ code = Near(op, r, offset)
  <2>1. PICK c : c = I(op, r, "fp", offset)
    OBVIOUS
  <2>2. c \in Instructions
    BY <1>1, <1>11, <2>1, Immediates
  <2>3. code = Then(c, e)
    BY <1>6, <1>11, <2>1 DEF Near
  <2>4. code # <<>>
    BY <1>6, <2>2, <2>3, Cons
  <2>5. ASSUME Execute PROVE Reached(op, r, regs["fp"] + offset)
    <3>1. CASE op = "ld"
      <4>1. Went(e) /\ Set(r, Fetched(regs["fp"] + offset))
        BY <1>1, <1>6, <1>11, <2>1, <2>3, <2>5, <3>1, Read
      <4> QED
        BY <1>6, <3>1, <4>1 DEF Reached, Went
    <3>2. CASE op = "st"
      <4>1. Went(e) /\ mem' = Put(regs["fp"] + offset, regs[r]) /\ UNCHANGED regs
        BY <1>1, <1>6, <1>11, <2>1, <2>3, <2>5, <3>2, StoreWritten
      <4> QED
        BY <1>6, <3>2, <4>1 DEF Reached, Went
    <3> QED
      BY <3>1, <3>2
  <2> QED
    BY <2>4, <2>5
<1>12. CASE Loading64(offset, scratch, Through(op, r, offset, scratch))
  <2>1. code # <<>> /\ (Execute => Only(scratch) /\ (Loading64(offset, scratch, t)' \/ Loaded(offset, scratch, t)'))
    BY <1>10, <1>12, Loading64Step
  <2> QED
    BY <1>10, <2>1 DEF Reaching
<1>13. CASE Loaded(offset, scratch, Through(op, r, offset, scratch))
  <2>1. code = t /\ regs[scratch] = offset
    BY <1>10, <1>13 DEF Loaded
  <2>2. ASSUME Execute PROVE Only(scratch) /\ Reaching(op, r, offset, scratch)'
    <3>1. Went(u) /\ Set(scratch, regs["fp"] + regs[scratch])
      BY <1>1, <1>2, <1>8, <1>9, <2>1, <2>2, Summed
    <3>2. regs["fp"] + offset \in Int
      BY <1>1
    <3>3. Only(scratch) /\ regs'[scratch] = regs["fp"] + offset /\ code' = u
      BY <2>1, <3>1, <3>2, SetOnly
    <3>4. regs'["fp"] = regs["fp"]
      BY <1>1, <3>3 DEF Only
    <3> QED
      BY <1>3, <1>6, <1>7, <3>3, <3>4 DEF Reaching
  <2> QED
    BY <1>10, <2>1, <2>2
<1>14. CASE code = Then(I(op, r, scratch, 0), <<>>) /\ regs[scratch] = regs["fp"] + offset
  <2>1. code = Then(I(op, r, scratch, 0), e) /\ code # <<>>
    BY <1>3, <1>5, <1>6, <1>14, Cons
  <2>2. regs[scratch] + 0 = regs["fp"] + offset
    BY <1>1, <1>14
  <2>3. ASSUME Execute PROVE Reached(op, r, regs["fp"] + offset)
    <3>1. CASE op = "ld"
      <4>1. Went(e) /\ Set(r, Fetched(regs[scratch] + 0))
        BY <1>1, <1>6, <2>1, <2>3, <3>1, Read
      <4> QED
        BY <1>6, <2>2, <3>1, <4>1 DEF Reached, Went
    <3>2. CASE op = "st"
      <4>1. Went(e) /\ mem' = Put(regs[scratch] + 0, regs[r]) /\ UNCHANGED regs
        BY <1>1, <1>6, <2>1, <2>3, <3>2, StoreWritten
      <4> QED
        BY <1>6, <2>2, <3>2, <4>1 DEF Reached, Went
    <3> QED
      BY <3>1, <3>2
  <2> QED
    BY <2>1, <2>3
<1> QED
  BY <1>11, <1>12, <1>13, <1>14 DEF Reaching

----------------------------------------------------------------------------
(* The stages of the instructions for each IR instruction.  c is the activation that  *)
(* runs them.                                                                         *)

\* An activation with its frame laid out, and the frame in the registers.
Valid(c) ==
  /\ c.sp \in Int /\ c.fp \in Int /\ c.ra \in Int
  /\ Sized(c.arrays)
  /\ Int32(IntegerSlot(c.arrays)) /\ IntegerSlot(c.arrays) <= -20
  /\ \A k \in DOMAIN c.arrays :
       /\ Int32(PointerSlot(c.arrays, k)) /\ PointerSlot(c.arrays, k) <= -20
       /\ Small(c.arrays[k])

Framed(c) == regs["fp"] = c.sp /\ regs["sp"] = c.sp - FrameSize(c.arrays)

\* What a step of them may do: the zero register is kept, and memory is written at most at limit.
Effect(limit) ==
  /\ regs' \in [Registers -> Int] /\ regs'["zero"] = regs["zero"] /\ UNCHANGED <<calls, goal>>
  /\ mem' = mem \/ \E where, v \in Int : where <= limit /\ mem' = Put(where, v)

\* They leave the frame where it is.
Still == regs'["sp"] = regs["sp"] /\ regs'["fp"] = regs["fp"]

IntegerMemory == \A where \in DOMAIN mem : mem[where] \in Int

LEMMA OnlyEffect ==
  ASSUME NEW r \in Targets, Only(r), NEW limit
  PROVE  Effect(limit) /\ (r # "sp" /\ r # "fp" => Still)
BY DEF Only, Effect, Still, Targets, Registers

LEMMA ReachedEffect ==
  ASSUME NEW op \in {"ld", "st"}, NEW r \in Targets, NEW where \in Int, Reached(op, r, where),
         regs \in [Registers -> Int], IntegerMemory, NEW limit \in Int, where <= limit
  PROVE  /\ Effect(limit) /\ code' = <<>>
         /\ op = "st" => UNCHANGED regs /\ where \in DOMAIN mem' /\ mem'[where] = regs[r]
         /\ op = "ld" => /\ mem' = mem /\ regs'[r] = Fetched(where)
                         /\ \A q \in Registers : q # r => regs'[q] = regs[q]
<1>1. r \in Registers /\ r # "zero" /\ "zero" \in Registers
  BY DEF Targets, Registers
<1>2. regs[r] \in Int
  BY <1>1
<1>3. Fetched(where) \in Int
  BY SMT DEF Fetched, IntegerMemory, Beyond
<1>4. CASE op = "ld"
  <2>1. Set(r, Fetched(where)) /\ code' = <<>> /\ UNCHANGED <<calls, goal>>
    BY <1>4 DEF Reached
  <2> QED
    BY <1>1, <1>3, <1>4, <2>1 DEF Set, Effect
<1>5. CASE op = "st"
  <2>1. mem' = Put(where, regs[r]) /\ UNCHANGED regs /\ code' = <<>> /\ UNCHANGED <<calls, goal>>
    BY <1>5 DEF Reached
  <2>2. where \in DOMAIN Put(where, regs[r]) /\ Put(where, regs[r])[where] = regs[r]
    BY DEF Put
  <2>3. \E x, v \in Int : x <= limit /\ mem' = Put(x, v)
    BY <1>2, <2>1
  <2> QED
    BY <1>5, <2>1, <2>2, <2>3 DEF Effect
<1> QED
  BY <1>4, <1>5

\* A constant.
ConstantAt(v) ==
  \/ IS_IMM_12(v) /\ code = Then(I("addi", "t0", "zero", v), <<>>)
  \/ Loading32(v, "t0", <<>>)
ConstantDone(v) == Loaded(v, "t0", <<>>)

LEMMA ConstantStep ==
  ASSUME NEW v, Int32(v), regs \in [Registers -> Int], regs["zero"] = 0, NEW limit, ConstantAt(v)
  PROVE  /\ code # <<>>
         /\ Execute => Effect(limit) /\ Still /\ (ConstantAt(v)' \/ ConstantDone(v)')
<1>1. PICK e : e = <<>> /\ e \in Seq(Instructions)
  BY EmptySeq
<1>2. v \in Int /\ "t0" \in Targets /\ "t0" # "sp" /\ "t0" # "fp" /\ "zero" \in Registers
  BY DEF Int32, Targets, Registers
<1>3. CASE IS_IMM_12(v) /\ code = Then(I("addi", "t0", "zero", v), <<>>)
  <2>1. I("addi", "t0", "zero", v) \in Instructions
    BY <1>2, <1>3, Immediates
  <2>2. code # <<>> /\ code = Then(I("addi", "t0", "zero", v), e)
    BY <1>1, <1>3, <2>1, Cons
  <2>3. ASSUME Execute PROVE Effect(limit) /\ Still /\ ConstantDone(v)'
    <3>1. Went(e) /\ Set("t0", regs["zero"] + v)
      BY <1>1, <1>2, <1>3, <2>2, <2>3, Added
    <3>2. regs["zero"] + v = v
      BY <1>2
    <3>3. Only("t0") /\ regs'["t0"] = v /\ code' = e
      BY <1>2, <3>1, <3>2, SetOnly
    <3> QED
      BY <1>1, <1>2, <3>3, OnlyEffect DEF ConstantDone, Loaded
  <2> QED
    BY <2>2, <2>3
<1>4. CASE Loading32(v, "t0", <<>>)
  <2>1. code # <<>> /\ (Execute => Only("t0") /\ (Loading32(v, "t0", e)' \/ Loaded(v, "t0", e)'))
    BY <1>1, <1>2, <1>4, Loading32Step
  <2> QED
    BY <1>1, <1>2, <2>1, OnlyEffect DEF ConstantAt, ConstantDone
<1> QED
  BY <1>3, <1>4 DEF ConstantAt

\* A load and a store of the slot at offset.
LoadAt(offset) == Reaching("ld", "t0", offset, "t0")
LoadDone(c, offset) == code = <<>> /\ regs["t0"] = Fetched(c.sp + offset)

StoreAt(offset, v) == regs["t0"] = v /\ Reaching("st", "t0", offset, "t8")
StoreDone(c, offset, v) == code = <<>> /\ c.sp + offset \in DOMAIN mem /\ mem[c.sp + offset] = v

LEMMA LoadStep ==
  ASSUME NEW c, Valid(c), Framed(c), NEW offset, Int32(offset), offset <= -20,
         regs \in [Registers -> Int], IntegerMemory, LoadAt(offset)
  PROVE  /\ code # <<>>
         /\ Execute => Effect(c.sp - 20) /\ Still /\ (LoadAt(offset)' \/ LoadDone(c, offset)')
<1>1. /\ "t0" \in Targets /\ "t0" # "sp" /\ "t0" # "fp" /\ "sp" \in Registers /\ "fp" \in Registers
      /\ "ld" \in {"ld", "st"}
  BY DEF Targets, Registers
<1>2. offset \in Int /\ c.sp \in Int /\ regs["fp"] = c.sp
  BY DEF Int32, Valid, Framed
<1>3. /\ code # <<>>
      /\ Execute => \/ Only("t0") /\ Reaching("ld", "t0", offset, "t0")'
                    \/ Reached("ld", "t0", c.sp + offset)
  BY <1>1, <1>2, AccessStep DEF LoadAt
<1>4. ASSUME Only("t0"), Reaching("ld", "t0", offset, "t0")'
      PROVE  Effect(c.sp - 20) /\ Still /\ LoadAt(offset)'
  BY <1>1, <1>4, OnlyEffect DEF LoadAt
<1>5. ASSUME Reached("ld", "t0", c.sp + offset)
      PROVE  Effect(c.sp - 20) /\ Still /\ LoadDone(c, offset)'
  <2>1. /\ Effect(c.sp - 20) /\ code' = <<>> /\ mem' = mem /\ regs'["t0"] = Fetched(c.sp + offset)
        /\ \A q \in Registers : q # "t0" => regs'[q] = regs[q]
    <3>1. c.sp + offset \in Int /\ c.sp - 20 \in Int /\ c.sp + offset <= c.sp - 20
      BY <1>2
    <3> QED
      BY <1>1, <1>5, <3>1, ReachedEffect
  <2> QED
    BY <1>1, <2>1 DEF LoadDone, Fetched, Still
<1> QED
  BY <1>3, <1>4, <1>5

LEMMA StoreStep ==
  ASSUME NEW c, Valid(c), Framed(c), NEW offset, Int32(offset), offset <= -20, NEW v,
         regs \in [Registers -> Int], IntegerMemory, StoreAt(offset, v)
  PROVE  /\ code # <<>>
         /\ Execute => Effect(c.sp - 20) /\ Still /\ (StoreAt(offset, v)' \/ StoreDone(c, offset, v)')
<1>1. /\ "t0" \in Targets /\ "t8" \in Targets /\ "t8" # "sp" /\ "t8" # "fp" /\ "t8" # "t0"
      /\ "sp" \in Registers /\ "fp" \in Registers /\ "t0" \in Registers /\ "st" \in {"ld", "st"}
  BY DEF Targets, Registers
<1>2. offset \in Int /\ c.sp \in Int /\ regs["fp"] = c.sp
  BY DEF Int32, Valid, Framed
<1>3. /\ code # <<>>
      /\ Execute => \/ Only("t8") /\ Reaching("st", "t0", offset, "t8")'
                    \/ Reached("st", "t0", c.sp + offset)
  BY <1>1, <1>2, AccessStep DEF StoreAt
<1>4. ASSUME Only("t8"), Reaching("st", "t0", offset, "t8")'
      PROVE  Effect(c.sp - 20) /\ Still /\ StoreAt(offset, v)'
  <2>1. regs'["t0"] = regs["t0"]
    BY <1>1, <1>4 DEF Only
  <2> QED
    BY <1>1, <1>4, <2>1, OnlyEffect DEF StoreAt
<1>5. ASSUME Reached("st", "t0", c.sp + offset)
      PROVE  Effect(c.sp - 20) /\ Still /\ StoreDone(c, offset, v)'
  <2>1. /\ Effect(c.sp - 20) /\ code' = <<>> /\ UNCHANGED regs
        /\ c.sp + offset \in DOMAIN mem' /\ mem'[c.sp + offset] = regs["t0"]
    <3>1. c.sp + offset \in Int /\ c.sp - 20 \in Int /\ c.sp + offset <= c.sp - 20
      BY <1>2
    <3> QED
      BY <1>1, <1>5, <3>1, ReachedEffect
  <2> QED
    BY <2>1 DEF StoreDone, StoreAt, Still
<1> QED
  BY <1>3, <1>4, <1>5

\* The pointer to an array of this size, which goes to its slot.
AllocaAt(c, slot, size) ==
  \/ IS_IMM_12(slot) /\ code = Then(I("addi", "t0", "fp", slot), Space(slot, size))
  \/ Loading64(slot, "t0", Then(Sum("t0", "fp", "t0"), Space(slot, size)))
  \/ Loaded(slot, "t0", Then(Sum("t0", "fp", "t0"), Space(slot, size)))
  \/ Loaded(c.sp + slot, "t0", Space(slot, size))
  \/ StoreAt(slot, c.sp + slot - size)
AllocaDone(c, slot, size) == StoreDone(c, slot, c.sp + slot - size)

LEMMA AllocaStep ==
  ASSUME NEW c, Valid(c), Framed(c), NEW k \in DOMAIN c.arrays, NEW slot, NEW size,
         slot = PointerSlot(c.arrays, k), size = c.arrays[k],
         regs \in [Registers -> Int], IntegerMemory, AllocaAt(c, slot, size)
  PROVE  /\ code # <<>>
         /\ Execute => Effect(c.sp - 20) /\ Still /\ (AllocaAt(c, slot, size)' \/ AllocaDone(c, slot, size)')
<1>1. Int32(slot) /\ slot <= -20 /\ Small(size)
  BY DEF Valid
<1>2. slot \in Int /\ size \in Int /\ -size \in Int /\ IS_IMM_12(-size) /\ c.sp \in Int /\ regs["fp"] = c.sp
  <2>1. slot \in Int /\ size \in Int /\ -size \in Int /\ -size >= -2048 /\ -size <= 2047
    BY <1>1, SMT DEF Int32, Small
  <2> QED
    BY <2>1, Immediate DEF Valid, Framed
<1>3. /\ "t0" \in Targets /\ "t8" \in Targets /\ "t0" # "sp" /\ "t0" # "fp"
      /\ "fp" \in Registers /\ "t0" \in Registers /\ "st" \in {"ld", "st"}
  BY DEF Targets, Registers
<1>4. PICK s : s = Space(slot, size)
  OBVIOUS
<1>5. PICK t : t = Then(Sum("t0", "fp", "t0"), s)
  OBVIOUS
<1>6. PICK a : a = StoreFromGreg("t0", slot)
  OBVIOUS
<1>7. s \in Seq(Instructions) /\ t \in Seq(Instructions)
  BY <1>1, <1>4, <1>5, AllocaEmitted
<1>8. a \in Seq(Instructions) /\ a = Access("st", "t0", slot, "t8")
  BY <1>1, <1>3, <1>6, AccessEmitted DEF StoreFromGreg
<1>9. PICK i : i = I("addi", "t0", "t0", -size)
  OBVIOUS
<1>10. i \in Instructions /\ s = Then(i, a)
  BY <1>2, <1>3, <1>4, <1>6, <1>9, Immediates DEF Space
<1>11. PICK b : b = Sum("t0", "fp", "t0")
  OBVIOUS
<1>12. b \in Instructions /\ t = Then(b, s)
  BY <1>3, <1>5, <1>11, ThreeRegisters
<1>13. PICK j : j = I("addi", "t0", "fp", slot)
  OBVIOUS
<1>14. s # <<>> /\ t # <<>>
  BY <1>7, <1>8, <1>10, <1>12, Cons
<1>15. CASE IS_IMM_12(slot) /\ code = Then(I("addi", "t0", "fp", slot), Space(slot, size))
  <2>1. j \in Instructions /\ code = Then(j, s)
    BY <1>2, <1>3, <1>4, <1>13, <1>15, Immediates
  <2>2. code # <<>>
    BY <1>7, <2>1, Cons
  <2>3. ASSUME Execute PROVE Effect(c.sp - 20) /\ Still /\ AllocaAt(c, slot, size)'
    <3>1. Went(s) /\ Set("t0", regs["fp"] + slot)
      BY <1>2, <1>3, <1>4, <1>7, <1>15, <2>3, Added
    <3>2. regs["fp"] + slot = c.sp + slot /\ c.sp + slot \in Int
      BY <1>2
    <3>3. Only("t0") /\ regs'["t0"] = c.sp + slot /\ code' = s
      BY <1>3, <3>1, <3>2, SetOnly
    <3> QED
      BY <1>3, <1>4, <3>3, OnlyEffect DEF AllocaAt, Loaded
  <2> QED
    BY <2>2, <2>3
<1>16. CASE Loading64(slot, "t0", Then(Sum("t0", "fp", "t0"), Space(slot, size)))
  <2>1. code # <<>> /\ (Execute => Only("t0") /\ (Loading64(slot, "t0", t)' \/ Loaded(slot, "t0", t)'))
    BY <1>1, <1>3, <1>4, <1>5, <1>7, <1>16, Loading64Step
  <2> QED
    BY <1>3, <1>4, <1>5, <2>1, OnlyEffect DEF AllocaAt
<1>17. CASE Loaded(slot, "t0", Then(Sum("t0", "fp", "t0"), Space(slot, size)))
  <2>1. code = t /\ regs["t0"] = slot
    BY <1>4, <1>5, <1>17 DEF Loaded
  <2>2. ASSUME Execute PROVE Effect(c.sp - 20) /\ Still /\ AllocaAt(c, slot, size)'
    <3>1. Went(s) /\ Set("t0", regs["fp"] + regs["t0"])
      BY <1>3, <1>5, <1>7, <2>1, <2>2, Summed
    <3>2. regs["fp"] + regs["t0"] = c.sp + slot /\ c.sp + slot \in Int
      BY <1>2, <2>1
    <3>3. Only("t0") /\ regs'["t0"] = c.sp + slot /\ code' = s
      BY <1>3, <3>1, <3>2, SetOnly
    <3> QED
      BY <1>3, <1>4, <3>3, OnlyEffect DEF AllocaAt, Loaded
  <2> QED
    BY <1>14, <2>1, <2>2
<1>18. CASE Loaded(c.sp + slot, "t0", Space(slot, size))
  <2>1. code = s /\ regs["t0"] = c.sp + slot
    BY <1>4, <1>18 DEF Loaded
  <2>2. ASSUME Execute PROVE Effect(c.sp - 20) /\ Still /\ AllocaAt(c, slot, size)'
    <3>1. Went(a) /\ Set("t0", regs["t0"] + (-size))
      BY <1>2, <1>3, <1>8, <1>9, <1>10, <2>1, <2>2, Added
    <3>2. regs["t0"] + (-size) = c.sp + slot - size /\ c.sp + slot - size \in Int
      BY <1>2, <2>1
    <3>3. Only("t0") /\ regs'["t0"] = c.sp + slot - size /\ code' = a
      BY <1>3, <3>1, <3>2, SetOnly
    <3>4. Reaching("st", "t0", slot, "t8")'
      BY <1>1, <1>3, <1>8, <3>3, AccessBegins
    <3> QED
      BY <1>3, <3>3, <3>4, OnlyEffect DEF AllocaAt, StoreAt
  <2> QED
    BY <1>14, <2>1, <2>2
<1>19. CASE StoreAt(slot, c.sp + slot - size)
  <2>1. PICK v : v = c.sp + slot - size
    OBVIOUS
  <2>2. /\ code # <<>>
        /\ Execute => Effect(c.sp - 20) /\ Still /\ (StoreAt(slot, v)' \/ StoreDone(c, slot, v)')
    BY <1>1, <1>19, <2>1, StoreStep
  <2> QED
    BY <2>1, <2>2 DEF AllocaAt, AllocaDone
<1> QED
  BY <1>15, <1>16, <1>17, <1>18, <1>19 DEF AllocaAt

----------------------------------------------------------------------------
(* The stages of a prologue and of an epilogue.  size is that of the frame. *)

RaSaved(c) == c.sp - 8 \in DOMAIN mem /\ mem[c.sp - 8] = c.ra
FpSaved(c) == c.sp - 16 \in DOMAIN mem /\ mem[c.sp - 16] = c.fp
Entered(c) == regs["sp"] = c.sp /\ regs["fp"] = c.fp /\ regs["ra"] = c.ra

Making(size) == IF IS_IMM_12(-size) THEN NearFrame(size) ELSE FarFrame

\* $t0 holds a size that does not fit.
Sizing(size) == ~ IS_IMM_12(-size) => regs["t0"] = size

PrologueAt(c, size) ==
  \/ /\ ~ IS_IMM_12(-size) /\ Loading64(size, "t0", Then(SaveRa, Then(SaveFp, Making(size))))
     /\ Entered(c)
  \/ code = Then(SaveRa, Then(SaveFp, Making(size))) /\ Entered(c) /\ Sizing(size)
  \/ code = Then(SaveFp, Making(size)) /\ Entered(c) /\ Sizing(size) /\ RaSaved(c)
  \/ code = Making(size) /\ Entered(c) /\ Sizing(size) /\ RaSaved(c) /\ FpSaved(c)
  \/ /\ IS_IMM_12(-size) /\ code = Then(I("addi", "sp", "sp", -size), <<>>)
     /\ regs["sp"] = c.sp /\ regs["fp"] = c.sp /\ RaSaved(c) /\ FpSaved(c)
  \/ /\ ~ IS_IMM_12(-size) /\ code = Then(Sum("fp", "sp", "t0"), <<>>)
     /\ regs["sp"] = c.sp - size /\ regs["t0"] = size /\ RaSaved(c) /\ FpSaved(c)
PrologueDone(c) == code = <<>> /\ Framed(c) /\ RaSaved(c) /\ FpSaved(c)

LEMMA PrologueStep ==
  ASSUME NEW c, Valid(c), NEW size, size = FrameSize(c.arrays), regs \in [Registers -> Int],
         PrologueAt(c, size)
  PROVE  /\ code # <<>>
         /\ Execute => Effect(c.sp - 8) /\ (PrologueAt(c, size)' \/ PrologueDone(c)')
<1>1. /\ {"t0", "sp", "fp", "ra"} \subseteq Targets /\ {"t0", "sp", "fp", "ra"} \subseteq Registers
      /\ -8 \in Int /\ -16 \in Int /\ 0 \in Int
  BY DEF Targets, Registers
<1>2. /\ c.sp \in Int /\ c.fp \in Int /\ c.ra \in Int /\ Sized(c.arrays)
      /\ size \in Nat /\ -size \in Int /\ Int32(size)
      /\ IS_IMM_12(-8) /\ IS_IMM_12(-16) /\ IS_IMM_12(0)
  BY <1>1, Immediate DEF Valid, Sized
<1>3. PICK e : e = <<>> /\ e \in Seq(Instructions)
  BY EmptySeq
<1>4. PICK m : m = Making(size)
  OBVIOUS
<1>5. m \in Seq(Instructions) /\ Then(SaveFp, m) \in Seq(Instructions)
      /\ Then(SaveRa, Then(SaveFp, m)) \in Seq(Instructions)
  <2>1. /\ FarFrame \in Seq(Instructions) /\ Then(SaveFp, FarFrame) \in Seq(Instructions)
        /\ Then(SaveRa, Then(SaveFp, FarFrame)) \in Seq(Instructions)
        /\ IS_IMM_12(-size) => /\ Then(SaveFp, NearFrame(size)) \in Seq(Instructions)
                               /\ NearFrame(size) \in Seq(Instructions)
    BY <1>2, PrologueEmitted
  <2>2. SaveRa \in Instructions
    BY <1>2, FrameCode
  <2>3. m \in Seq(Instructions) /\ Then(SaveFp, m) \in Seq(Instructions)
    BY <1>4, <2>1 DEF Making
  <2> QED
    BY <2>2, <2>3, Cons
<1>6. /\ SaveRa \in Instructions /\ SaveFp \in Instructions /\ I("addi", "fp", "sp", 0) \in Instructions
      /\ Difference("sp", "sp", "t0") \in Instructions /\ Sum("fp", "sp", "t0") \in Instructions
      /\ IS_IMM_12(-size) => I("addi", "sp", "sp", -size) \in Instructions
  BY <1>2, FrameCode
<1>7. PICK u : u = Then(SaveFp, m)
  OBVIOUS
<1>8. PICK t : t = Then(SaveRa, u)
  OBVIOUS
<1>9. u \in Seq(Instructions) /\ t \in Seq(Instructions) /\ t # <<>> /\ u # <<>>
      /\ t = Then(SaveRa, Then(SaveFp, Making(size))) /\ u = Then(SaveFp, Making(size))
  BY <1>4, <1>5, <1>6, <1>7, <1>8, Cons
<1>10. ASSUME NEW where \in Int, NEW r \in Targets, where <= c.sp - 8, mem' = Put(where, regs[r]),
              UNCHANGED <<regs, calls, goal>>
       PROVE  Effect(c.sp - 8) /\ where \in DOMAIN mem' /\ mem'[where] = regs[r]
              /\ \A x \in DOMAIN mem : x # where => x \in DOMAIN mem' /\ mem'[x] = mem[x]
  <2>1. regs[r] \in Int
    BY DEF Targets
  <2>2. Effect(c.sp - 8)
    BY <1>10, <2>1 DEF Effect
  <2> QED
    BY <1>10, <2>2 DEF Put
<1>11. CASE /\ ~ IS_IMM_12(-size) /\ Loading64(size, "t0", Then(SaveRa, Then(SaveFp, Making(size))))
            /\ Entered(c)
  <2>1. code # <<>> /\ (Execute => Only("t0") /\ (Loading64(size, "t0", t)' \/ Loaded(size, "t0", t)'))
    BY <1>1, <1>2, <1>9, <1>11, Loading64Step
  <2>2. ASSUME Only("t0") PROVE Effect(c.sp - 8) /\ Entered(c)'
    BY <1>1, <1>11, <2>2, OnlyEffect DEF Only, Entered
  <2> QED
    BY <1>9, <1>11, <2>1, <2>2 DEF PrologueAt, Loaded, Sizing
<1>12. CASE code = Then(SaveRa, Then(SaveFp, Making(size))) /\ Entered(c) /\ Sizing(size)
  <2>1. code = Then(I("st", "ra", "sp", -8), u) /\ code # <<>>
    BY <1>8, <1>9, <1>12 DEF SaveRa
  <2>2. ASSUME Execute PROVE Effect(c.sp - 8) /\ PrologueAt(c, size)'
    <3>1. Went(u) /\ mem' = Put(regs["sp"] + (-8), regs["ra"]) /\ UNCHANGED regs
      BY <1>1, <1>2, <1>9, <2>1, <2>2, StoreWritten
    <3>2. regs["sp"] + (-8) = c.sp - 8 /\ c.sp - 8 \in Int /\ c.sp - 8 <= c.sp - 8
      BY <1>2, <1>12 DEF Entered
    <3>3. Effect(c.sp - 8) /\ c.sp - 8 \in DOMAIN mem' /\ mem'[c.sp - 8] = regs["ra"]
      BY <1>1, <1>10, <3>1, <3>2 DEF Went
    <3>4. RaSaved(c)'
      BY <1>12, <3>3 DEF RaSaved, Entered
    <3>5. Entered(c)' /\ Sizing(size)'
      BY <1>12, <3>1 DEF Entered, Sizing
    <3> QED
      BY <1>9, <3>1, <3>3, <3>4, <3>5 DEF PrologueAt, Went
  <2> QED
    BY <2>1, <2>2
<1>13. CASE code = Then(SaveFp, Making(size)) /\ Entered(c) /\ Sizing(size) /\ RaSaved(c)
  <2>1. code = Then(I("st", "fp", "sp", -16), m) /\ code # <<>>
    BY <1>4, <1>9, <1>13 DEF SaveFp
  <2>2. ASSUME Execute PROVE Effect(c.sp - 8) /\ PrologueAt(c, size)'
    <3>1. Went(m) /\ mem' = Put(regs["sp"] + (-16), regs["fp"]) /\ UNCHANGED regs
      BY <1>1, <1>2, <1>5, <2>1, <2>2, StoreWritten
    <3>2. regs["sp"] + (-16) = c.sp - 16 /\ c.sp - 16 \in Int /\ c.sp - 16 <= c.sp - 8
          /\ c.sp - 8 # c.sp - 16
      BY <1>2, <1>13 DEF Entered
    <3>3. Effect(c.sp - 8) /\ c.sp - 16 \in DOMAIN mem' /\ mem'[c.sp - 16] = regs["fp"]
          /\ \A x \in DOMAIN mem : x # c.sp - 16 => x \in DOMAIN mem' /\ mem'[x] = mem[x]
      BY <1>1, <1>10, <3>1, <3>2 DEF Went
    <3>4. RaSaved(c)' /\ FpSaved(c)'
      BY <1>13, <3>2, <3>3 DEF RaSaved, FpSaved, Entered
    <3>5. Entered(c)' /\ Sizing(size)'
      BY <1>13, <3>1 DEF Entered, Sizing
    <3> QED
      BY <1>4, <3>1, <3>3, <3>4, <3>5 DEF PrologueAt, Went
  <2> QED
    BY <2>1, <2>2
<1>14. ASSUME mem' = mem, RaSaved(c), FpSaved(c) PROVE RaSaved(c)' /\ FpSaved(c)'
  BY <1>14 DEF RaSaved, FpSaved
<1>15. CASE /\ code = Making(size) /\ Entered(c) /\ Sizing(size) /\ RaSaved(c) /\ FpSaved(c)
            /\ IS_IMM_12(-size)
  <2>1. PICK s : s = Then(I("addi", "sp", "sp", -size), e)
    OBVIOUS
  <2>2. s \in Seq(Instructions) /\ code = Then(I("addi", "fp", "sp", 0), s)
    BY <1>3, <1>6, <1>15, <2>1, Cons DEF Making, NearFrame
  <2>3. code # <<>>
    BY <1>6, <2>2, Cons
  <2>4. ASSUME Execute PROVE Effect(c.sp - 8) /\ PrologueAt(c, size)'
    <3>1. Went(s) /\ Set("fp", regs["sp"] + 0)
      BY <1>1, <1>2, <2>2, <2>4, Added
    <3>2. regs["sp"] + 0 = c.sp
      BY <1>2, <1>15 DEF Entered
    <3>3. Only("fp") /\ regs'["fp"] = c.sp /\ code' = s
      BY <1>1, <1>2, <3>1, <3>2, SetOnly
    <3>4. regs'["sp"] = c.sp
      BY <1>1, <1>15, <3>3 DEF Only, Entered
    <3>5. Effect(c.sp - 8) /\ RaSaved(c)' /\ FpSaved(c)'
      BY <1>1, <1>14, <1>15, <3>3, OnlyEffect DEF Only
    <3> QED
      BY <1>3, <1>15, <2>1, <3>3, <3>4, <3>5 DEF PrologueAt
  <2> QED
    BY <2>3, <2>4
<1>16. CASE /\ code = Making(size) /\ Entered(c) /\ Sizing(size) /\ RaSaved(c) /\ FpSaved(c)
            /\ ~ IS_IMM_12(-size)
  <2>1. PICK s : s = Then(Sum("fp", "sp", "t0"), e)
    OBVIOUS
  <2>2. s \in Seq(Instructions) /\ code = Then(Difference("sp", "sp", "t0"), s)
    BY <1>3, <1>6, <1>16, <2>1, Cons DEF Making, FarFrame
  <2>3. code # <<>>
    BY <1>6, <2>2, Cons
  <2>4. ASSUME Execute PROVE Effect(c.sp - 8) /\ PrologueAt(c, size)'
    <3>1. Went(s) /\ Set("sp", regs["sp"] - regs["t0"])
      BY <1>1, <2>2, <2>4, Summed
    <3>2. regs["sp"] - regs["t0"] = c.sp - size /\ c.sp - size \in Int
      BY <1>2, <1>16 DEF Entered, Sizing
    <3>3. Only("sp") /\ regs'["sp"] = c.sp - size /\ code' = s
      BY <1>1, <3>1, <3>2, SetOnly
    <3>4. regs'["t0"] = size
      BY <1>1, <1>16, <3>3 DEF Only, Sizing
    <3>5. Effect(c.sp - 8) /\ RaSaved(c)' /\ FpSaved(c)'
      BY <1>1, <1>14, <1>16, <3>3, OnlyEffect DEF Only
    <3> QED
      BY <1>3, <1>16, <2>1, <3>3, <3>4, <3>5 DEF PrologueAt
  <2> QED
    BY <2>3, <2>4
<1>17. CASE /\ IS_IMM_12(-size) /\ code = Then(I("addi", "sp", "sp", -size), <<>>)
            /\ regs["sp"] = c.sp /\ regs["fp"] = c.sp /\ RaSaved(c) /\ FpSaved(c)
  <2>1. code = Then(I("addi", "sp", "sp", -size), e) /\ code # <<>>
    BY <1>3, <1>6, <1>17, Cons
  <2>2. ASSUME Execute PROVE Effect(c.sp - 8) /\ PrologueDone(c)'
    <3>1. Went(e) /\ Set("sp", regs["sp"] + (-size))
      BY <1>1, <1>2, <1>3, <1>17, <2>1, <2>2, Added
    <3>2. regs["sp"] + (-size) = c.sp - size /\ c.sp - size \in Int
      BY <1>2, <1>17
    <3>3. Only("sp") /\ regs'["sp"] = c.sp - size /\ code' = e
      BY <1>1, <3>1, <3>2, SetOnly
    <3>4. regs'["fp"] = c.sp
      BY <1>1, <1>17, <3>3 DEF Only
    <3>5. Effect(c.sp - 8) /\ RaSaved(c)' /\ FpSaved(c)'
      BY <1>1, <1>14, <1>17, <3>3, OnlyEffect DEF Only
    <3> QED
      BY <1>3, <3>3, <3>4, <3>5 DEF PrologueDone, Framed
  <2> QED
    BY <2>1, <2>2
<1>18. CASE /\ ~ IS_IMM_12(-size) /\ code = Then(Sum("fp", "sp", "t0"), <<>>)
            /\ regs["sp"] = c.sp - size /\ regs["t0"] = size /\ RaSaved(c) /\ FpSaved(c)
  <2>1. code = Then(Sum("fp", "sp", "t0"), e) /\ code # <<>>
    BY <1>3, <1>6, <1>18, Cons
  <2>2. ASSUME Execute PROVE Effect(c.sp - 8) /\ PrologueDone(c)'
    <3>1. Went(e) /\ Set("fp", regs["sp"] + regs["t0"])
      BY <1>1, <1>3, <2>1, <2>2, Summed
    <3>2. regs["sp"] + regs["t0"] = c.sp
      BY <1>2, <1>18
    <3>3. Only("fp") /\ regs'["fp"] = c.sp /\ code' = e
      BY <1>1, <1>2, <3>1, <3>2, SetOnly
    <3>4. regs'["sp"] = c.sp - size
      BY <1>1, <1>18, <3>3 DEF Only
    <3>5. Effect(c.sp - 8) /\ RaSaved(c)' /\ FpSaved(c)'
      BY <1>1, <1>14, <1>18, <3>3, OnlyEffect DEF Only
    <3> QED
      BY <1>3, <3>3, <3>4, <3>5 DEF PrologueDone, Framed
  <2> QED
    BY <2>1, <2>2
<1> QED
  BY <1>11, <1>12, <1>13, <1>15, <1>16, <1>17, <1>18 DEF PrologueAt

LEMMA PrologueBegins ==
  ASSUME NEW f, Sized(f), NEW c, c.arrays = f
  PROVE  /\ ~ IS_IMM_12(-FrameSize(f)) =>
              Prologue(f) = Load64(FrameSize(f), "t0", Then(SaveRa, Then(SaveFp, Making(FrameSize(f)))))
         /\ IS_IMM_12(-FrameSize(f)) => Prologue(f) = Then(SaveRa, Then(SaveFp, Making(FrameSize(f))))
BY PrologueEmitted DEF Making

EpilogueAt(c, size) ==
  \/ ~ IS_IMM_12(-size) /\ Framed(c) /\ Loading64(size, "t0", Then(Sum("sp", "sp", "t0"), Restore))
  \/ Framed(c) /\ Loaded(size, "t0", Then(Sum("sp", "sp", "t0"), Restore))
  \/ IS_IMM_12(-size) /\ Framed(c) /\ code = Then(I("addi", "sp", "sp", size), Restore)
  \/ code = Restore /\ regs["sp"] = c.sp
  \/ code = Then(LoadFp, <<>>) /\ regs["sp"] = c.sp /\ regs["ra"] = c.ra
EpilogueDone(c) == code = <<>> /\ Entered(c)

LEMMA EpilogueStep ==
  ASSUME NEW c, Valid(c), NEW size, size = FrameSize(c.arrays), regs \in [Registers -> Int],
         RaSaved(c), FpSaved(c), EpilogueAt(c, size), NEW limit
  PROVE  /\ code # <<>>
         /\ Execute => Effect(limit) /\ (EpilogueAt(c, size)' \/ EpilogueDone(c)')
<1>1. /\ {"t0", "sp", "fp", "ra"} \subseteq Targets /\ {"t0", "sp", "fp", "ra"} \subseteq Registers
      /\ -8 \in Int /\ -16 \in Int
  BY DEF Targets, Registers
<1>2. /\ c.sp \in Int /\ c.fp \in Int /\ c.ra \in Int /\ Sized(c.arrays)
      /\ size \in Nat /\ size \in Int /\ Int32(size)
      /\ IS_IMM_12(-8) /\ IS_IMM_12(-16)
  BY <1>1, Immediate DEF Valid, Sized
<1>3. PICK e : e = <<>> /\ e \in Seq(Instructions)
  BY EmptySeq
<1>4. /\ LoadRa \in Instructions /\ LoadFp \in Instructions /\ Sum("sp", "sp", "t0") \in Instructions
      /\ IS_IMM_12(-size) => I("addi", "sp", "sp", size) \in Instructions
  BY <1>2, FrameCode
<1>5. PICK s : s = Restore
  OBVIOUS
<1>6. PICK t : t = Then(Sum("sp", "sp", "t0"), s)
  OBVIOUS
<1>7. PICK u : u = Then(LoadFp, e)
  OBVIOUS
<1>8. /\ s \in Seq(Instructions) /\ t \in Seq(Instructions) /\ u \in Seq(Instructions) /\ u # <<>>
      /\ s = Then(LoadRa, u) /\ s # <<>> /\ t # <<>>
  <2>1. u \in Seq(Instructions) /\ u # <<>> /\ s = Then(LoadRa, u)
    BY <1>3, <1>4, <1>5, <1>7, Cons DEF Restore
  <2>2. s \in Seq(Instructions) /\ s # <<>>
    BY <1>4, <2>1, Cons
  <2> QED
    BY <1>4, <1>6, <2>1, <2>2, Cons
<1>9. CASE ~ IS_IMM_12(-size) /\ Framed(c) /\ Loading64(size, "t0", Then(Sum("sp", "sp", "t0"), Restore))
  <2>1. code # <<>> /\ (Execute => Only("t0") /\ (Loading64(size, "t0", t)' \/ Loaded(size, "t0", t)'))
    BY <1>1, <1>2, <1>5, <1>6, <1>8, <1>9, Loading64Step
  <2>2. ASSUME Only("t0") PROVE Effect(limit) /\ Framed(c)'
    BY <1>1, <1>9, <2>2, OnlyEffect DEF Framed, Still
  <2> QED
    BY <1>5, <1>6, <1>9, <2>1, <2>2 DEF EpilogueAt
<1>10. CASE Framed(c) /\ Loaded(size, "t0", Then(Sum("sp", "sp", "t0"), Restore))
  <2>1. code = t /\ regs["t0"] = size /\ code # <<>>
    BY <1>5, <1>6, <1>8, <1>10 DEF Loaded
  <2>2. ASSUME Execute PROVE Effect(limit) /\ EpilogueAt(c, size)'
    <3>1. Went(s) /\ Set("sp", regs["sp"] + regs["t0"])
      BY <1>1, <1>6, <1>8, <2>1, <2>2, Summed
    <3>2. regs["sp"] + regs["t0"] = c.sp
      BY <1>2, <1>10, <2>1 DEF Framed
    <3>3. Only("sp") /\ regs'["sp"] = c.sp /\ code' = s
      BY <1>1, <1>2, <3>1, <3>2, SetOnly
    <3> QED
      BY <1>1, <1>5, <3>3, OnlyEffect DEF EpilogueAt
  <2> QED
    BY <2>1, <2>2
<1>11. CASE IS_IMM_12(-size) /\ Framed(c) /\ code = Then(I("addi", "sp", "sp", size), Restore)
  <2>1. code # <<>> /\ code = Then(I("addi", "sp", "sp", size), s)
    BY <1>4, <1>5, <1>8, <1>11, Cons
  <2>2. IS_IMM_12(size)
    <3>1. -size >= -2048 /\ size # 2048
      BY <1>2, <1>11, Immediate DEF Sized
    <3>2. size >= -2048 /\ size <= 2047
      BY <1>2, <3>1
    <3> QED
      BY <1>2, <3>2, Immediate
  <2>3. ASSUME Execute PROVE Effect(limit) /\ EpilogueAt(c, size)'
    <3>1. Went(s) /\ Set("sp", regs["sp"] + size)
      BY <1>1, <1>2, <1>8, <2>1, <2>2, <2>3, Added
    <3>2. regs["sp"] + size = c.sp
      BY <1>2, <1>11 DEF Framed
    <3>3. Only("sp") /\ regs'["sp"] = c.sp /\ code' = s
      BY <1>1, <1>2, <3>1, <3>2, SetOnly
    <3> QED
      BY <1>1, <1>5, <3>3, OnlyEffect DEF EpilogueAt
  <2> QED
    BY <2>1, <2>3
<1>12. CASE code = Restore /\ regs["sp"] = c.sp
  <2>1. code # <<>> /\ code = Then(I("ld", "ra", "sp", -8), u)
    BY <1>5, <1>8, <1>12 DEF LoadRa
  <2>2. ASSUME Execute PROVE Effect(limit) /\ EpilogueAt(c, size)'
    <3>1. Went(u) /\ Set("ra", Fetched(regs["sp"] + (-8)))
      BY <1>1, <1>2, <1>8, <2>1, <2>2, Read
    <3>2. regs["sp"] + (-8) = c.sp - 8
      BY <1>2, <1>12
    <3>3. Fetched(regs["sp"] + (-8)) = c.ra
      BY <3>2 DEF Fetched, RaSaved
    <3>4. Only("ra") /\ regs'["ra"] = c.ra /\ code' = u
      BY <1>1, <1>2, <3>1, <3>3, SetOnly
    <3>5. regs'["sp"] = c.sp
      BY <1>1, <1>12, <3>4 DEF Only
    <3> QED
      BY <1>1, <1>3, <1>7, <3>4, <3>5, OnlyEffect DEF EpilogueAt
  <2> QED
    BY <2>1, <2>2
<1>13. CASE code = Then(LoadFp, <<>>) /\ regs["sp"] = c.sp /\ regs["ra"] = c.ra
  <2>1. code # <<>> /\ code = Then(I("ld", "fp", "sp", -16), e)
    BY <1>3, <1>7, <1>8, <1>13 DEF LoadFp
  <2>2. ASSUME Execute PROVE Effect(limit) /\ EpilogueDone(c)'
    <3>1. Went(e) /\ Set("fp", Fetched(regs["sp"] + (-16)))
      BY <1>1, <1>2, <1>3, <2>1, <2>2, Read
    <3>2. regs["sp"] + (-16) = c.sp - 16
      BY <1>2, <1>13
    <3>3. Fetched(regs["sp"] + (-16)) = c.fp
      BY <3>2 DEF Fetched, FpSaved
    <3>4. Only("fp") /\ regs'["fp"] = c.fp /\ code' = e
      BY <1>1, <1>2, <3>1, <3>3, SetOnly
    <3>5. regs'["sp"] = c.sp /\ regs'["ra"] = c.ra
      BY <1>1, <1>13, <3>4 DEF Only
    <3> QED
      BY <1>1, <1>3, <3>4, <3>5, OnlyEffect DEF EpilogueDone, Entered
  <2> QED
    BY <2>1, <2>2
<1> QED
  BY <1>9, <1>10, <1>11, <1>12, <1>13 DEF EpilogueAt

----------------------------------------------------------------------------
(* The inductive invariant. *)

Activations == [arrays : Functions, sp : Int, fp : Int, ra : Int, left : Int]
Kinds == {"prologue", "body", "constant", "load", "store", "alloca", "epilogue", "returned"}

RegistersTyped ==
  /\ regs \in [Registers -> Int] /\ regs["zero"] = 0
  /\ IntegerMemory
  /\ code \in Seq(Instructions)

\* Every activation lies below the frame of its caller, and knows what to give back to it.
Layered(cs) ==
  /\ cs \in Seq(Activations)
  /\ \A j, k \in 1..Len(cs) : j < k => cs[k].sp <= cs[j].sp - 20
  /\ \A k \in 1..Len(cs) :
       k # 1 => /\ cs[k].ra = k - 1 /\ cs[k].fp = cs[k - 1].sp
                /\ cs[k].sp = cs[k - 1].sp - FrameSize(cs[k - 1].arrays)

\* The registers of the first n activations are in memory.
Saved(cs, n) == \A k \in 1..n : RaSaved(cs[k]) /\ FpSaved(cs[k])

\* How far the instructions at hand are; v is the integer of the activation.
Stage(c, v, kind, where) ==
  /\ kind = "prologue" => PrologueAt(c, FrameSize(c.arrays)) \/ PrologueDone(c)
  /\ kind = "epilogue" => EpilogueAt(c, FrameSize(c.arrays)) \/ EpilogueDone(c)
  /\ kind \notin {"prologue", "epilogue"} => Framed(c)
  /\ kind = "body" => code = <<>>
  /\ kind = "constant" => Int32(where) /\ (ConstantAt(where) \/ ConstantDone(where))
  /\ kind = "load" => where = IntegerSlot(c.arrays) /\ (LoadAt(where) \/ LoadDone(c, where))
  /\ kind = "store" => where = IntegerSlot(c.arrays) /\ (StoreAt(where, v) \/ StoreDone(c, where, v))
  /\ kind = "alloca" =>
       /\ where \in DOMAIN c.arrays
       /\ \/ AllocaAt(c, PointerSlot(c.arrays, where), c.arrays[where])
          \/ AllocaDone(c, PointerSlot(c.arrays, where), c.arrays[where])

StageDone(c, v, kind, where) ==
  /\ kind = "prologue" => PrologueDone(c)
  /\ kind = "epilogue" => EpilogueDone(c)
  /\ kind = "constant" => ConstantDone(where)
  /\ kind = "load" => LoadDone(c, where)
  /\ kind = "store" => StoreDone(c, where, v)
  /\ kind = "alloca" => AllocaDone(c, PointerSlot(c.arrays, where), c.arrays[where])

FrameInv ==
  /\ RegistersTyped
  /\ Layered(calls)
  /\ goal.kind \in Kinds
  /\ goal.kind = "returned" => calls = <<>> /\ code = <<>>
  /\ goal.kind # "returned" =>
       /\ calls # <<>>
       /\ Saved(calls, IF goal.kind = "prologue" THEN Depth - 1 ELSE Depth)
       /\ Stage(Innermost, Integer, goal.kind, goal.at)

----------------------------------------------------------------------------
(* Steps within an IR instruction. *)

\* What a supported program gives.
LEMMA Layout ==
  ASSUME Supported, NEW f \in Functions
  PROVE  /\ f \in Seq(Nat) /\ DOMAIN f = 1..Len(f) /\ Sized(f) /\ FrameSize(f) \in Nat /\ FrameSize(f) >= 20
         /\ Int32(IntegerSlot(f)) /\ IntegerSlot(f) <= -20 /\ IntegerSlot(f) >= -FrameSize(f)
         /\ \A k \in DOMAIN f :
              /\ Int32(PointerSlot(f, k)) /\ PointerSlot(f, k) <= -20 /\ Small(f[k])
              /\ PointerSlot(f, k) \in Int /\ f[k] \in Nat
              /\ PointerSlot(f, k) - f[k] >= -FrameSize(f)
<1>1. f \in Seq(Nat) /\ Int32(FrameSize(f)) /\ FrameSize(f) # 2048 /\ \A k \in DOMAIN f : Small(f[k])
  BY DEF Supported
<1>2. DOMAIN f = 1..Len(f)
  BY <1>1, LenProperties
<1>3. /\ FrameSize(f) \in Nat /\ FrameSize(f) >= 20
      /\ IntegerSlot(f) \in Int /\ IntegerSlot(f) <= -20 /\ IntegerSlot(f) >= -FrameSize(f)
      /\ \A k \in 1..Len(f) :
           /\ PointerSlot(f, k) \in Int /\ PointerSlot(f, k) <= -20
           /\ PointerSlot(f, k) - f[k] >= -FrameSize(f)
  BY <1>1, FrameLayout
<1>4. Int32(IntegerSlot(f))
  BY <1>1, <1>3, SMT DEF Int32
<1>5. ASSUME NEW k \in DOMAIN f PROVE Int32(PointerSlot(f, k)) /\ f[k] \in Nat
  <2>1. f[k] \in Nat
    BY <1>1 DEF Small
  <2>2. PointerSlot(f, k) \in Int /\ PointerSlot(f, k) <= -20 /\ PointerSlot(f, k) >= -FrameSize(f)
    <3>1. PointerSlot(f, k) \in Int /\ PointerSlot(f, k) - f[k] >= -FrameSize(f) /\ PointerSlot(f, k) <= -20
      BY <1>2, <1>3
    <3> QED
      BY <1>3, <2>1, <3>1
  <2> QED
    BY <1>1, <1>3, <2>1, <2>2, SMT DEF Int32
<1> QED
  BY <1>1, <1>2, <1>3, <1>4, <1>5 DEF Sized

LEMMA ValidActivation ==
  ASSUME Supported, NEW c \in Activations
  PROVE  Valid(c)
BY Layout DEF Valid, Activations

LEMMA StageStep ==
  ASSUME NEW c, Valid(c), NEW v, NEW kind \in Kinds, NEW where, kind # "returned",
         regs \in [Registers -> Int], regs["zero"] = 0, IntegerMemory, Stage(c, v, kind, where),
         kind # "prologue" => RaSaved(c) /\ FpSaved(c)
  PROVE  /\ code = <<>> => StageDone(c, v, kind, where)
         /\ Execute => /\ Stage(c, v, kind, where)'
                       /\ Effect(IF kind = "prologue" THEN c.sp - 8 ELSE c.sp - 20)
<1>1. CASE kind = "prologue"
  <2>1. PICK z : z = FrameSize(c.arrays)
    OBVIOUS
  <2>2. PrologueAt(c, z) => /\ code # <<>>
                            /\ Execute => Effect(c.sp - 8) /\ (PrologueAt(c, z)' \/ PrologueDone(c)')
    BY <2>1, PrologueStep
  <2>3. PrologueAt(c, z) \/ PrologueDone(c)
    BY <1>1, <2>1 DEF Stage
  <2>4. PrologueDone(c) => code = <<>> /\ ~ Execute
    BY DEF PrologueDone, Execute
  <2> QED
    BY <1>1, <2>1, <2>2, <2>3, <2>4 DEF Stage, StageDone
<1>2. CASE kind = "epilogue"
  <2>1. PICK z : z = FrameSize(c.arrays)
    OBVIOUS
  <2>2. EpilogueAt(c, z) => /\ code # <<>>
                            /\ Execute => Effect(c.sp - 20) /\ (EpilogueAt(c, z)' \/ EpilogueDone(c)')
    BY <1>2, <2>1, EpilogueStep
  <2>3. EpilogueAt(c, z) \/ EpilogueDone(c)
    BY <1>2, <2>1 DEF Stage
  <2>4. EpilogueDone(c) => code = <<>> /\ ~ Execute
    BY DEF EpilogueDone, Execute
  <2> QED
    BY <1>2, <2>1, <2>2, <2>3, <2>4 DEF Stage, StageDone
<1>3. ASSUME kind \notin {"prologue", "epilogue"} PROVE Framed(c) /\ (Still => Framed(c)')
  BY <1>3 DEF Stage, Framed, Still
<1>4. CASE kind = "body"
  BY <1>4 DEF Stage, StageDone, Execute
<1>5. CASE kind = "constant"
  <2>1. Int32(where) /\ (ConstantAt(where) \/ ConstantDone(where))
    BY <1>5 DEF Stage
  <2>2. ConstantAt(where) => /\ code # <<>>
                             /\ Execute => Effect(c.sp - 20) /\ Still /\ (ConstantAt(where)' \/ ConstantDone(where)')
    BY <2>1, ConstantStep
  <2>3. ConstantDone(where) => code = <<>> /\ ~ Execute
    BY DEF ConstantDone, Loaded, Execute
  <2> QED
    BY <1>3, <1>5, <2>1, <2>2, <2>3 DEF Stage, StageDone
<1>6. Int32(IntegerSlot(c.arrays)) /\ IntegerSlot(c.arrays) <= -20
  BY DEF Valid
<1>7. CASE kind = "load"
  <2>1. where = IntegerSlot(c.arrays) /\ (LoadAt(where) \/ LoadDone(c, where))
    BY <1>7 DEF Stage
  <2>2. LoadAt(where) => /\ code # <<>>
                         /\ Execute => Effect(c.sp - 20) /\ Still /\ (LoadAt(where)' \/ LoadDone(c, where)')
    BY <1>3, <1>6, <1>7, <2>1, LoadStep
  <2>3. LoadDone(c, where) => code = <<>> /\ ~ Execute
    BY DEF LoadDone, Execute
  <2> QED
    BY <1>3, <1>7, <2>1, <2>2, <2>3 DEF Stage, StageDone
<1>8. CASE kind = "store"
  <2>1. where = IntegerSlot(c.arrays) /\ (StoreAt(where, v) \/ StoreDone(c, where, v))
    BY <1>8 DEF Stage
  <2>2. StoreAt(where, v) => /\ code # <<>>
                             /\ Execute => Effect(c.sp - 20) /\ Still /\ (StoreAt(where, v)' \/ StoreDone(c, where, v)')
    BY <1>3, <1>6, <1>8, <2>1, StoreStep
  <2>3. StoreDone(c, where, v) => code = <<>> /\ ~ Execute
    BY DEF StoreDone, Execute
  <2> QED
    BY <1>3, <1>8, <2>1, <2>2, <2>3 DEF Stage, StageDone
<1>9. CASE kind = "alloca"
  <2>1. PICK x : x = PointerSlot(c.arrays, where)
    OBVIOUS
  <2>2. PICK z : z = c.arrays[where]
    OBVIOUS
  <2>3. where \in DOMAIN c.arrays /\ (AllocaAt(c, x, z) \/ AllocaDone(c, x, z))
    BY <1>9, <2>1, <2>2 DEF Stage
  <2>4. AllocaAt(c, x, z) => /\ code # <<>>
                             /\ Execute => Effect(c.sp - 20) /\ Still /\ (AllocaAt(c, x, z)' \/ AllocaDone(c, x, z)')
    BY <1>3, <1>9, <2>1, <2>2, <2>3, AllocaStep
  <2>5. AllocaDone(c, x, z) => code = <<>> /\ ~ Execute
    BY DEF AllocaDone, StoreDone, Execute
  <2> QED
    BY <1>3, <1>9, <2>1, <2>2, <2>3, <2>4, <2>5 DEF Stage, StageDone
<1> QED
  BY <1>1, <1>2, <1>4, <1>5, <1>7, <1>8, <1>9 DEF Kinds

\* A write below the saved registers keeps them.
LEMMA EffectKeeps ==
  ASSUME NEW limit \in Int, Effect(limit), IntegerMemory, NEW n \in Nat, Saved(calls, n),
         \A k \in 1..n : calls[k].sp \in Int /\ calls[k].sp - 16 > limit
  PROVE  IntegerMemory' /\ Saved(calls, n)'
<1>1. calls' = calls
  BY DEF Effect
<1>2. CASE mem' = mem
  BY <1>1, <1>2 DEF Saved, RaSaved, FpSaved, IntegerMemory
<1>3. CASE \E where, v \in Int : where <= limit /\ mem' = Put(where, v)
  <2>1. PICK where \in Int, v \in Int : where <= limit /\ mem' = Put(where, v)
    BY <1>3
  <2>2. /\ \A x \in DOMAIN mem : x # where => x \in DOMAIN mem' /\ mem'[x] = mem[x]
        /\ \A x \in DOMAIN mem' : IF x = where THEN mem'[x] = v ELSE x \in DOMAIN mem /\ mem'[x] = mem[x]
    BY <2>1 DEF Put
  <2>3. IntegerMemory'
    BY <2>2 DEF IntegerMemory
  <2>4. ASSUME NEW k \in 1..n PROVE RaSaved(calls[k])' /\ FpSaved(calls[k])'
    <3>1. calls[k].sp - 8 # where /\ calls[k].sp - 16 # where
      BY <2>1
    <3> QED
      BY <1>1, <2>2, <3>1 DEF Saved, RaSaved, FpSaved
  <2> QED
    BY <1>1, <2>3, <2>4 DEF Saved
<1> QED
  BY <1>2, <1>3 DEF Effect

LEMMA ExecuteStep ==
  ASSUME Supported, FrameInv, Execute
  PROVE  FrameInv'
<1>1. goal.kind # "returned" /\ calls # <<>> /\ code # <<>> /\ goal.kind \in Kinds
  BY DEF FrameInv, Execute
<1>2. calls \in Seq(Activations) /\ Depth \in Nat \ {0} /\ Depth \in 1..Depth
  <2>1. calls \in Seq(Activations)
    BY DEF FrameInv, Layered
  <2> QED
    BY <1>1, <2>1, LenProperties, EmptySeq DEF Depth
<1>3. \A k \in 1..Depth : calls[k] \in Activations
  BY <1>2, ElementOfSeq DEF Depth
<1>4. PICK c : c = Innermost
  OBVIOUS
<1>5. c \in Activations /\ Valid(c) /\ c.sp \in Int
  BY <1>2, <1>3, <1>4, ValidActivation DEF Innermost, Valid
<1>6. PICK kind : kind = goal.kind
  OBVIOUS
<1>7. PICK where : where = goal.at
  OBVIOUS
<1>8. PICK v : v = Integer
  OBVIOUS
<1>9. PICK n : n = IF kind = "prologue" THEN Depth - 1 ELSE Depth
  OBVIOUS
<1>10. Stage(c, v, kind, where) /\ Saved(calls, n) /\ RegistersTyped
  BY <1>1, <1>4, <1>6, <1>7, <1>8, <1>9 DEF FrameInv
<1>11. kind # "prologue" => RaSaved(c) /\ FpSaved(c)
  BY <1>2, <1>4, <1>9, <1>10 DEF Saved, Innermost
<1>12. PICK limit : limit = IF kind = "prologue" THEN c.sp - 8 ELSE c.sp - 20
  OBVIOUS
<1>13. Stage(c, v, kind, where)' /\ Effect(limit)
  BY <1>1, <1>5, <1>6, <1>10, <1>11, <1>12, StageStep DEF RegistersTyped
<1>14. calls' = calls /\ goal' = goal /\ Depth' = Depth /\ Innermost' = Innermost /\ Integer' = Integer
  BY <1>13 DEF Effect, Depth, Innermost, Integer
<1>15. IntegerMemory' /\ Saved(calls, n)'
  <2>1. limit \in Int /\ n \in Nat
    BY <1>2, <1>5, <1>9, <1>12
  <2>2. ASSUME NEW k \in 1..n PROVE calls[k].sp \in Int /\ calls[k].sp - 16 > limit
    <3>1. k \in 1..Depth /\ (k = Depth => kind # "prologue")
      BY <1>2, <1>9
    <3>2. calls[k].sp \in Int
      BY <1>3, <3>1 DEF Activations
    <3>3. k # Depth => c.sp <= calls[k].sp - 20
      BY <1>2, <1>4, <3>1 DEF FrameInv, Layered, Depth, Innermost
    <3>4. k = Depth => c.sp = calls[k].sp
      BY <1>4 DEF Innermost
    <3> QED
      BY <1>5, <1>12, <3>1, <3>2, <3>3, <3>4
  <2> QED
    BY <1>10, <1>13, <2>1, <2>2, EffectKeeps DEF RegistersTyped
<1>16. code' \in Seq(Instructions)
  <2>1. code' = Tail(code)
    BY DEF Execute
  <2> QED
    BY <1>1, <1>10, <2>1, HeadTailProperties DEF RegistersTyped
<1>17. RegistersTyped'
  BY <1>10, <1>13, <1>15, <1>16 DEF RegistersTyped, Effect
<1>18. Saved(calls, IF goal.kind = "prologue" THEN Depth - 1 ELSE Depth)'
  BY <1>6, <1>9, <1>14, <1>15 DEF Saved
<1>19. Stage(Innermost, Integer, goal.kind, goal.at)'
  BY <1>4, <1>6, <1>7, <1>8, <1>13, <1>14
<1> QED
  BY <1>1, <1>14, <1>17, <1>18, <1>19 DEF FrameInv

----------------------------------------------------------------------------
(* Steps that begin and end IR instructions. *)

\* The entry values and the frame are the same.
Alike(c, e) == e.sp = c.sp /\ e.fp = c.fp /\ e.ra = c.ra /\ e.arrays = c.arrays

LEMMA Counted ==
  ASSUME Layered(calls), calls # <<>>, NEW ds, ds = [calls EXCEPT ![Depth].left = @ - 1]
  PROVE  /\ Layered(ds) /\ Len(ds) = Depth /\ Depth \in Nat \ {0} /\ Depth \in 1..Depth
         /\ \A k \in 1..Depth : Alike(calls[k], ds[k])
<1>1. calls \in Seq(Activations) /\ Depth \in Nat \ {0} /\ Depth \in 1..Depth
  <2>1. calls \in Seq(Activations)
    BY DEF Layered
  <2> QED
    BY <2>1, LenProperties, EmptySeq DEF Depth
<1>2. \A k \in 1..Depth : calls[k] \in Activations
  BY <1>1, ElementOfSeq DEF Depth
<1>3. PICK e : e = [calls[Depth] EXCEPT !.left = @ - 1]
  OBVIOUS
<1>4. e \in Activations /\ Alike(calls[Depth], e)
  <2>1. calls[Depth] \in Activations
    BY <1>1, <1>2
  <2> QED
    BY <1>3, <2>1 DEF Activations, Alike
<1>5. ds = [calls EXCEPT ![Depth] = e]
  BY <1>3
<1>6. /\ ds \in Seq(Activations) /\ Len(ds) = Depth
      /\ \A k \in 1..Depth : ds[k] = IF k = Depth THEN e ELSE calls[k]
  BY <1>1, <1>4, <1>5, ExceptSeq DEF Depth
<1>7. \A k \in 1..Depth : Alike(calls[k], ds[k])
  BY <1>4, <1>6 DEF Alike
<1>8. ASSUME NEW j \in 1..Depth, NEW k \in 1..Depth, j < k PROVE ds[k].sp <= ds[j].sp - 20
  BY <1>7, <1>8 DEF Alike, Layered, Depth
<1>9. ASSUME NEW k \in 1..Depth, k # 1
      PROVE  /\ ds[k].ra = k - 1 /\ ds[k].fp = ds[k - 1].sp
             /\ ds[k].sp = ds[k - 1].sp - FrameSize(ds[k - 1].arrays)
  <2>1. k - 1 \in 1..Depth
    BY <1>1, <1>9
  <2>2. /\ calls[k].ra = k - 1 /\ calls[k].fp = calls[k - 1].sp
        /\ calls[k].sp = calls[k - 1].sp - FrameSize(calls[k - 1].arrays)
    BY <1>9 DEF Layered, Depth
  <2>3. Alike(calls[k], ds[k]) /\ Alike(calls[k - 1], ds[k - 1])
    BY <1>7, <2>1
  <2> QED
    BY <2>2, <2>3 DEF Alike
<1>10. Layered(ds)
  BY <1>6, <1>8, <1>9 DEF Layered
<1> QED
  BY <1>1, <1>6, <1>7, <1>10

LEMMA BeginStep ==
  ASSUME FrameInv, Body, NEW kind, NEW where, NEW s, Generate(kind, where, s), Still
  PROVE  /\ Layered(calls)' /\ calls' # <<>> /\ Integer' = Integer
         /\ Alike(Innermost, Innermost') /\ Framed(Innermost)'
         /\ Saved(calls, Depth)'
         /\ goal.kind' = kind /\ goal.at' = where /\ code' = s /\ mem' = mem
<1>1. goal.kind = "body" /\ calls # <<>> /\ Layered(calls)
  BY DEF FrameInv, Body, Ready
<1>2. Framed(Innermost) /\ Saved(calls, Depth)
  BY <1>1 DEF FrameInv, Stage
<1>3. calls' = [calls EXCEPT ![Depth].left = @ - 1]
  BY DEF Generate
<1>4. /\ Layered(calls)' /\ Len(calls') = Depth /\ Depth \in Nat \ {0} /\ Depth \in 1..Depth
      /\ \A k \in 1..Depth : Alike(calls[k], calls'[k])
  <2>1. PICK ds : ds = calls'
    OBVIOUS
  <2>2. /\ Layered(ds) /\ Len(ds) = Depth /\ Depth \in Nat \ {0} /\ Depth \in 1..Depth
        /\ \A k \in 1..Depth : Alike(calls[k], ds[k])
    BY <1>1, <1>3, <2>1, Counted
  <2> QED
    BY <2>1, <2>2 DEF Layered
<1>5. Depth' = Depth /\ Alike(Innermost, Innermost')
  BY <1>4 DEF Depth, Innermost
<1>6. mem' = mem /\ code' = s /\ goal.kind' = kind /\ goal.at' = where
  BY DEF Generate
<1>7. calls' # <<>>
  BY <1>4, EmptySeq
<1>8. Saved(calls, Depth)'
  <2>1. ASSUME NEW k \in 1..Depth PROVE RaSaved(calls[k])' /\ FpSaved(calls[k])'
    <3>1. RaSaved(calls[k]) /\ FpSaved(calls[k]) /\ Alike(calls[k], calls'[k])
      BY <1>2, <1>4 DEF Saved
    <3> QED
      BY <1>6, <3>1 DEF RaSaved, FpSaved, Alike
  <2> QED
    BY <1>5, <2>1 DEF Saved
<1>9. Framed(Innermost)'
  BY <1>2, <1>5 DEF Framed, Alike, Still
<1> QED
  BY <1>4, <1>5, <1>6, <1>7, <1>8, <1>9 DEF Integer

\* What is left to show of the instructions that begin.
Beginning(kind, where) ==
  /\ kind = "constant" => Int32(where) /\ ConstantAt(where)
  /\ kind = "load" => where = IntegerSlot(Innermost.arrays) /\ LoadAt(where)
  /\ kind = "store" => where = IntegerSlot(Innermost.arrays) /\ StoreAt(where, Integer)
  /\ kind = "alloca" =>
       /\ where \in DOMAIN Innermost.arrays
       /\ AllocaAt(Innermost, PointerSlot(Innermost.arrays, where), Innermost.arrays[where])

LEMMA BeginKeeps ==
  ASSUME FrameInv, Body, NEW kind \in {"constant", "load", "store", "alloca"}, NEW where,
         NEW s \in Seq(Instructions), Generate(kind, where, s), Still,
         regs' \in [Registers -> Int], regs'["zero"] = 0, Beginning(kind, where)'
  PROVE  FrameInv'
<1>1. /\ Layered(calls)' /\ calls' # <<>> /\ Framed(Innermost)' /\ Saved(calls, Depth)'
      /\ goal.kind' = kind /\ goal.at' = where /\ code' = s /\ mem' = mem
  BY BeginStep
<1>2. RegistersTyped'
  BY <1>1 DEF FrameInv, RegistersTyped, IntegerMemory
<1>3. Stage(Innermost, Integer, kind, where)'
  BY <1>1 DEF Beginning, Stage
<1>4. goal.kind' \in Kinds /\ goal.kind' # "returned" /\ goal.kind' # "prologue"
  BY <1>1 DEF Kinds
<1> QED
  BY <1>1, <1>2, <1>3, <1>4 DEF FrameInv

LEMMA Running ==
  ASSUME Supported, FrameInv, calls # <<>>
  PROVE  /\ Innermost \in Activations /\ Valid(Innermost) /\ Depth \in Nat \ {0} /\ Depth \in 1..Depth
         /\ Innermost.arrays \in Functions /\ calls \in Seq(Activations)
<1>1. calls \in Seq(Activations) /\ Depth \in Nat \ {0} /\ Depth \in 1..Depth
  <2>1. calls \in Seq(Activations)
    BY DEF FrameInv, Layered
  <2> QED
    BY <2>1, LenProperties, EmptySeq DEF Depth
<1>2. Innermost \in Activations
  BY <1>1, ElementOfSeq DEF Depth, Innermost
<1> QED
  BY <1>1, <1>2, ValidActivation DEF Activations

LEMMA BodyFacts ==
  ASSUME Supported, FrameInv, Body
  PROVE  /\ calls # <<>> /\ Innermost.arrays \in Functions /\ Valid(Innermost) /\ Framed(Innermost)
         /\ regs \in [Registers -> Int] /\ regs["zero"] = 0 /\ mem = mem
         /\ UNCHANGED regs => Still /\ regs' \in [Registers -> Int] /\ regs'["zero"] = 0
<1>1. goal.kind = "body"
  BY DEF Body, Ready
<1>2. calls # <<>> /\ Framed(Innermost) /\ regs \in [Registers -> Int] /\ regs["zero"] = 0
  BY <1>1 DEF FrameInv, RegistersTyped, Stage
<1>3. Innermost.arrays \in Functions /\ Valid(Innermost)
  BY <1>2, Running
<1> QED
  BY <1>2, <1>3 DEF Still

LEMMA ConstantKeeps ==
  ASSUME Supported, FrameInv, Constant
  PROVE  FrameInv'
<1>1. Body /\ UNCHANGED regs
  BY DEF Constant
<1>2. PICK v \in Constants : Generate("constant", v, LoadConstant(v, "t0"))
  BY DEF Constant
<1>3. Int32(v)
  BY DEF Supported
<1>4. PICK s : s = LoadConstant(v, "t0")
  OBVIOUS
<1>5. /\ s \in Seq(Instructions)
      /\ s = IF IS_IMM_12(v) THEN Then(I("addi", "t0", "zero", v), <<>>) ELSE Load32(v, "t0", <<>>)
  BY <1>3, <1>4, ConstantEmitted
<1>6. Still /\ regs' \in [Registers -> Int] /\ regs'["zero"] = 0
  BY <1>1, BodyFacts
<1>7. code' = s
  BY <1>2, <1>4 DEF Generate
<1>8. Beginning("constant", v)'
  BY <1>3, <1>5, <1>7 DEF Beginning, ConstantAt, Loading32
<1> QED
  BY <1>1, <1>2, <1>4, <1>5, <1>6, <1>8, BeginKeeps

LEMMA LoadKeeps ==
  ASSUME Supported, FrameInv, Load
  PROVE  FrameInv'
<1>1. Body /\ UNCHANGED regs
  BY DEF Load
<1>2. PICK x : x = IntegerSlot(Innermost.arrays)
  OBVIOUS
<1>3. PICK s : s = LoadFromStack("t0", x)
  OBVIOUS
<1>4. Generate("load", x, s)
  BY <1>2, <1>3 DEF Load
<1>5. Int32(x) /\ "t0" \in Targets /\ "ld" \in {"ld", "st"}
  BY <1>1, <1>2, BodyFacts DEF Valid, Targets, Registers
<1>6. s = Access("ld", "t0", x, "t0") /\ s \in Seq(Instructions)
  BY <1>3, <1>5, AccessEmitted DEF LoadFromStack
<1>7. Still /\ regs' \in [Registers -> Int] /\ regs'["zero"] = 0
  BY <1>1, BodyFacts
<1>8. Alike(Innermost, Innermost') /\ code' = s
  BY <1>1, <1>4, <1>7, BeginStep
<1>9. Reaching("ld", "t0", x, "t0")'
  BY <1>5, <1>6, <1>8, AccessBegins
<1>10. Beginning("load", x)'
  BY <1>2, <1>8, <1>9 DEF Beginning, LoadAt, Alike
<1> QED
  BY <1>1, <1>4, <1>6, <1>7, <1>10, BeginKeeps

LEMMA StoreKeeps ==
  ASSUME Supported, FrameInv, Store
  PROVE  FrameInv'
<1>1. Body /\ regs' = [regs EXCEPT !["t0"] = Integer]
  BY DEF Store
<1>2. PICK x : x = IntegerSlot(Innermost.arrays)
  OBVIOUS
<1>3. PICK s : s = StoreFromGreg("t0", x)
  OBVIOUS
<1>4. Generate("store", x, s)
  BY <1>2, <1>3 DEF Store
<1>5. Int32(x) /\ "t0" \in Targets /\ "t8" \in Targets /\ "st" \in {"ld", "st"}
  BY <1>1, <1>2, BodyFacts DEF Valid, Targets, Registers
<1>6. s = Access("st", "t0", x, "t8") /\ s \in Seq(Instructions)
  BY <1>3, <1>5, AccessEmitted DEF StoreFromGreg
<1>7. Integer \in Int
  BY <1>1, BodyFacts, Running DEF Integer
<1>8. Still /\ regs' \in [Registers -> Int] /\ regs'["zero"] = 0 /\ regs'["t0"] = Integer
  BY <1>1, <1>7, BodyFacts DEF Still, Registers
<1>9. Alike(Innermost, Innermost') /\ code' = s /\ Integer' = Integer
  BY <1>1, <1>4, <1>8, BeginStep
<1>10. Reaching("st", "t0", x, "t8")'
  BY <1>5, <1>6, <1>9, AccessBegins
<1>11. Beginning("store", x)'
  BY <1>2, <1>8, <1>9, <1>10 DEF Beginning, StoreAt, Alike
<1> QED
  BY <1>1, <1>4, <1>6, <1>8, <1>11, BeginKeeps

LEMMA AllocaKeeps ==
  ASSUME Supported, FrameInv, Alloca
  PROVE  FrameInv'
<1>1. Body /\ UNCHANGED regs
  BY DEF Alloca
<1>2. PICK f : f = Innermost.arrays
  OBVIOUS
<1>3. PICK k \in DOMAIN f : Generate("alloca", k, AllocaCode(f, k))
  BY <1>2 DEF Alloca
<1>4. f \in Functions
  BY <1>1, <1>2, BodyFacts
<1>5. PICK x : x = PointerSlot(f, k)
  OBVIOUS
<1>6. PICK z : z = f[k]
  OBVIOUS
<1>7. Int32(x) /\ Small(z)
  BY <1>4, <1>5, <1>6, Layout
<1>8. PICK s : s = AllocaCode(f, k)
  OBVIOUS
<1>9. /\ s \in Seq(Instructions)
      /\ s = IF IS_IMM_12(x) THEN Then(I("addi", "t0", "fp", x), Space(x, z))
             ELSE Load64(x, "t0", Then(Sum("t0", "fp", "t0"), Space(x, z)))
  BY <1>5, <1>6, <1>7, <1>8, AllocaEmitted
<1>10. Still /\ regs' \in [Registers -> Int] /\ regs'["zero"] = 0
  BY <1>1, BodyFacts
<1>11. Generate("alloca", k, s)
  BY <1>3, <1>8
<1>12. Alike(Innermost, Innermost') /\ code' = s
  BY <1>1, <1>10, <1>11, BeginStep
<1>13. Innermost.arrays' = f
  BY <1>2, <1>12 DEF Alike
<1>14. AllocaAt(Innermost, x, z)'
  BY <1>9, <1>12 DEF AllocaAt, Loading64, Loading32, Load64, Signs
<1>15. Beginning("alloca", k)'
  BY <1>3, <1>5, <1>6, <1>13, <1>14 DEF Beginning
<1> QED
  BY <1>1, <1>9, <1>10, <1>11, <1>15, BeginKeeps

\* The frame of the callee lies below that of its caller.
LEMMA Pushed ==
  ASSUME Supported, NEW ds, Layered(ds), NEW d \in Nat \ {0}, Len(ds) = d, NEW act \in Activations,
         act.ra = d, act.fp = ds[d].sp, act.sp = ds[d].sp - FrameSize(ds[d].arrays)
  PROVE  /\ Layered(Append(ds, act)) /\ Len(Append(ds, act)) = d + 1
         /\ Append(ds, act)[d + 1] = act
         /\ \A k \in 1..d : Append(ds, act)[k] = ds[k]
<1>1. PICK cs : cs = Append(ds, act)
  OBVIOUS
<1>2. /\ cs \in Seq(Activations) /\ Len(cs) = d + 1 /\ cs[d + 1] = act /\ \A k \in 1..d : cs[k] = ds[k]
  BY <1>1, AppendProperties DEF Layered
<1>3. d \in 1..d /\ ds[d] \in Activations
  BY ElementOfSeq DEF Layered
<1>4. ds[d].sp \in Int /\ FrameSize(ds[d].arrays) \in Nat /\ FrameSize(ds[d].arrays) >= 20
  BY <1>3, Layout DEF Activations
<1>5. ASSUME NEW j \in 1..d PROVE act.sp <= ds[j].sp - 20
  <2>1. j # d => ds[d].sp <= ds[j].sp - 20
    BY <1>3 DEF Layered
  <2>2. ds[j] \in Activations
    BY ElementOfSeq DEF Layered
  <2>3. ds[j].sp \in Int
    BY <2>2 DEF Activations
  <2> QED
    BY <1>4, <2>1, <2>3
<1>6. ASSUME NEW j \in 1..(d + 1), NEW k \in 1..(d + 1), j < k PROVE cs[k].sp <= cs[j].sp - 20
  <2>1. j \in 1..d /\ (k = d + 1 \/ k \in 1..d)
    BY <1>6
  <2>2. k \in 1..d => ds[k].sp <= ds[j].sp - 20
    BY <1>6, <2>1 DEF Layered
  <2> QED
    BY <1>2, <1>5, <2>1, <2>2
<1>7. ASSUME NEW k \in 1..(d + 1), k # 1
      PROVE  /\ cs[k].ra = k - 1 /\ cs[k].fp = cs[k - 1].sp
             /\ cs[k].sp = cs[k - 1].sp - FrameSize(cs[k - 1].arrays)
  <2>1. k - 1 \in 1..d /\ (k = d + 1 \/ k \in 1..d)
    BY <1>7
  <2>2. CASE k = d + 1
    BY <1>2, <2>1, <2>2
  <2>3. CASE k \in 1..d
    BY <1>2, <1>7, <2>1, <2>3 DEF Layered
  <2> QED
    BY <2>1, <2>2, <2>3
<1>8. Layered(cs)
  BY <1>2, <1>6, <1>7 DEF Layered
<1> QED
  BY <1>1, <1>2, <1>8

LEMMA CallKeeps ==
  ASSUME Supported, FrameInv, Call
  PROVE  FrameInv'
<1>1. Body
  BY DEF Call
<1>2. /\ calls # <<>> /\ Framed(Innermost) /\ regs \in [Registers -> Int] /\ regs["zero"] = 0
      /\ goal.kind = "body" /\ Layered(calls)
  BY <1>1, BodyFacts DEF Body, Ready, FrameInv
<1>3. PICK f \in Functions : /\ calls' = Append([calls EXCEPT ![Depth].left = @ - 1], Activation(f))
                             /\ code' = Prologue(f)
  BY DEF Call
<1>4. PICK ds : ds = [calls EXCEPT ![Depth].left = @ - 1]
  OBVIOUS
<1>5. /\ Layered(ds) /\ Len(ds) = Depth /\ Depth \in Nat \ {0} /\ Depth \in 1..Depth
      /\ \A k \in 1..Depth : Alike(calls[k], ds[k])
  BY <1>2, <1>4, Counted
<1>6. PICK d : d = Depth
  OBVIOUS
<1>7. PICK act : act = Activation(f)
  OBVIOUS
<1>8. Alike(Innermost, ds[d])
  BY <1>5, <1>6 DEF Innermost
<1>9. "sp" \in Registers /\ "fp" \in Registers /\ "ra" \in Registers
  BY DEF Registers
<1>10. /\ act.arrays = f /\ act.sp = regs["sp"] /\ act.fp = regs["fp"] /\ act.ra = d /\ act \in Activations
  <2>1. MaxOperations \in Int /\ d \in Int /\ regs["sp"] \in Int /\ regs["fp"] \in Int
    BY <1>2, <1>5, <1>6, <1>9 DEF Supported
  <2> QED
    BY <1>6, <1>7, <2>1 DEF Activation, Activations
<1>11. act.fp = ds[d].sp /\ act.sp = ds[d].sp - FrameSize(ds[d].arrays)
  BY <1>2, <1>8, <1>10 DEF Framed, Alike
<1>12. PICK cs : cs = Append(ds, act)
  OBVIOUS
<1>13. /\ Layered(cs) /\ Len(cs) = d + 1 /\ cs[d + 1] = act /\ \A k \in 1..d : cs[k] = ds[k]
  BY <1>5, <1>6, <1>10, <1>11, <1>12, Pushed
<1>14. calls' = cs /\ Depth' = d + 1 /\ Innermost' = act
  BY <1>3, <1>4, <1>7, <1>12, <1>13 DEF Depth, Innermost
<1>15. Layered(calls)' /\ calls' # <<>>
  <2>1. Len(cs) # 0
    BY <1>5, <1>6, <1>13
  <2> QED
    BY <1>13, <1>14, <2>1, EmptySeq DEF Layered
<1>16. regs' = [regs EXCEPT !["ra"] = d] /\ mem' = mem /\ goal' = [kind |-> "prologue"]
  BY <1>6 DEF Call
<1>17. Sized(f)
  BY Layout
<1>18. RegistersTyped'
  <2>1. code' \in Seq(Instructions)
    BY <1>3, <1>17, PrologueEmitted
  <2>2. regs' \in [Registers -> Int] /\ regs'["zero"] = 0
    BY <1>2, <1>5, <1>6, <1>9, <1>16
  <2> QED
    BY <1>16, <2>1, <2>2 DEF FrameInv, RegistersTyped, IntegerMemory
<1>19. Saved(calls, d)'
  <2>1. ASSUME NEW k \in 1..d PROVE RaSaved(cs[k])' /\ FpSaved(cs[k])'
    <3>1. RaSaved(calls[k]) /\ FpSaved(calls[k])
      BY <1>2, <1>6 DEF FrameInv, Saved
    <3>2. Alike(calls[k], cs[k])
      BY <1>5, <1>6, <1>13
    <3> QED
      BY <1>16, <3>1, <3>2 DEF RaSaved, FpSaved, Alike
  <2> QED
    BY <1>14, <2>1 DEF Saved
<1>20. PrologueAt(act, FrameSize(act.arrays))'
  <2>1. Entered(act)'
    BY <1>2, <1>9, <1>10, <1>16 DEF Entered
  <2>2. PICK z : z = FrameSize(f)
    OBVIOUS
  <2>3. /\ ~ IS_IMM_12(-z) => code' = Load64(z, "t0", Then(SaveRa, Then(SaveFp, Making(z))))
        /\ IS_IMM_12(-z) => code' = Then(SaveRa, Then(SaveFp, Making(z)))
    BY <1>3, <1>10, <1>17, <2>2, PrologueBegins
  <2>4. PrologueAt(act, z)'
    BY <2>1, <2>3 DEF PrologueAt, Loading64, Loading32, Load64, Signs, Sizing
  <2> QED
    BY <1>10, <2>2, <2>4
<1>21. goal.kind' = "prologue" /\ goal.kind' \in Kinds
  BY <1>16 DEF Kinds
<1>22. Stage(Innermost, Integer, goal.kind, goal.at)'
  BY <1>14, <1>20, <1>21 DEF Stage
<1>23. Saved(calls, Depth - 1)'
  <2>1. Depth' - 1 = d
    BY <1>5, <1>6, <1>14
  <2> QED
    BY <1>19, <2>1 DEF Saved
<1> QED
  BY <1>15, <1>18, <1>21, <1>22, <1>23 DEF FrameInv

LEMMA ReturnKeeps ==
  ASSUME Supported, FrameInv, Return
  PROVE  FrameInv'
<1>1. /\ goal.kind = "body" /\ code' = Epilogue(Innermost.arrays) /\ goal' = [kind |-> "epilogue"]
      /\ UNCHANGED <<regs, mem, calls>>
  BY DEF Return, Ready
<1>2. calls # <<>> /\ Framed(Innermost) /\ Saved(calls, Depth) /\ RegistersTyped /\ Layered(calls)
  BY <1>1 DEF FrameInv, Stage
<1>3. PICK c : c = Innermost
  OBVIOUS
<1>4. PICK z : z = FrameSize(c.arrays)
  OBVIOUS
<1>5. c.arrays \in Functions /\ Sized(c.arrays)
  BY <1>2, <1>3, Running DEF Valid
<1>6. /\ code' \in Seq(Instructions)
      /\ code' = IF IS_IMM_12(-z) THEN Then(I("addi", "sp", "sp", z), Restore)
                 ELSE Load64(z, "t0", Then(Sum("sp", "sp", "t0"), Restore))
  BY <1>1, <1>3, <1>4, <1>5, EpilogueEmitted
<1>7. Innermost' = c /\ Depth' = Depth
  BY <1>1, <1>3 DEF Innermost, Depth
<1>8. Framed(c)'
  BY <1>1, <1>2, <1>3 DEF Framed
<1>9. EpilogueAt(c, z)'
  BY <1>6, <1>8 DEF EpilogueAt, Loading64, Loading32, Load64, Signs
<1>10. Stage(Innermost, Integer, goal.kind, goal.at)'
  BY <1>1, <1>4, <1>7, <1>9 DEF Stage
<1>11. RegistersTyped'
  BY <1>1, <1>2, <1>6 DEF RegistersTyped, IntegerMemory
<1>12. Saved(calls, Depth)'
  BY <1>1, <1>2, <1>7 DEF Saved, RaSaved, FpSaved
<1>13. Layered(calls)'
  BY <1>1, <1>2
<1>14. goal.kind' = "epilogue" /\ goal.kind' \in Kinds
  BY <1>1 DEF Kinds
<1> QED
  BY <1>1, <1>2, <1>10, <1>11, <1>12, <1>13, <1>14 DEF FrameInv

\* What holds of the instructions at hand when none is left.
LEMMA Finished ==
  ASSUME Supported, FrameInv, code = <<>>, goal.kind # "returned"
  PROVE  StageDone(Innermost, Integer, goal.kind, goal.at)
<1>1. calls # <<>>
  BY DEF FrameInv
<1>2. Valid(Innermost) /\ Depth \in Nat \ {0} /\ Depth \in 1..Depth
  BY <1>1, Running
<1>3. Stage(Innermost, Integer, goal.kind, goal.at) /\ RegistersTyped /\ goal.kind \in Kinds
  BY DEF FrameInv
<1>4. goal.kind # "prologue" => RaSaved(Innermost) /\ FpSaved(Innermost)
  BY <1>2 DEF FrameInv, Saved, Innermost
<1>5. PICK c : c = Innermost
  OBVIOUS
<1>6. PICK kind : kind = goal.kind
  OBVIOUS
<1>7. PICK where : where = goal.at
  OBVIOUS
<1>8. PICK v : v = Integer
  OBVIOUS
<1>9. Stage(c, v, kind, where) /\ Valid(c) /\ kind \in Kinds /\ kind # "returned"
      /\ (kind # "prologue" => RaSaved(c) /\ FpSaved(c))
  BY <1>2, <1>3, <1>4, <1>5, <1>6, <1>7, <1>8
<1>10. StageDone(c, v, kind, where)
  BY <1>3, <1>9, StageStep DEF RegistersTyped
<1> QED
  BY <1>5, <1>6, <1>7, <1>8, <1>10

LEMMA JumpBackKeeps ==
  ASSUME Supported, FrameInv, JumpBack
  PROVE  FrameInv'
<1>1. /\ goal.kind = "epilogue" /\ code = <<>>
      /\ calls' = SubSeq(calls, 1, Depth - 1)
      /\ regs' = [regs EXCEPT !["t0"] = 0, !["t8"] = 0]
      /\ goal' = [kind |-> IF Depth = 1 THEN "returned" ELSE "body"]
      /\ mem' = mem /\ code' = <<>>
  BY DEF JumpBack, Ready
<1>2. calls # <<>> /\ Saved(calls, Depth) /\ RegistersTyped /\ Layered(calls)
  BY <1>1 DEF FrameInv
<1>3. Depth \in Nat \ {0} /\ Depth \in 1..Depth /\ calls \in Seq(Activations)
  BY <1>2, Running
<1>4. Entered(Innermost)
  BY <1>1, Finished DEF StageDone, EpilogueDone
<1>5. PICK d : d = Depth
  OBVIOUS
<1>6. PICK cs : cs = SubSeq(calls, 1, d - 1)
  OBVIOUS
<1>7. /\ cs \in Seq(Activations) /\ Len(cs) = d - 1 /\ \A k \in 1..(d - 1) : cs[k] = calls[k]
  <2>1. \A k \in 1..(d - 1) : calls[k] \in Activations
    BY <1>3, <1>5, ElementOfSeq DEF Depth
  <2>2. d - 1 \in Nat /\ 1 \in Int /\ d - 1 \in Int /\ (d - 1) - 1 + 1 = d - 1
    BY <1>3, <1>5
  <2>3. /\ cs \in Seq(Activations)
        /\ Len(cs) = IF 1 <= d - 1 THEN (d - 1) - 1 + 1 ELSE 0
        /\ \A i \in 1..((d - 1) - 1 + 1) : cs[i] = calls[1 + i - 1]
    BY <1>6, <2>1, <2>2, SubSeqProperties
  <2> QED
    BY <2>2, <2>3
<1>8. calls' = cs /\ Depth' = d - 1
  BY <1>1, <1>5, <1>6, <1>7 DEF Depth
<1>9. Layered(cs)
  <2>1. ASSUME NEW j \in 1..(d - 1), NEW k \in 1..(d - 1), j < k PROVE cs[k].sp <= cs[j].sp - 20
    <3>1. j \in 1..d /\ k \in 1..d
      BY <1>3, <1>5
    <3>2. calls[k].sp <= calls[j].sp - 20
      BY <1>2, <1>5, <2>1, <3>1 DEF Layered, Depth
    <3> QED
      BY <1>7, <3>2
  <2>2. ASSUME NEW k \in 1..(d - 1), k # 1
        PROVE  /\ cs[k].ra = k - 1 /\ cs[k].fp = cs[k - 1].sp
               /\ cs[k].sp = cs[k - 1].sp - FrameSize(cs[k - 1].arrays)
    <3>1. k \in 1..d /\ k - 1 \in 1..(d - 1)
      BY <1>3, <1>5, <2>2
    <3> QED
      BY <1>2, <1>5, <1>7, <2>2, <3>1 DEF Layered, Depth
  <2> QED
    BY <1>7, <2>1, <2>2 DEF Layered
<1>10. RegistersTyped'
  <2>1. regs' \in [Registers -> Int] /\ regs'["zero"] = 0
    BY <1>1, <1>2 DEF RegistersTyped, Registers
  <2>2. code' \in Seq(Instructions)
    BY <1>1, <1>2 DEF RegistersTyped
  <2> QED
    BY <1>1, <1>2, <2>1, <2>2 DEF RegistersTyped, IntegerMemory
<1>11. CASE d = 1
  <2>1. calls' = <<>>
    <3>1. Len(cs) = 0
      BY <1>7, <1>11
    <3> QED
      BY <1>7, <1>8, <3>1, EmptySeq
  <2>2. goal.kind' = "returned" /\ goal.kind' \in Kinds
    BY <1>1, <1>5, <1>11 DEF Kinds
  <2> QED
    BY <1>1, <1>8, <1>9, <1>10, <2>1, <2>2 DEF FrameInv
<1>12. CASE d # 1
  <2>1. goal.kind' = "body" /\ goal.kind' \in Kinds
    BY <1>1, <1>5, <1>12 DEF Kinds
  <2>2. calls' # <<>>
    <3>1. Len(cs) # 0
      BY <1>3, <1>5, <1>7, <1>12
    <3> QED
      BY <1>8, <3>1, EmptySeq
  <2>3. Saved(calls, Depth)'
    <3>1. ASSUME NEW k \in 1..(d - 1) PROVE RaSaved(cs[k])' /\ FpSaved(cs[k])'
      <4>1. RaSaved(calls[k]) /\ FpSaved(calls[k]) /\ cs[k] = calls[k]
        BY <1>2, <1>3, <1>5, <1>7 DEF Saved
      <4> QED
        BY <1>1, <4>1 DEF RaSaved, FpSaved
    <3> QED
      BY <1>8, <3>1 DEF Saved
  <2>4. Innermost' = calls[d - 1]
    <3>1. d - 1 \in 1..(d - 1)
      BY <1>3, <1>5, <1>12
    <3> QED
      BY <1>7, <1>8, <3>1 DEF Innermost, Depth
  <2>5. /\ calls[d].fp = calls[d - 1].sp
        /\ calls[d].sp = calls[d - 1].sp - FrameSize(calls[d - 1].arrays)
    BY <1>2, <1>3, <1>5, <1>12 DEF Layered, Depth
  <2>6. Framed(Innermost)'
    <3>1. regs'["sp"] = regs["sp"] /\ regs'["fp"] = regs["fp"]
      BY <1>1, <1>2 DEF RegistersTyped, Registers
    <3>2. regs["sp"] = calls[d].sp /\ regs["fp"] = calls[d].fp
      BY <1>4, <1>5 DEF Entered, Innermost
    <3> QED
      BY <2>4, <2>5, <3>1, <3>2 DEF Framed
  <2>7. Stage(Innermost, Integer, goal.kind, goal.at)'
    BY <1>1, <2>1, <2>6 DEF Stage
  <2> QED
    BY <1>8, <1>9, <1>10, <2>1, <2>2, <2>3, <2>7 DEF FrameInv
<1> QED
  BY <1>11, <1>12

LEMMA DoneKeeps ==
  ASSUME Supported, FrameInv, Done
  PROVE  FrameInv'
<1>1. /\ code = <<>> /\ goal.kind \notin {"body", "epilogue", "returned"}
      /\ goal' = [kind |-> "body"] /\ UNCHANGED <<regs, mem, code, calls>>
  BY DEF Done
<1>2. calls # <<>> /\ RegistersTyped /\ Layered(calls)
      /\ Saved(calls, IF goal.kind = "prologue" THEN Depth - 1 ELSE Depth)
      /\ Stage(Innermost, Integer, goal.kind, goal.at)
  BY <1>1 DEF FrameInv
<1>3. StageDone(Innermost, Integer, goal.kind, goal.at)
  BY <1>1, Finished
<1>4. Framed(Innermost)
  BY <1>1, <1>2, <1>3 DEF Stage, StageDone, PrologueDone
<1>5. Depth \in Nat \ {0}
  BY <1>2, Running
<1>6. Saved(calls, Depth)
  <2>1. CASE goal.kind = "prologue"
    <3>1. RaSaved(calls[Depth]) /\ FpSaved(calls[Depth])
      BY <1>3, <2>1 DEF StageDone, PrologueDone, Innermost
    <3>2. \A k \in 1..Depth : k = Depth \/ k \in 1..(Depth - 1)
      BY <1>5
    <3> QED
      BY <1>2, <2>1, <3>1, <3>2 DEF Saved
  <2>2. CASE goal.kind # "prologue"
    BY <1>2, <2>2
  <2> QED
    BY <2>1, <2>2
<1>7. Innermost' = Innermost /\ Depth' = Depth
  BY <1>1 DEF Innermost, Depth
<1>8. Framed(Innermost)'
  BY <1>1, <1>4, <1>7 DEF Framed
<1>9. Saved(calls, Depth)'
  BY <1>1, <1>6, <1>7 DEF Saved, RaSaved, FpSaved
<1>10. RegistersTyped' /\ Layered(calls)'
  BY <1>1, <1>2 DEF RegistersTyped, IntegerMemory
<1>11. goal.kind' = "body" /\ goal.kind' \in Kinds
  BY <1>1 DEF Kinds
<1>12. Stage(Innermost, Integer, goal.kind, goal.at)'
  BY <1>1, <1>8, <1>11 DEF Stage
<1> QED
  BY <1>1, <1>2, <1>9, <1>10, <1>11, <1>12 DEF FrameInv

LEMMA Initially ==
  ASSUME Supported, FrameInit
  PROVE  FrameInv
<1>1. PICK f \in Functions :
        /\ calls = <<[arrays |-> f, sp |-> 0, fp |-> 7, ra |-> 0, left |-> MaxOperations]>>
        /\ code = Prologue(f)
  BY DEF FrameInit
<1>2. /\ regs = [r \in Registers |-> CASE r = "fp" -> 7 [] OTHER -> 0]
      /\ mem = <<>> /\ goal = [kind |-> "prologue"]
  BY DEF FrameInit, Registers
<1>3. PICK act : act = [arrays |-> f, sp |-> 0, fp |-> 7, ra |-> 0, left |-> MaxOperations]
  OBVIOUS
<1>4. act \in Activations /\ act.arrays = f /\ act.sp = 0 /\ act.fp = 7 /\ act.ra = 0
  BY <1>3 DEF Supported, Activations
<1>5. calls \in Seq(Activations) /\ Len(calls) = 1 /\ calls[1] = act
  BY <1>1, <1>3, <1>4
<1>6. Layered(calls)
  BY <1>5 DEF Layered
<1>7. Depth = 1 /\ Innermost = act /\ calls # <<>>
  <2>1. Depth = 1
    BY <1>5 DEF Depth
  <2>2. Innermost = act
    BY <1>5, <2>1 DEF Innermost
  <2> QED
    BY <1>1, <2>1, <2>2
<1>8. regs \in [Registers -> Int] /\ regs["zero"] = 0 /\ Entered(act)
  BY <1>2, <1>4 DEF Entered, Registers
<1>9. Sized(f)
  BY Layout
<1>10. RegistersTyped
  <2>1. code \in Seq(Instructions)
    BY <1>1, <1>9, PrologueEmitted
  <2>2. IntegerMemory
    <3>1. DOMAIN mem = {}
      BY <1>2
    <3> QED
      BY <3>1 DEF IntegerMemory
  <2> QED
    BY <1>8, <2>1, <2>2 DEF RegistersTyped
<1>11. PrologueAt(act, FrameSize(act.arrays))
  <2>1. PICK z : z = FrameSize(f)
    OBVIOUS
  <2>2. /\ ~ IS_IMM_12(-z) => code = Load64(z, "t0", Then(SaveRa, Then(SaveFp, Making(z))))
        /\ IS_IMM_12(-z) => code = Then(SaveRa, Then(SaveFp, Making(z)))
    BY <1>1, <1>4, <1>9, <2>1, PrologueBegins
  <2>3. PrologueAt(act, z)
    BY <1>8, <2>2 DEF PrologueAt, Loading64, Loading32, Load64, Signs, Sizing
  <2> QED
    BY <1>4, <2>1, <2>3
<1>12. goal.kind = "prologue" /\ goal.kind \in Kinds
  BY <1>2 DEF Kinds
<1>13. Saved(calls, Depth - 1)
  BY <1>7 DEF Saved
<1>14. Stage(Innermost, Integer, goal.kind, goal.at)
  BY <1>7, <1>11, <1>12 DEF Stage
<1> QED
  BY <1>6, <1>7, <1>10, <1>12, <1>13, <1>14 DEF FrameInv

\* The invariant holds in every behaviour.
LEMMA FrameInductive ==
  ASSUME Supported
  PROVE  FrameSpec => []FrameInv
<1>1. FrameInit => FrameInv
  BY Initially
<1>2. FrameInv /\ [FrameNext]_frameVars => FrameInv'
  <2> SUFFICES ASSUME FrameInv, [FrameNext]_frameVars PROVE FrameInv'
    OBVIOUS
  <2>1. CASE FrameNext
    BY <2>1, ExecuteStep, ConstantKeeps, LoadKeeps, StoreKeeps, AllocaKeeps, CallKeeps, ReturnKeeps,
       JumpBackKeeps, DoneKeeps DEF FrameNext
  <2>2. CASE UNCHANGED frameVars
    <3>1. regs' = regs /\ mem' = mem /\ code' = code /\ calls' = calls /\ goal' = goal
      BY <2>2 DEF frameVars
    <3>2. Depth' = Depth /\ Innermost' = Innermost /\ Integer' = Integer
      BY <3>1 DEF Depth, Innermost, Integer
    <3>3. ASSUME NEW c, NEW v, NEW kind, NEW where, Stage(c, v, kind, where) PROVE Stage(c, v, kind, where)'
      BY <3>1, <3>3 DEF Stage, PrologueAt, PrologueDone, EpilogueAt, EpilogueDone, RaSaved, FpSaved, Framed,
         Entered, Sizing, Loading64, Loading32, Loaded, ConstantAt, ConstantDone, LoadAt, LoadDone, StoreAt,
         StoreDone, AllocaAt, AllocaDone, Reaching, Fetched
    <3>4. RegistersTyped' <=> RegistersTyped
      BY <3>1 DEF RegistersTyped, IntegerMemory
    <3>5. ASSUME NEW n, Saved(calls, n) PROVE Saved(calls, n)'
      BY <3>1, <3>5 DEF Saved, RaSaved, FpSaved
    <3>6. PICK n : n = IF goal.kind = "prologue" THEN Depth - 1 ELSE Depth
      OBVIOUS
    <3>7. goal.kind # "returned" => Saved(calls, IF goal.kind = "prologue" THEN Depth - 1 ELSE Depth)'
      BY <3>1, <3>2, <3>5, <3>6 DEF FrameInv
    <3>8. PICK c : c = Innermost
      OBVIOUS
    <3>9. PICK v : v = Integer
      OBVIOUS
    <3>10. PICK kind : kind = goal.kind
      OBVIOUS
    <3>11. PICK where : where = goal.at
      OBVIOUS
    <3>12. Stage(c, v, kind, where) => Stage(c, v, kind, where)'
      BY <3>3
    <3>13. goal.kind # "returned" => Stage(Innermost, Integer, goal.kind, goal.at)'
      BY <3>1, <3>2, <3>8, <3>9, <3>10, <3>11, <3>12 DEF FrameInv
    <3> QED
      BY <3>1, <3>4, <3>7, <3>13 DEF FrameInv
  <2> QED
    BY <2>1, <2>2
<1> QED
  BY <1>1, <1>2, PTL DEF FrameSpec

----------------------------------------------------------------------------
(* What the invariant implies. *)

LEMMA BelowCaller ==
  ASSUME Supported, FrameInv, calls # <<>>
  PROVE  regs["sp"] <= Innermost.sp
<1>1. PICK c : c = Innermost
  OBVIOUS
<1>2. goal.kind # "returned" /\ regs \in [Registers -> Int] /\ Stage(Innermost, Integer, goal.kind, goal.at)
  BY DEF FrameInv, RegistersTyped
<1>3. c.arrays \in Functions /\ c.sp \in Int
  BY <1>1, Running DEF Valid
<1>4. FrameSize(c.arrays) \in Nat
  BY <1>3, Layout
<1>5. Framed(c) => regs["sp"] <= c.sp
  BY <1>3, <1>4 DEF Framed
<1>6. PrologueAt(c, FrameSize(c.arrays)) => regs["sp"] <= c.sp
  BY <1>3, <1>4 DEF PrologueAt, Entered
<1>7. EpilogueAt(c, FrameSize(c.arrays)) => regs["sp"] <= c.sp
  BY <1>3, <1>5 DEF EpilogueAt
<1>8. EpilogueDone(c) => regs["sp"] <= c.sp
  BY <1>3 DEF EpilogueDone, Entered
<1> QED
  BY <1>1, <1>2, <1>5, <1>6, <1>7, <1>8 DEF Stage, PrologueDone

LEMMA ImpliesTypeOK ==
  ASSUME Supported, FrameInv
  PROVE  FrameTypeOK
<1>1. regs \in [Registers -> Int] /\ regs["zero"] = 0 /\ goal.kind \in Kinds
  BY DEF FrameInv, RegistersTyped
<1> QED
  BY <1>1, BelowCaller DEF FrameTypeOK, Kinds

LEMMA ImpliesEncodable ==
  ASSUME FrameInv
  PROVE  Encodable
<1>1. code \in Seq(Instructions)
  BY DEF FrameInv, RegistersTyped
<1>2. ASSUME NEW n \in DOMAIN code PROVE Encoded(code[n])
  <2>1. code[n] \in Instructions
    BY <1>1, LenProperties, ElementOfSeq
  <2> QED
    BY <2>1 DEF Instructions
<1> QED
  BY <1>2 DEF Encodable

LEMMA ImpliesMeant ==
  ASSUME Supported, FrameInv
  PROVE  Meant
<1> SUFFICES ASSUME code = <<>>, goal.kind # "returned" PROVE Meant
  BY DEF Meant
<1>1. StageDone(Innermost, Integer, goal.kind, goal.at)
  BY Finished
<1>2. CASE goal.kind = "prologue"
  BY <1>1, <1>2 DEF Meant, StageDone, PrologueDone, Framed
<1>3. CASE goal.kind = "constant"
  BY <1>1, <1>3 DEF Meant, StageDone, ConstantDone, Loaded
<1>4. CASE goal.kind = "load"
  BY <1>1, <1>4 DEF Meant, StageDone, LoadDone, Fetched, Slot
<1>5. CASE goal.kind = "store"
  BY <1>1, <1>5 DEF Meant, StageDone, StoreDone, Slot
<1>6. CASE goal.kind = "alloca"
  <2>1. PICK c : c = Innermost
    OBVIOUS
  <2>2. PICK x : x = PointerSlot(c.arrays, goal.at)
    OBVIOUS
  <2>3. PICK z : z = c.arrays[goal.at]
    OBVIOUS
  <2>4. AllocaDone(c, x, z)
    BY <1>1, <1>6, <2>1, <2>2, <2>3 DEF StageDone
  <2>5. c.sp + x \in DOMAIN mem /\ mem[c.sp + x] = c.sp + x - z
    BY <2>4 DEF AllocaDone, StoreDone
  <2>6. Slot(x) \in DOMAIN mem /\ mem[Slot(x)] = Slot(x) - z
    <3>1. c.sp \in Int /\ c.arrays \in Functions /\ goal.at \in DOMAIN c.arrays
      BY <1>6, <2>1, Running DEF FrameInv, Stage, Valid
    <3>2. x \in Int /\ z \in Int
      BY <2>2, <2>3, <3>1, Layout
    <3> QED
      BY <2>1, <2>5, <3>1, <3>2 DEF Slot
  <2>7. LET slot == Slot(PointerSlot(Innermost.arrays, goal.at))
        IN slot \in DOMAIN mem /\ mem[slot] = slot - Innermost.arrays[goal.at]
    BY <2>1, <2>2, <2>3, <2>6
  <2> QED
    BY <1>6, <2>7 DEF Meant
<1> QED
  BY <1>2, <1>3, <1>4, <1>5, <1>6 DEF Meant

LEMMA ImpliesReturned ==
  ASSUME Supported, FrameInv, Ready("epilogue")
  PROVE  regs["sp"] = Innermost.sp /\ regs["fp"] = Innermost.fp /\ regs["ra"] = Innermost.ra
<1>1. code = <<>> /\ goal.kind = "epilogue"
  BY DEF Ready
<1> QED
  BY <1>1, Finished DEF StageDone, EpilogueDone, Entered

LEMMA ImpliesAbove ==
  ASSUME Supported, FrameInv
  PROVE  AboveStackPointer
<1> SUFFICES ASSUME goal.kind \notin {"prologue", "epilogue", "returned"} PROVE AboveStackPointer
  BY DEF AboveStackPointer
<1>1. calls # <<>> /\ Framed(Innermost) /\ Saved(calls, Depth)
  BY DEF FrameInv, Stage
<1>2. PICK c : c = Innermost
  OBVIOUS
<1>3. PICK f : f = c.arrays
  OBVIOUS
<1>4. f \in Functions /\ c.sp \in Int /\ Depth \in Nat \ {0} /\ Depth \in 1..Depth /\ calls \in Seq(Activations)
  BY <1>1, <1>2, <1>3, Running DEF Valid
<1>5. regs["sp"] = c.sp - FrameSize(f)
  BY <1>1, <1>2, <1>3 DEF Framed
<1>6. /\ FrameSize(f) \in Nat /\ FrameSize(f) >= 20 /\ Int32(IntegerSlot(f)) /\ IntegerSlot(f) >= -FrameSize(f)
      /\ \A k \in DOMAIN f : /\ PointerSlot(f, k) \in Int /\ f[k] \in Nat
                             /\ PointerSlot(f, k) - f[k] >= -FrameSize(f)
  BY <1>4, Layout
<1>7. Slot(IntegerSlot(f)) >= regs["sp"]
  <2>1. IntegerSlot(f) \in Int
    BY <1>6 DEF Int32
  <2> QED
    BY <1>2, <1>4, <1>5, <1>6, <2>1 DEF Slot
<1>8. ASSUME NEW k \in DOMAIN f PROVE Slot(PointerSlot(f, k)) - f[k] >= regs["sp"]
  BY <1>2, <1>4, <1>5, <1>6 DEF Slot
<1>9. ASSUME NEW k \in 1..Depth
      PROVE  /\ calls[k].sp - 16 >= regs["sp"]
             /\ mem[calls[k].sp - 8] = calls[k].ra /\ mem[calls[k].sp - 16] = calls[k].fp
  <2>1. calls[k] \in Activations
    BY <1>4, ElementOfSeq DEF Depth
  <2>2. calls[k].sp \in Int
    BY <2>1 DEF Activations
  <2>3. k # Depth => c.sp <= calls[k].sp - 20
    BY <1>2, <1>4 DEF FrameInv, Layered, Depth, Innermost
  <2>4. k = Depth => c.sp = calls[k].sp
    BY <1>2 DEF Innermost
  <2>5. calls[k].sp - 16 >= regs["sp"]
    BY <1>4, <1>5, <1>6, <2>2, <2>3, <2>4
  <2> QED
    BY <1>1, <2>5 DEF Saved, RaSaved, FpSaved
<1> QED
  BY <1>2, <1>3, <1>7, <1>8, <1>9 DEF AboveStackPointer

----------------------------------------------------------------------------
(* The theorems. *)

\* In every program whose constants are ints and whose arrays and frames have supported sizes,
\* the registers hold numbers and the stack pointer never rises above that of the caller.
THEOREM FrameTyped == FrameSpec => []FrameTypeOK
<1>1. FrameInv => FrameTypeOK
  BY FramesSupported, ImpliesTypeOK
<1>2. FrameSpec => []FrameInv
  BY FramesSupported, FrameInductive
<1> QED
  BY <1>1, <1>2, PTL

\* Every instruction that gen_prologue, gen_epilogue, gen_alloca and the loads and stores of slots
\* append has an immediate in the range of its field, whatever the size of the frame.
THEOREM EverythingEncodable == FrameSpec => []Encodable
<1>1. FrameInv => Encodable
  BY FramesSupported, ImpliesEncodable
<1>2. FrameSpec => []FrameInv
  BY FramesSupported, FrameInductive
<1> QED
  BY <1>1, <1>2, PTL

\* When the instructions for an IR instruction are done, they have done what it means, on the
\* path for small offsets and on the one that makes the address in a register.
THEOREM InstructionsMeant == FrameSpec => []Meant
<1>1. FrameInv => Meant
  BY FramesSupported, ImpliesMeant
<1>2. FrameSpec => []FrameInv
  BY FramesSupported, FrameInductive
<1> QED
  BY <1>1, <1>2, PTL

\* When a function returns, $sp, $fp and $ra are what they were when it was called; until then
\* nothing has reached the frames of its callers.
THEOREM CallerAlwaysRestored == FrameSpec => []CallerRestored
<1>1. FrameInv => CallerRestored
  BY FramesSupported, ImpliesTypeOK, ImpliesAbove, ImpliesReturned DEF CallerRestored
<1>2. FrameSpec => []FrameInv
  BY FramesSupported, FrameInductive
<1> QED
  BY <1>1, <1>2, PTL
=============================================================================
