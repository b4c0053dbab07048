---------------------------- MODULE LightIR_proof ----------------------------
(***************************************************************************)
(* Proofs about the data structures of LightIR, one after the other, as    *)
(* they share no state.                                                    *)
(*                                                                         *)
(* DefUse, for every set of values and users: type correctness,            *)
(* consistency of use lists and operands, absence of dangling operands,    *)
(* and the refinement of OperandGraph.  All but the first assume that      *)
(* remove_operand is not called on one of two equal neighbours, for which  *)
(* the use lists break.                                                    *)
(*                                                                         *)
(* ControlFlow, for any set of blocks: its three invariants are inductive  *)
(* together.  That lists stay inside the function needs that edges agree   *)
(* (a removed block is found from both ends), that edges agree needs that  *)
(* a new block is in nobody's list and is nobody's target.                 *)
(*                                                                         *)
(* Interning, for any modules, lengths and bounds: no module ever holds    *)
(* two types with the same parts, as each type is the one its map, or the  *)
(* constructor of the module, knows for its parts; and every answer to a   *)
(* request, be it new or known before, has the parts that were asked for,  *)
(* as what a map holds under a key is made from it.                        *)
(***************************************************************************)
EXTENDS DefUse, ControlFlow, Interning, SequenceTheorems, TLAPS

----------------------------------------------------------------------------
(* The def-use chains. *)

\* A loop in progress works on a living value, and a dying user has no operands.
JobOK ==
  job # Idle =>
    /\ job.from \in alive
    /\ job.to \in alive \cup {Null}
    /\ job.from # job.to
    /\ job.dying => /\ job.to = Null
                    /\ job.only = UseKey
                    /\ job.from \in User => operands[job.from] = <<>>

\* A user that does not exist has no operands.
DeadEmpty == \A u \in User : u \notin alive => operands[u] = <<>>

ChainsInv == TypeOK /\ JobOK /\ DeadEmpty /\ UsesMatchOperands /\ NoDanglingOperand


Bags == [Value -> [UseKey -> Nat]]
Lists == Seq(Value \cup {Null})

Jobs == [from : Value \cup {Null}, to : Value \cup {Null}, dying : BOOLEAN, only : SUBSET UseKey]

LEMMA JobType ==
  /\ Idle \in Jobs
  /\ \A v, w \in Value : \A only \in SUBSET UseKey : Job(v, w, FALSE, only) \in Jobs
  /\ \A v \in Value : Job(v, Null, TRUE, UseKey) \in Jobs
BY DEF Idle, Job, Jobs

----------------------------------------------------------------------------
(* The use-list helpers keep the shape of the bags. *)

\* Adding or removing an entry of a use list yields use lists again.
LEMMA EntryType ==
  ASSUME NEW m \in Bags, NEW v \in Value, NEW u \in User, NEW i \in Position
  PROVE  AddUse(m, v, u, i) \in Bags /\ RemoveUse(m, v, u, i) \in Bags
<1>1. <<u, i>> \in UseKey /\ m[v] \in [UseKey -> Nat] /\ m[v][<<u, i>>] \in Nat
  BY DEF Bags, UseKey
<1>2. AddUse(m, v, u, i) = [m EXCEPT ![v] = [m[v] EXCEPT ![<<u, i>>] = m[v][<<u, i>>] + 1]]
  BY <1>1 DEF AddUse, Bags
<1>3. RemoveUse(m, v, u, i) = [m EXCEPT ![v] = [m[v] EXCEPT ![<<u, i>>] = 0]]
  BY <1>1 DEF RemoveUse, Bags
<1>4. m[v][<<u, i>>] + 1 \in Nat
  BY <1>1
<1>5. \A n \in Nat : [m[v] EXCEPT ![<<u, i>>] = n] \in [UseKey -> Nat]
  BY <1>1, Zenon
<1>6. \A f \in [UseKey -> Nat] : [m EXCEPT ![v] = f] \in Bags
  BY DEF Bags
<1> QED
  BY <1>2, <1>3, <1>4, <1>5, <1>6

\* set_operand leaves well-formed use lists behind.
LEMMA RelinkType ==
  ASSUME NEW m \in Bags, NEW old \in Value \cup {Null}, NEW v \in Value \cup {Null},
         NEW u \in User, NEW i \in Position
  PROVE  Relink(m, old, v, u, i) \in Bags
<1> DEFINE dropped == IF old = Null THEN m ELSE RemoveUse(m, old, u, i)
<1>1. dropped \in Bags
  BY EntryType
<1>2. (IF v = Null THEN dropped ELSE AddUse(dropped, v, u, i)) \in Bags
  <2> HIDE DEF dropped
  <2> QED BY <1>1, EntryType
<1> QED
  BY <1>2 DEF Relink

\* So does remove_all_operands.
LEMMA UnlinkType == ASSUME uses \in Bags, NEW u \in User PROVE Unlink(u) \in Bags
BY DEF Bags, Unlink

\* And remove_operand.
LEMMA ShiftType ==
  ASSUME uses \in Bags, NEW u \in User, NEW i \in Nat
  PROVE  Shift(u, i) \in Bags
<1> DEFINE s == operands[u]
           Gets(v, j) == IF j < Len(s) /\ s[j + 1] = v THEN 1 ELSE 0
           Kept(v, j) == IF s[j] = v THEN 0 ELSE uses[v][<<u, j>>]
           Entry(v, j) == IF j > i THEN Kept(v, j) + Gets(v, j)
                          ELSE IF s[i] = v THEN 0 ELSE Kept(v, i) + Gets(v, i)
<1>1. ASSUME NEW v \in Value, NEW k \in UseKey, k[1] = u, k[2] \in i..Len(s)
      PROVE  Entry(v, k[2]) \in Nat
  <2>1. k = <<u, k[2]>> /\ k[2] \in Nat
    BY <1>1, MaxOperandsAssumption DEF UseKey, Position
  <2>2. uses[v][<<u, k[2]>>] \in Nat
    BY <2>1 DEF Bags
  <2>3. Kept(v, k[2]) \in Nat /\ Gets(v, k[2]) \in Nat
    BY <2>2
  <2>4. k[2] > i \/ k[2] = i
    BY <1>1, <2>1
  <2> HIDE DEF s, Gets, Kept
  <2> QED
    BY <2>3, <2>4
<1>2. \A v \in Value, k \in UseKey : uses[v][k] \in Nat
  BY DEF Bags
<1>3. Shift(u, i) = [v \in Value |-> [k \in UseKey |->
        IF k[1] = u /\ k[2] \in i..Len(s) THEN Entry(v, k[2]) ELSE uses[v][k]]]
  BY DEF Shift
<1> HIDE DEF s, Entry
<1> QED
  BY <1>1, <1>2, <1>3 DEF Bags

\* The operand list without one element.
LEMMA WithoutList ==
  ASSUME NEW s \in Lists, NEW i \in DOMAIN s
  PROVE  /\ Without(s, i) \in Lists
         /\ Len(Without(s, i)) = Len(s) - 1
         /\ DOMAIN Without(s, i) = 1..(Len(s) - 1)
         /\ \A j \in 1..(Len(s) - 1) : Without(s, i)[j] = IF j < i THEN s[j] ELSE s[j + 1]
<1>1. Len(s) \in Nat /\ DOMAIN s = 1..Len(s) /\ i \in 1..Len(s)
  BY DEF Lists
<1>2. Len(s) - 1 \in Nat
  BY <1>1
<1>3. Without(s, i) \in [1..(Len(s) - 1) -> Value \cup {Null}]
  BY <1>1 DEF Without, Lists
<1> QED
  BY <1>2, <1>3 DEF Without, Lists

\* Overwriting or appending an operand yields an operand list within the bound.
LEMMA ListType ==
  ASSUME TypeOK, NEW u \in User, NEW v \in Value \cup {Null}
  PROVE  /\ [operands EXCEPT ![u] = <<>>] \in [User -> Lists]
         /\ [operands EXCEPT ![u] = Append(@, v)] \in [User -> Lists]
         /\ \A i \in DOMAIN operands[u] : [operands EXCEPT ![u][i] = v] \in [User -> Lists]
BY DEF TypeOK, Lists

----------------------------------------------------------------------------
\* Type correctness: positions, use lists and the loop record keep their shape,
\* and the operand lists never outgrow the bound.
LEMMA InitTypeOK == Init => TypeOK
BY MaxOperandsAssumption, JobType DEF Init, TypeOK, UseKey, Jobs

LEMMA StepTypeOK == TypeOK /\ [Next]_vars => TypeOK'
<1> SUFFICES ASSUME TypeOK, [Next]_vars PROVE TypeOK'
  OBVIOUS
<1> USE UserAssumption, NullAssumption, MaxOperandsAssumption
<1>a. uses \in Bags /\ operands \in [User -> Lists] /\ alive \subseteq Value
  BY DEF TypeOK, Bags, Lists
<1>b. \A u \in User : DOMAIN operands[u] \subseteq Position
  BY DEF TypeOK, Position
<1>1. ASSUME NEW v \in Value, Construct(v) PROVE TypeOK'
  <2>1. uses' \in Bags
    BY <1>1, <1>a DEF Construct, Bags
  <2>2. operands' \in [User -> Lists] /\ \A u \in User : Len(operands'[u]) <= MaxOperands
    BY <1>1, <1>a DEF Construct, Lists, TypeOK
  <2> QED
    BY <1>1, <2>1, <2>2 DEF Construct, Bags, Lists, TypeOK
<1>2. ASSUME NEW v \in Value, Destroy(v) PROVE TypeOK'
  <2>1. uses' \in Bags
    BY <1>2, <1>a, UnlinkType DEF Destroy
  <2>2. operands' \in [User -> Lists] /\ \A u \in User : Len(operands'[u]) <= MaxOperands
    <3>1. CASE v \in User
      <4>1. operands' = [operands EXCEPT ![v] = <<>>]
        BY <1>2, <3>1 DEF Destroy
      <4>2. operands' \in [User -> Lists]
        BY <1>a, <3>1, <4>1 DEF Lists
      <4>3. \A u \in User : operands'[u] = IF u = v THEN <<>> ELSE operands[u]
        BY <1>a, <4>1
      <4> QED
        BY <4>2, <4>3 DEF TypeOK
    <3>2. CASE v \notin User
      BY <1>2, <1>a, <3>2 DEF Destroy, TypeOK
    <3> QED
      BY <3>1, <3>2
  <2>3. job' \in Jobs
    BY <1>2, JobType DEF Destroy
  <2> QED
    BY <1>2, <2>1, <2>2, <2>3 DEF Destroy, Bags, Lists, TypeOK, Jobs
<1>3. ASSUME NEW u \in User, NEW v \in alive, AddOperand(u, v) PROVE TypeOK'
  <2>1. Len(operands[u]) + 1 \in Position
    BY <1>3, <1>a DEF AddOperand, Position, Lists
  <2>2. uses' \in Bags
    BY <1>3, <1>a, <2>1, EntryType DEF AddOperand
  <2>3. operands' \in [User -> Lists] /\ \A w \in User : Len(operands'[w]) <= MaxOperands
    BY <1>3, <1>a DEF AddOperand, Lists, TypeOK
  <2> QED
    BY <1>3, <2>2, <2>3 DEF AddOperand, Bags, Lists, TypeOK
<1>4. ASSUME NEW u \in User, NEW i \in Position, NEW v \in alive \cup {Null}, SetOperand(u, i, v)
      PROVE TypeOK'
  <2>1. operands[u][i] \in Value \cup {Null}
    BY <1>4, <1>a DEF SetOperand, Lists
  <2>2. uses' \in Bags
    BY <1>4, <1>a, <2>1, RelinkType DEF SetOperand
  <2>3. operands' \in [User -> Lists] /\ \A w \in User : Len(operands'[w]) <= MaxOperands
    BY <1>4, <1>a DEF SetOperand, Lists, TypeOK
  <2> QED
    BY <1>4, <2>2, <2>3 DEF SetOperand, Bags, Lists, TypeOK
<1>5. ASSUME NEW u \in User, RemoveAllOperands(u) PROVE TypeOK'
  <2>1. uses' \in Bags
    BY <1>5, <1>a, UnlinkType DEF RemoveAllOperands
  <2>2. operands' \in [User -> Lists] /\ \A w \in User : Len(operands'[w]) <= MaxOperands
    BY <1>5, <1>a DEF RemoveAllOperands, Lists, TypeOK
  <2> QED
    BY <1>5, <2>1, <2>2 DEF RemoveAllOperands, Bags, Lists, TypeOK
<1>6. ASSUME NEW v \in alive, NEW w \in alive, ReplaceAllUseWith(v, w) PROVE TypeOK'
  <2>1. job' \in Jobs
    BY <1>6, <1>a, JobType DEF ReplaceAllUseWith
  <2> QED
    BY <1>6, <2>1 DEF ReplaceAllUseWith, TypeOK, Jobs
<1>7. ASSUME NEW u \in User, NEW i \in Position, ReplaceOne(u, i) PROVE TypeOK'
  <2>1. operands[u][i] \in Value \cup {Null} /\ job.to \in Value \cup {Null}
    BY <1>7, <1>a DEF ReplaceOne, Lists, TypeOK
  <2>2. uses' \in Bags
    BY <1>7, <1>a, <2>1, RelinkType DEF ReplaceOne
  <2>3. operands' \in [User -> Lists] /\ \A w \in User : Len(operands'[w]) <= MaxOperands
    BY <1>7, <1>a, <2>1 DEF ReplaceOne, Lists, TypeOK
  <2> QED
    BY <1>7, <2>2, <2>3 DEF ReplaceOne, Bags, Lists, TypeOK
<1>8. CASE ReplaceDone
  BY <1>8, JobType DEF ReplaceDone, TypeOK, Jobs
<1>9. CASE UNCHANGED vars
  BY <1>9 DEF vars, TypeOK
<1>10. ASSUME NEW u \in User, NEW i \in Position, RemoveOperand(u, i) PROVE TypeOK'
  <2>1. uses' \in Bags
    BY <1>10, <1>a, ShiftType DEF RemoveOperand, Position
  <2>2. Without(operands[u], i) \in Lists /\ Len(Without(operands[u], i)) <= MaxOperands
    <3>1. operands[u] \in Lists /\ i \in DOMAIN operands[u]
      BY <1>10, <1>a DEF RemoveOperand
    <3>2. Without(operands[u], i) \in Lists /\ Len(Without(operands[u], i)) = Len(operands[u]) - 1
      BY <3>1, WithoutList
    <3>3. Len(operands[u]) \in Nat /\ Len(operands[u]) <= MaxOperands
      BY <3>1 DEF TypeOK, Lists
    <3> QED
      BY <3>2, <3>3
  <2>3. operands' \in [User -> Lists] /\ \A w \in User : Len(operands'[w]) <= MaxOperands
    BY <1>10, <1>a, <2>2 DEF RemoveOperand, TypeOK
  <2> QED
    BY <1>10, <2>1, <2>3 DEF RemoveOperand, Bags, Lists, TypeOK
<1>11. ASSUME NEW v \in alive, NEW w \in alive, NEW only \in Filters, ReplaceUseWithIf(v, w, only)
       PROVE TypeOK'
  <2>1. only \in SUBSET UseKey
    BY FiltersAssumption DEF UseKey, Position
  <2>2. job' \in Jobs
    BY <1>11, <1>a, <2>1, JobType DEF ReplaceUseWithIf
  <2> QED
    BY <1>11, <2>2 DEF ReplaceUseWithIf, TypeOK, Jobs
<1> QED
  BY <1>1, <1>2, <1>3, <1>4, <1>5, <1>6, <1>7, <1>8, <1>9, <1>10, <1>11 DEF Next, Loop

\* Every reachable state of the def-use layer is well typed.
THEOREM ChainsTypeCorrect == Spec => []TypeOK
BY InitTypeOK, StepTypeOK, PTL DEF Spec

----------------------------------------------------------------------------
(* What the helpers do to each entry of the use lists. *)

\* add_use and remove_use touch the one entry Use(u, i) of the one value v.
LEMMA EntryEffect ==
  ASSUME NEW m \in Bags, NEW v \in Value, NEW u \in User, NEW i \in Position,
         NEW x \in Value, NEW w \in User, NEW j \in Position
  PROVE  /\ AddUse(m, v, u, i)[x][<<w, j>>] =
              IF x = v /\ w = u /\ j = i THEN m[v][<<u, i>>] + 1 ELSE m[x][<<w, j>>]
         /\ RemoveUse(m, v, u, i)[x][<<w, j>>] =
              IF x = v /\ w = u /\ j = i THEN 0 ELSE m[x][<<w, j>>]
BY DEF AddUse, RemoveUse, Bags, UseKey

\* set_operand takes the entry from the old operand and gives it to the new one.
LEMMA RelinkEffect ==
  ASSUME NEW m \in Bags, NEW old \in Value \cup {Null}, NEW v \in Value \cup {Null},
         NEW u \in User, NEW i \in Position,
         NEW x \in Value, NEW w \in User, NEW j \in Position
  PROVE  Relink(m, old, v, u, i)[x][<<w, j>>] =
           IF w = u /\ j = i
             THEN (IF x = old THEN 0 ELSE m[x][<<u, i>>]) + (IF x = v THEN 1 ELSE 0)
             ELSE m[x][<<w, j>>]
<1> USE NullAssumption
<1> DEFINE dropped == IF old = Null THEN m ELSE RemoveUse(m, old, u, i)
<1>1. dropped \in Bags
  BY EntryType
<1>2. dropped[x][<<w, j>>] = IF x = old /\ w = u /\ j = i THEN 0 ELSE m[x][<<w, j>>]
  <2>1. CASE old = Null
    BY <2>1
  <2>2. CASE old # Null
    <3>1. old \in Value /\ dropped = RemoveUse(m, old, u, i)
      BY <2>2
    <3>2. RemoveUse(m, old, u, i)[x][<<w, j>>] =
            IF x = old /\ w = u /\ j = i THEN 0 ELSE m[x][<<w, j>>]
      BY <3>1 DEF RemoveUse, Bags, UseKey
    <3> QED
      BY <3>1, <3>2
  <2> QED
    BY <2>1, <2>2
<1>3. dropped[x][<<w, j>>] \in Nat /\ m[x][<<w, j>>] \in Nat
  BY <1>1 DEF Bags, UseKey
<1>4. Relink(m, old, v, u, i) = IF v = Null THEN dropped ELSE AddUse(dropped, v, u, i)
  BY DEF Relink
<1> HIDE DEF dropped
<1>5. CASE v = Null
  BY <1>2, <1>3, <1>4, <1>5
<1>6. CASE v # Null
  <2>1. AddUse(dropped, v, u, i)[x][<<w, j>>] =
          IF x = v /\ w = u /\ j = i THEN dropped[v][<<u, i>>] + 1 ELSE dropped[x][<<w, j>>]
    BY <1>1, <1>6, EntryEffect
  <2> QED
    BY <1>2, <1>3, <1>4, <1>6, <2>1
<1> QED
  BY <1>5, <1>6

\* When use lists and operands agree, remove_all_operands removes exactly the
\* entries of u from the lists of the living values.
LEMMA UnlinkEffect ==
  ASSUME TypeOK, UsesMatchOperands, NEW u \in User,
         NEW x \in alive, NEW w \in User, NEW j \in Position
  PROVE  Unlink(u)[x][<<w, j>>] = IF w = u THEN 0 ELSE uses[x][<<w, j>>]
<1>1. x \in Value /\ <<w, j>> \in UseKey
  BY DEF TypeOK, UseKey
<1>2. Unlink(u)[x][<<w, j>>] =
        IF w = u /\ j \in DOMAIN operands[u] /\ operands[u][j] = x THEN 0 ELSE uses[x][<<w, j>>]
  BY <1>1 DEF Unlink
<1>3. uses[x][<<w, j>>] = IF Uses(w, j, x) THEN 1 ELSE 0
  BY DEF UsesMatchOperands
<1> QED
  BY <1>2, <1>3 DEF Uses

----------------------------------------------------------------------------
(* The inductive invariant. *)

LEMMA InitChains == Init => ChainsInv
<1> SUFFICES ASSUME Init PROVE ChainsInv
  OBVIOUS
<1>1. TypeOK
  BY InitTypeOK
<1>2. JobOK /\ DeadEmpty /\ UsesMatchOperands
  BY DEF Init, JobOK, DeadEmpty, UsesMatchOperands
<1>3. NoDanglingOperand
  BY DEF Init, NoDanglingOperand
<1> QED
  BY <1>1, <1>2, <1>3 DEF ChainsInv

\* set_operand, called by a pass or by the loop of replace_all_use_with, keeps
\* use lists and operands in agreement.
LEMMA RelinkKeepsMatch ==
  ASSUME ChainsInv, NEW u \in User, NEW i \in Position, NEW v \in alive \cup {Null},
         i \in DOMAIN operands[u], u \in alive,
         uses' = Relink(uses, operands[u][i], v, u, i),
         operands' = [operands EXCEPT ![u][i] = v],
         alive' = alive
  PROVE  /\ UsesMatchOperands'
         /\ NoDanglingOperand'
         /\ DeadEmpty'
<1> USE NullAssumption
<1>1. uses \in Bags /\ operands \in [User -> Lists] /\ alive \subseteq Value
  BY DEF ChainsInv, TypeOK, Bags, Lists
<1>2. operands[u][i] \in alive \cup {Null}
  BY DEF ChainsInv, NoDanglingOperand
<1>3. /\ \A w \in User : DOMAIN operands'[w] = DOMAIN operands[w]
      /\ \A w \in User : \A j \in DOMAIN operands[w] :
           operands'[w][j] = IF w = u /\ j = i THEN v ELSE operands[w][j]
  BY <1>1 DEF Lists
<1>4. ASSUME NEW x \in alive, NEW w \in User, NEW j \in Position
      PROVE  uses'[x][<<w, j>>] = IF Uses(w, j, x)' THEN 1 ELSE 0
  <2>1. uses'[x][<<w, j>>] =
          IF w = u /\ j = i
             THEN (IF x = operands[u][i] THEN 0 ELSE uses[x][<<u, i>>]) + (IF x = v THEN 1 ELSE 0)
             ELSE uses[x][<<w, j>>]
    <3>1. uses \in Bags /\ operands[u][i] \in Value \cup {Null} /\ x \in Value /\ v \in Value \cup {Null}
      BY <1>1, <1>2
    <3> DEFINE old == operands[u][i]
    <3> HIDE DEF old
    <3>2. old \in Value \cup {Null} /\ uses' = Relink(uses, old, v, u, i)
      BY <3>1 DEF old
    <3>3. uses'[x][<<w, j>>] =
            IF w = u /\ j = i
               THEN (IF x = old THEN 0 ELSE uses[x][<<u, i>>]) + (IF x = v THEN 1 ELSE 0)
               ELSE uses[x][<<w, j>>]
      BY <3>1, <3>2, RelinkEffect
    <3> QED
      BY <3>3 DEF old
  <2>2. uses[x][<<w, j>>] = IF Uses(w, j, x) THEN 1 ELSE 0
    BY DEF ChainsInv, UsesMatchOperands
  <2>3. CASE w = u /\ j = i
    BY <1>3, <2>1, <2>2, <2>3 DEF Uses
  <2>4. CASE ~(w = u /\ j = i)
    BY <1>3, <2>1, <2>2, <2>4 DEF Uses
  <2> QED
    BY <2>3, <2>4
<1>5. UsesMatchOperands'
  BY <1>4 DEF UsesMatchOperands
<1>6. NoDanglingOperand'
  BY <1>3 DEF ChainsInv, NoDanglingOperand
<1>7. DeadEmpty'
  BY <1>1 DEF ChainsInv, DeadEmpty
<1> QED
  BY <1>5, <1>6, <1>7

\* remove_all_operands, called by a pass or by ~User, does so as well.
LEMMA UnlinkKeepsMatch ==
  ASSUME ChainsInv, NEW u \in User, u \in alive,
         uses' = Unlink(u), operands' = [operands EXCEPT ![u] = <<>>], alive' = alive
  PROVE  UsesMatchOperands' /\ NoDanglingOperand' /\ DeadEmpty'
<1>1. operands \in [User -> Lists]
  BY DEF ChainsInv, TypeOK, Lists
<1>2. ASSUME NEW x \in alive, NEW w \in User, NEW j \in Position
      PROVE  uses'[x][<<w, j>>] = IF Uses(w, j, x)' THEN 1 ELSE 0
  <2>1. uses'[x][<<w, j>>] = IF w = u THEN 0 ELSE uses[x][<<w, j>>]
    BY UnlinkEffect DEF ChainsInv
  <2>2. uses[x][<<w, j>>] = IF Uses(w, j, x) THEN 1 ELSE 0
    BY DEF ChainsInv, UsesMatchOperands
  <2> QED
    BY <1>1, <2>1, <2>2 DEF Uses
<1>3. NoDanglingOperand' /\ DeadEmpty'
  BY <1>1 DEF ChainsInv, NoDanglingOperand, DeadEmpty
<1> QED
  BY <1>2, <1>3 DEF UsesMatchOperands

\* remove_operand(i): with no equal neighbour behind it, the entry that operand i
\* loses at the end is not the one its successor has got.
LEMMA ShiftKeepsMatch ==
  ASSUME ~RemovesTwin, ChainsInv, NEW u \in User, NEW i \in Position, RemoveOperand(u, i)
  PROVE  UsesMatchOperands' /\ NoDanglingOperand' /\ DeadEmpty'
<1> USE NullAssumption
<1> DEFINE s == operands[u]
           n == Len(s)
<1>1. /\ uses \in Bags /\ operands \in [User -> Lists] /\ alive \subseteq Value
      /\ i \in 1..n /\ n \in Nat /\ DOMAIN s = 1..n /\ n <= MaxOperands /\ u \in alive
  BY DEF ChainsInv, TypeOK, Bags, Lists, RemoveOperand
<1>2. /\ operands'[u] = Without(s, i)
      /\ \A w \in User : w # u => operands'[w] = operands[w]
      /\ alive' = alive /\ uses' = Shift(u, i)
  BY <1>1 DEF RemoveOperand
<1>3. /\ DOMAIN operands'[u] = 1..(n - 1)
      /\ \A j \in 1..(n - 1) : operands'[u][j] = IF j < i THEN s[j] ELSE s[j + 1]
  <2>1. s \in Lists /\ i \in DOMAIN s
    BY <1>1
  <2>2. /\ DOMAIN Without(s, i) = 1..(n - 1)
        /\ \A j \in 1..(n - 1) : Without(s, i)[j] = IF j < i THEN s[j] ELSE s[j + 1]
    BY <2>1, WithoutList
  <2> QED
    BY <1>2, <2>2
<1>4. i < n => s[i] # s[i + 1]
  BY DEF RemoveOperand
<1> HIDE DEF n, s
<1>5. ASSUME NEW x \in alive, NEW w \in User, NEW j \in Position
      PROVE  uses'[x][<<w, j>>] = IF Uses(w, j, x)' THEN 1 ELSE 0
  <2>1. x \in Value /\ <<w, j>> \in UseKey /\ j \in Nat /\ j >= 1
    BY <1>1 DEF UseKey, Position
  <2>2. uses[x][<<w, j>>] = IF Uses(w, j, x) THEN 1 ELSE 0
    BY DEF ChainsInv, UsesMatchOperands
  <2>3. CASE w # u
    <3>1. uses'[x][<<w, j>>] = uses[x][<<w, j>>]
      BY <1>2, <2>1, <2>3 DEF Shift
    <3> QED
      BY <1>2, <2>2, <2>3, <3>1 DEF Uses
  <2>4. CASE w = u /\ j \notin i..n
    <3>1. uses'[x][<<w, j>>] = uses[x][<<w, j>>]
      BY <1>2, <2>1, <2>4 DEF Shift, s, n
    <3> QED
      BY <1>1, <1>2, <1>3, <2>1, <2>2, <2>4, <3>1 DEF Uses, s
  <2>5. CASE w = u /\ j \in i..n
    <3> DEFINE Gets == IF j < n /\ s[j + 1] = x THEN 1 ELSE 0
               Kept == IF s[j] = x THEN 0 ELSE uses[x][<<u, j>>]
    <3>1. uses'[x][<<w, j>>] = IF j > i THEN Kept + Gets ELSE IF s[i] = x THEN 0 ELSE Kept + Gets
      <4>1. uses'[x][<<w, j>>] =
              IF j > i THEN Kept + Gets
              ELSE IF s[i] = x THEN 0
              ELSE (IF s[i] = x THEN 0 ELSE uses[x][<<u, i>>])
                     + (IF i < n /\ s[i + 1] = x THEN 1 ELSE 0)
        BY <1>2, <2>1, <2>5 DEF Shift, s, n
      <4>2. j > i \/ j = i
        BY <1>1, <2>1, <2>5
      <4> QED
        BY <4>1, <4>2
    <3>2. Kept = 0
      BY <1>1, <2>2, <2>5 DEF Uses, s
    <3>3. Uses(w, j, x)' <=> (j < n /\ s[j + 1] = x)
      BY <1>1, <1>2, <1>3, <2>1, <2>5 DEF Uses
    <3>4. j = i => (s[i] = x => ~(j < n /\ s[j + 1] = x))
      BY <1>4
    <3> HIDE DEF Kept
    <3> QED
      BY <1>1, <2>1, <2>5, <3>1, <3>2, <3>3, <3>4
  <2> QED
    BY <2>3, <2>4, <2>5
<1>6. NoDanglingOperand'
  BY <1>1, <1>2, <1>3 DEF ChainsInv, NoDanglingOperand, s
<1>7. DeadEmpty'
  BY <1>1, <1>2 DEF ChainsInv, DeadEmpty
<1> QED
  BY <1>2, <1>5, <1>6, <1>7 DEF UsesMatchOperands

\* The inductive step: one named step per action of Next.
LEMMA StepChains == ASSUME ~RemovesTwin PROVE ChainsInv /\ [Next]_vars => ChainsInv'
<1> SUFFICES ASSUME ChainsInv, [Next]_vars PROVE ChainsInv'
  OBVIOUS
<1> USE UserAssumption, NullAssumption
<1>t. TypeOK'
  BY StepTypeOK DEF ChainsInv
<1>a. /\ uses \in Bags /\ operands \in [User -> Lists] /\ alive \subseteq Value
      /\ \A u \in User : Len(operands[u]) <= MaxOperands
  BY DEF ChainsInv, TypeOK, Bags, Lists
<1>1. ASSUME NEW v \in Value, Construct(v) PROVE ChainsInv'
  <2>1. \A u \in User : operands'[u] = operands[u]
    BY <1>1, <1>a DEF Construct, ChainsInv, DeadEmpty
  <2>2. DeadEmpty' /\ NoDanglingOperand' /\ JobOK'
    BY <1>1, <2>1 DEF Construct, ChainsInv, DeadEmpty, NoDanglingOperand, JobOK
  <2>3. ASSUME NEW x \in alive', NEW u \in User, NEW i \in Position
        PROVE  uses'[x][<<u, i>>] = IF Uses(u, i, x)' THEN 1 ELSE 0
    <3>1. CASE x = v
      <4>1. uses'[x][<<u, i>>] = 0
        BY <1>1, <1>a, <3>1 DEF Construct, Bags, UseKey
      <4>2. ~ Uses(u, i, x)'
        BY <1>1, <2>1, <3>1 DEF Construct, Uses, ChainsInv, NoDanglingOperand, DeadEmpty
      <4> QED
        BY <4>1, <4>2
    <3>2. CASE x # v
      <4>1. x \in alive /\ uses'[x] = uses[x]
        BY <1>1, <1>a, <3>2 DEF Construct, Bags
      <4>2. Uses(u, i, x)' <=> Uses(u, i, x)
        BY <1>1, <2>1 DEF Construct, Uses, ChainsInv, DeadEmpty
      <4> QED
        BY <4>1, <4>2 DEF ChainsInv, UsesMatchOperands
    <3> QED
      BY <3>1, <3>2
  <2> QED
    BY <1>t, <2>2, <2>3 DEF ChainsInv, UsesMatchOperands
<1>2. ASSUME NEW v \in Value, Destroy(v) PROVE ChainsInv'
  <2>1. UsesMatchOperands' /\ NoDanglingOperand' /\ DeadEmpty'
    <3>1. CASE v \in User
      BY <1>2, <3>1, UnlinkKeepsMatch DEF Destroy
    <3>2. CASE v \notin User
      BY <1>2, <3>2 DEF Destroy, ChainsInv, UsesMatchOperands, Uses, NoDanglingOperand, DeadEmpty
    <3> QED
      BY <3>1, <3>2
  <2>2. JobOK'
    BY <1>2, <1>a DEF Destroy, JobOK, Idle, Job
  <2> QED
    BY <1>t, <2>1, <2>2 DEF ChainsInv
<1>3. ASSUME NEW u \in User, NEW v \in alive, AddOperand(u, v) PROVE ChainsInv'
  <2> DEFINE n == Len(operands[u]) + 1
  <2>1. n \in Position /\ n \notin DOMAIN operands[u]
    BY <1>3, <1>a, MaxOperandsAssumption DEF AddOperand, Position, Lists
  <2>2. /\ DOMAIN operands'[u] = DOMAIN operands[u] \cup {n}
        /\ \A j \in DOMAIN operands[u] : operands'[u][j] = operands[u][j]
        /\ operands'[u][n] = v
        /\ \A w \in User : w # u => operands'[w] = operands[w]
    BY <1>3, <1>a DEF AddOperand, Lists
  <2>3. uses' = AddUse(uses, v, u, n)
    BY <1>3 DEF AddOperand
  <2> HIDE DEF n
  <2>4. ASSUME NEW x \in alive, NEW w \in User, NEW j \in Position
        PROVE  uses'[x][<<w, j>>] = IF Uses(w, j, x)' THEN 1 ELSE 0
    <3>1. uses'[x][<<w, j>>] =
            IF x = v /\ w = u /\ j = n THEN uses[v][<<u, n>>] + 1 ELSE uses[x][<<w, j>>]
      BY <1>a, <2>1, <2>3, EntryEffect
    <3>2. uses[x][<<w, j>>] = IF Uses(w, j, x) THEN 1 ELSE 0
      BY DEF ChainsInv, UsesMatchOperands
    <3>3. CASE w = u /\ j = n
      BY <1>3, <2>1, <2>2, <3>1, <3>2, <3>3 DEF AddOperand, Uses
    <3>4. CASE ~(w = u /\ j = n)
      BY <1>3, <2>1, <2>2, <3>1, <3>2, <3>4 DEF AddOperand, Uses
    <3> QED
      BY <3>3, <3>4
  <2>5. UsesMatchOperands'
    BY <1>3, <2>4 DEF AddOperand, UsesMatchOperands
  <2>6. NoDanglingOperand' /\ DeadEmpty' /\ JobOK'
    BY <1>3, <2>2 DEF AddOperand, ChainsInv, NoDanglingOperand, DeadEmpty, JobOK
  <2> QED
    BY <1>t, <2>5, <2>6 DEF ChainsInv
<1>4. ASSUME NEW u \in User, NEW i \in Position, NEW v \in alive \cup {Null}, SetOperand(u, i, v)
      PROVE ChainsInv'
  <2>1. UsesMatchOperands' /\ NoDanglingOperand' /\ DeadEmpty'
    BY <1>4, RelinkKeepsMatch DEF SetOperand
  <2>2. JobOK'
    BY <1>4 DEF SetOperand, JobOK
  <2> QED
    BY <1>t, <2>1, <2>2 DEF ChainsInv
<1>5. ASSUME NEW u \in User, RemoveAllOperands(u) PROVE ChainsInv'
  <2>1. UsesMatchOperands' /\ NoDanglingOperand' /\ DeadEmpty'
    BY <1>5, UnlinkKeepsMatch DEF RemoveAllOperands
  <2>2. JobOK'
    BY <1>5 DEF RemoveAllOperands, JobOK
  <2> QED
    BY <1>t, <2>1, <2>2 DEF ChainsInv
<1>6. ASSUME NEW v \in alive, NEW w \in alive, ReplaceAllUseWith(v, w) PROVE ChainsInv'
  <2>1. JobOK'
    BY <1>6 DEF ReplaceAllUseWith, JobOK, Job
  <2>2. UsesMatchOperands' /\ NoDanglingOperand' /\ DeadEmpty'
    BY <1>6 DEF ReplaceAllUseWith, ChainsInv, UsesMatchOperands, Uses, NoDanglingOperand, DeadEmpty
  <2> QED
    BY <1>t, <2>1, <2>2 DEF ChainsInv
<1>7. ASSUME NEW u \in User, NEW i \in Position, ReplaceOne(u, i) PROVE ChainsInv'
  <2>1. u \in alive /\ operands[u][i] = job.from /\ job.to \in alive \cup {Null}
    BY <1>7 DEF ReplaceOne, ChainsInv, JobOK, UsesMatchOperands, Uses
  <2>2. UsesMatchOperands' /\ NoDanglingOperand' /\ DeadEmpty'
    BY <1>7, <2>1, RelinkKeepsMatch DEF ReplaceOne
  <2>3. job.from \in User => operands'[job.from] = operands[job.from] \/ ~ job.dying
    BY <1>7, <1>a, <2>1 DEF ReplaceOne, ChainsInv, JobOK
  <2>4. JobOK'
    BY <1>7, <2>3 DEF ReplaceOne, ChainsInv, JobOK
  <2> QED
    BY <1>t, <2>2, <2>4 DEF ChainsInv
<1>8. CASE ReplaceDone
  <2>1. JobOK'
    BY <1>8 DEF ReplaceDone, JobOK
  <2>2. ASSUME NEW u \in User, NEW i \in DOMAIN operands[u], u \in alive, job.dying
        PROVE  operands[u][i] # job.from
    <3>1. i \in Position
      BY <1>a, MaxOperandsAssumption DEF Position, Lists
    <3>2. uses[job.from][<<u, i>>] = 0
      BY <1>8, <2>2, <3>1 DEF ReplaceDone, ChainsInv, JobOK, UseKey
    <3> QED
      BY <1>8, <2>2, <3>1, <3>2 DEF ReplaceDone, ChainsInv, JobOK, UsesMatchOperands, Uses
  <2>3. \A u \in User : u \in alive /\ u \notin alive' => operands[u] = <<>>
    BY <1>8 DEF ReplaceDone, ChainsInv, JobOK
  <2>4. DeadEmpty'
    BY <1>8, <2>3 DEF ReplaceDone, ChainsInv, DeadEmpty
  <2>5. NoDanglingOperand'
    BY <1>8, <2>2 DEF ReplaceDone, ChainsInv, NoDanglingOperand
  <2>6. ASSUME NEW x \in alive', NEW u \in User, NEW i \in Position
        PROVE  uses'[x][<<u, i>>] = IF Uses(u, i, x)' THEN 1 ELSE 0
    <3>1. x \in alive /\ uses' = uses /\ operands' = operands
      BY <1>8 DEF ReplaceDone
    <3>2. Uses(u, i, x)' <=> Uses(u, i, x)
      BY <1>8, <2>3, <3>1 DEF ReplaceDone, Uses
    <3> QED
      BY <3>1, <3>2 DEF ChainsInv, UsesMatchOperands
  <2> QED
    BY <1>t, <2>1, <2>4, <2>5, <2>6 DEF ChainsInv, UsesMatchOperands
<1>9. CASE UNCHANGED vars
  BY <1>t, <1>9 DEF vars, ChainsInv, JobOK, DeadEmpty, UsesMatchOperands, Uses, NoDanglingOperand
<1>10. ASSUME NEW u \in User, NEW i \in Position, RemoveOperand(u, i) PROVE ChainsInv'
  <2>1. UsesMatchOperands' /\ NoDanglingOperand' /\ DeadEmpty'
    BY <1>10, ShiftKeepsMatch
  <2>2. JobOK'
    BY <1>10 DEF RemoveOperand, JobOK
  <2> QED
    BY <1>t, <2>1, <2>2 DEF ChainsInv
<1>11. ASSUME NEW v \in alive, NEW w \in alive, NEW only \in Filters, ReplaceUseWithIf(v, w, only)
       PROVE ChainsInv'
  <2>1. JobOK'
    BY <1>11 DEF ReplaceUseWithIf, JobOK, Job
  <2>2. UsesMatchOperands' /\ NoDanglingOperand' /\ DeadEmpty'
    BY <1>11 DEF ReplaceUseWithIf, ChainsInv, UsesMatchOperands, Uses, NoDanglingOperand, DeadEmpty
  <2> QED
    BY <1>t, <2>1, <2>2 DEF ChainsInv
<1> QED
  BY <1>1, <1>2, <1>3, <1>4, <1>5, <1>6, <1>7, <1>8, <1>9, <1>10, <1>11 DEF Next, Loop

\* In every reachable state the use lists are exactly the inverse of the operand
\* lists, whatever the values, the users and the bound.
THEOREM UsesAlwaysMatch == ASSUME ~RemovesTwin PROVE Spec => []UsesMatchOperands
<1>1. ChainsInv => UsesMatchOperands
  BY DEF ChainsInv
<1> QED
  BY InitChains, StepChains, <1>1, PTL DEF Spec

\* No living user ever holds a pointer to a destroyed value.
THEOREM NeverDangling == ASSUME ~RemovesTwin PROVE Spec => []NoDanglingOperand
<1>1. ChainsInv => NoDanglingOperand
  BY DEF ChainsInv
<1> QED
  BY InitChains, StepChains, <1>1, PTL DEF Spec

----------------------------------------------------------------------------
(* Refinement of the operand graph. *)

LEMMA InitRefines == Init => Graph!Init
BY DEF Init, Graph!Init, operandsBar, aliveBar, Idle

\* Every step of the def-use layer is a step of the graph or leaves it alone.
LEMMA StepRefines == ASSUME ~RemovesTwin PROVE ChainsInv /\ [Next]_vars => [Graph!Next]_(Graph!vars)
<1> SUFFICES ASSUME ChainsInv, [Next]_vars PROVE Graph!Next \/ UNCHANGED <<aliveBar, operandsBar>>
  BY DEF Graph!vars
<1> USE UserAssumption, NullAssumption
<1>a. /\ operands \in [User -> Lists] /\ alive \subseteq Value
      /\ \A u \in User : Len(operands[u]) <= MaxOperands
  BY DEF ChainsInv, TypeOK, Lists
<1>b. \A u \in User : DOMAIN operands[u] \subseteq 1..MaxOperands
  BY <1>a, MaxOperandsAssumption DEF Lists
<1>i. job = Idle => aliveBar = alive /\ operandsBar = operands
  BY DEF aliveBar, operandsBar, Idle, Job
<1>j. job' = Idle => aliveBar' = alive' /\ operandsBar' = operands'
  BY DEF aliveBar, operandsBar, Idle, Job
<1>1. ASSUME NEW v \in Value, Construct(v) PROVE Graph!Create(v)
  <2>1. operands' = operands
    BY <1>1, <1>a DEF Construct, ChainsInv, DeadEmpty
  <2> QED
    BY <1>1, <1>i, <1>j, <2>1 DEF Construct, Graph!Create
<1>2. ASSUME NEW v \in Value, Destroy(v) PROVE Graph!Delete(v)
  <2>1. aliveBar' = alive \ {v} /\ aliveBar = alive
    BY <1>2, <1>i DEF Destroy, aliveBar, Job
  <2>2. \A u \in User : operands'[u] = IF u = v THEN <<>> ELSE operands[u]
    BY <1>2, <1>a DEF Destroy
  <2>a. job' # Idle /\ job'.from = v /\ job'.to = Null /\ job'.only = UseKey
    BY <1>2 DEF Destroy, Idle, Job
  <2>b. \A u \in User : \A i \in DOMAIN operands'[u] : <<u, i>> \in UseKey
    BY <1>b, <2>2 DEF UseKey, Position
  <2>3. operandsBar' = [u \in User |-> [i \in DOMAIN operands'[u] |->
                          IF operands'[u][i] = v THEN Null ELSE operands'[u][i]]]
    BY <2>a, <2>b DEF operandsBar
  <2>4. \A u \in User : operandsBar'[u] =
           IF u = v THEN <<>> ELSE Graph!Substitute(operands[u], v, Null)
    BY <2>2, <2>3 DEF Graph!Substitute
  <2>5. operandsBar' = [u \in User |-> IF u = v THEN <<>>
                                        ELSE Graph!Substitute(operands[u], v, Null)]
    BY <2>3, <2>4
  <2> QED
    BY <1>2, <1>i, <2>1, <2>5 DEF Destroy, Graph!Delete
<1>3. ASSUME NEW u \in User, NEW v \in alive, AddOperand(u, v) PROVE Graph!AppendTo(u, v)
  BY <1>3, <1>i, <1>j DEF AddOperand, Graph!AppendTo
<1>4. ASSUME NEW u \in User, NEW i \in Position, NEW v \in alive \cup {Null}, SetOperand(u, i, v)
      PROVE Graph!Assign(u, i, v)
  BY <1>4, <1>i, <1>j DEF SetOperand, Graph!Assign
<1>5. ASSUME NEW u \in User, RemoveAllOperands(u) PROVE Graph!Clear(u)
  BY <1>5, <1>i, <1>j DEF RemoveAllOperands, Graph!Clear
<1>6. ASSUME NEW v \in alive, NEW w \in alive, ReplaceAllUseWith(v, w)
      PROVE v # w /\ Graph!ReplaceAll(v, w)
  <2>1. /\ job = Idle /\ job' # Idle /\ job'.from = v /\ job'.to = w /\ ~ job'.dying
        /\ job'.only = UseKey
    BY <1>6 DEF ReplaceAllUseWith, Idle, Job
  <2>2. \A u \in User : \A i \in DOMAIN operands[u] : <<u, i>> \in UseKey
    BY <1>b DEF UseKey, Position
  <2>3. operandsBar' = [u \in User |-> Graph!Substitute(operands[u], v, w)]
    BY <1>6, <2>1, <2>2 DEF ReplaceAllUseWith, operandsBar, Graph!Substitute
  <2> QED
    BY <1>6, <1>i, <2>1, <2>3 DEF ReplaceAllUseWith, Graph!ReplaceAll, aliveBar
<1>7. ASSUME NEW u \in User, NEW i \in Position, ReplaceOne(u, i)
      PROVE UNCHANGED <<aliveBar, operandsBar>>
  <2>1. /\ operands[u][i] = job.from /\ i \in DOMAIN operands[u] /\ job.from # job.to
        /\ <<u, i>> \in job.only
    BY <1>7 DEF ReplaceOne, ChainsInv, JobOK, UsesMatchOperands, Uses
  <2>2. /\ \A w \in User : DOMAIN operands'[w] = DOMAIN operands[w]
        /\ \A w \in User : \A j \in DOMAIN operands[w] :
             operands'[w][j] = IF w = u /\ j = i THEN job.to ELSE operands[w][j]
    BY <1>7, <1>a, <2>1 DEF ReplaceOne, Lists
  <2>3. job' = job /\ alive' = alive /\ job # Idle
    BY <1>7 DEF ReplaceOne
  <2>4. ASSUME NEW w \in User, NEW j \in DOMAIN operands[w]
        PROVE  (IF operands'[w][j] = job.from /\ <<w, j>> \in job.only THEN job.to ELSE operands'[w][j])
                 = IF operands[w][j] = job.from /\ <<w, j>> \in job.only THEN job.to ELSE operands[w][j]
    <3>1. operands'[w][j] = IF w = u /\ j = i THEN job.to ELSE operands[w][j]
      BY <2>2
    <3>2. CASE w = u /\ j = i
      BY <2>1, <3>1, <3>2
    <3>3. CASE ~(w = u /\ j = i)
      BY <3>1, <3>3
    <3> QED
      BY <3>2, <3>3
  <2>5. operandsBar' = operandsBar
    BY <2>2, <2>3, <2>4 DEF operandsBar
  <2> QED
    BY <2>3, <2>5 DEF aliveBar
<1>8. ASSUME ReplaceDone PROVE UNCHANGED <<aliveBar, operandsBar>>
  <2>1. ASSUME NEW u \in User, NEW i \in DOMAIN operands[u]
        PROVE  ~(operands[u][i] = job.from /\ <<u, i>> \in job.only)
    <3>1. i \in Position /\ u \in alive
      BY <1>b DEF Position, ChainsInv, DeadEmpty
    <3>2. <<u, i>> \in job.only => uses[job.from][<<u, i>>] = 0
      BY <1>8 DEF ReplaceDone
    <3> QED
      BY <1>8, <2>1, <3>1, <3>2 DEF ReplaceDone, ChainsInv, JobOK, UsesMatchOperands, Uses
  <2>2. operandsBar = [u \in User |-> [i \in DOMAIN operands[u] |-> operands[u][i]]]
    BY <1>8, <2>1 DEF ReplaceDone, operandsBar
  <2>3. \A u \in User : [i \in DOMAIN operands[u] |-> operands[u][i]] = operands[u]
    BY <1>a DEF Lists
  <2>4. operandsBar = operands
    BY <1>a, <2>2, <2>3
  <2> QED
    BY <1>8, <1>j, <2>4 DEF ReplaceDone, aliveBar
<1>9. ASSUME UNCHANGED vars PROVE UNCHANGED <<aliveBar, operandsBar>>
  BY <1>9 DEF vars, aliveBar, operandsBar
<1>10. ASSUME NEW u \in User, NEW i \in Position, RemoveOperand(u, i) PROVE Graph!Remove(u, i)
  BY <1>10, <1>i, <1>j DEF RemoveOperand, Graph!Remove, Without
<1>11. ASSUME NEW v \in alive, NEW w \in alive, NEW only \in Filters, ReplaceUseWithIf(v, w, only)
       PROVE v # w /\ Graph!ReplaceSome(v, w, only)
  <2>1. /\ job = Idle /\ job' # Idle /\ job'.from = v /\ job'.to = w /\ ~ job'.dying
        /\ job'.only = only
    BY <1>11 DEF ReplaceUseWithIf, Idle, Job
  <2>2. operands' = operands /\ alive' = alive /\ v # w
    BY <1>11 DEF ReplaceUseWithIf
  <2> QED
    BY <1>i, <2>1, <2>2 DEF operandsBar, aliveBar, Graph!ReplaceSome
<1>12. ASSUME Next PROVE Graph!Next \/ UNCHANGED <<aliveBar, operandsBar>>
  <2>1. CASE \E v \in Value : Construct(v) \/ Destroy(v)
    BY <1>1, <1>2, <2>1 DEF Graph!Next
  <2>2. CASE \E u \in User, v \in alive : AddOperand(u, v)
    BY <1>3, <1>i, <2>2 DEF Graph!Next, AddOperand
  <2>3. CASE \E u \in User, i \in Position, v \in alive \cup {Null} : SetOperand(u, i, v)
    BY <1>4, <1>i, <2>3 DEF Graph!Next, SetOperand, Position
  <2>4. CASE \E u \in User : RemoveAllOperands(u)
    BY <1>5, <2>4 DEF Graph!Next
  <2>5. CASE \E v, w \in alive : ReplaceAllUseWith(v, w)
    BY <1>6, <1>i, <2>5 DEF Graph!Next, ReplaceAllUseWith
  <2>6. CASE Loop
    BY <1>7, <1>8, <2>6 DEF Loop
  <2>7. CASE \E u \in User, i \in Position : RemoveOperand(u, i)
    BY <1>10, <2>7 DEF Graph!Next, Position
  <2>8. CASE \E v, w \in alive, only \in Filters : ReplaceUseWithIf(v, w, only)
    BY <1>11, <1>i, <2>8 DEF Graph!Next, ReplaceUseWithIf
  <2> QED
    BY <1>12, <2>1, <2>2, <2>3, <2>4, <2>5, <2>6, <2>7, <2>8 DEF Next
<1> QED
  BY <1>9, <1>12

\* The def-use layer, with its use lists and its loop, implements the operand
\* graph in which replacing all uses and deleting a value are single steps.
THEOREM Refinement == ASSUME ~RemovesTwin PROVE Spec => ImplementsGraph
BY InitChains, StepChains, InitRefines, StepRefines, PTL DEF Spec, ImplementsGraph, Graph!Spec

----------------------------------------------------------------------------
(* The control-flow graph. *)

BlocksInv == BlocksTypeOK /\ EdgesAgree /\ ListsInFunction /\ BranchesReachLiving

----------------------------------------------------------------------------
(* Branch operands. *)

LEMMA CountType == \A s, b : Count(s, b) \in Nat
  BY DEF Count

LEMMA TargetsShape ==
  ASSUME NEW s \in Targets
  PROVE  /\ \/ s = <<>>
            \/ \E t \in Block \cup {NullBlock} : s = <<t>>
            \/ \E t, f \in Block \cup {NullBlock} : s = <<t, f>>
         /\ s \in Seq(Block \cup {NullBlock})
         /\ Len(s) \in 0..2
         /\ DOMAIN s = 1..Len(s)
<1>1. \/ s = <<>>
      \/ \E t \in Block \cup {NullBlock} : s = <<t>>
      \/ \E t, f \in Block \cup {NullBlock} : s = <<t, f>>
  BY DEF Targets
<1>2. s \in Seq(Block \cup {NullBlock}) /\ Len(s) \in 0..2
  <2>1. CASE s = <<>>
    BY <2>1
  <2>2. CASE \E t \in Block \cup {NullBlock} : s = <<t>>
    BY <2>2
  <2>3. CASE \E t, f \in Block \cup {NullBlock} : s = <<t, f>>
    BY <2>3
  <2> QED
    BY <1>1, <2>1, <2>2, <2>3
<1> QED
  BY <1>1, <1>2

\* A block is counted exactly when it is a target.
LEMMA CountIsTarget ==
  ASSUME NEW s \in Targets, NEW b \in Block
  PROVE  (Count(s, b) = 0) <=> ~IsTarget(s, b)
<1>1. Len(s) \in 0..2 /\ DOMAIN s = 1..Len(s)
  BY TargetsShape
<1>2. CASE Len(s) = 0
  BY <1>1, <1>2 DEF Count, IsTarget
<1>3. CASE Len(s) = 1
  BY <1>1, <1>3 DEF Count, IsTarget
<1>4. CASE Len(s) = 2
  BY <1>1, <1>4 DEF Count, IsTarget
<1> QED
  BY <1>1, <1>2, <1>3, <1>4

\* Turning a target into null keeps the shape, and counts every other block alike.
LEMMA NulledShape ==
  ASSUME NEW s \in Targets, NEW b \in Block
  PROVE  LET n == [i \in DOMAIN s |-> IF s[i] = b THEN NullBlock ELSE s[i]]
         IN  /\ n \in Targets
             /\ DOMAIN n = DOMAIN s
             /\ \A c \in Block \ {b} : Count(n, c) = Count(s, c)
<1> DEFINE n == [i \in DOMAIN s |-> IF s[i] = b THEN NullBlock ELSE s[i]]
<1>1. CASE s = <<>>
  <2>1. n = <<>>
    BY <1>1
  <2> QED
    BY <2>1, <1>1
<1>2. CASE \E t \in Block \cup {NullBlock} : s = <<t>>
  <2>1. PICK t \in Block \cup {NullBlock} : s = <<t>>
    BY <1>2
  <2> DEFINE u == IF t = b THEN NullBlock ELSE t
  <2>2. n = <<u>>
    BY <2>1
  <2>3. n \in Targets
    BY <2>2 DEF Targets
  <2>4. \A c \in Block \ {b} : Count(n, c) = Count(s, c)
    BY <2>1, <2>2, NullBlockAssumption DEF Count
  <2> QED
    BY <2>3, <2>4, <2>1
<1>3. CASE \E t, f \in Block \cup {NullBlock} : s = <<t, f>>
  <2>1. PICK t \in Block \cup {NullBlock}, f \in Block \cup {NullBlock} : s = <<t, f>>
    BY <1>3
  <2> DEFINE u == IF t = b THEN NullBlock ELSE t
             v == IF f = b THEN NullBlock ELSE f
  <2>2. n = <<u, v>>
    BY <2>1
  <2>3. n \in Targets
    <3>1. u \in Block \cup {NullBlock} /\ v \in Block \cup {NullBlock}
      OBVIOUS
    <3> HIDE DEF n, u, v
    <3>2. <<u, v>> \in {<<x, y>> : x, y \in Block \cup {NullBlock}}
      BY <3>1
    <3> QED
      BY <2>2, <3>2 DEF Targets
  <2>4. \A c \in Block \ {b} : Count(n, c) = Count(s, c)
    BY <2>1, <2>2, NullBlockAssumption DEF Count
  <2> QED
    BY <2>3, <2>4, <2>1
<1> QED
  BY <1>1, <1>2, <1>3, TargetsShape

----------------------------------------------------------------------------
(* One lemma for each step. *)

LEMMA InitBlocks == BlocksInit => BlocksInv
<1> SUFFICES ASSUME BlocksInit PROVE BlocksInv
  OBVIOUS
<1>1. <<>> \in Targets
  BY DEF Targets
<1>2. BlocksTypeOK
  BY <1>1 DEF BlocksInit, BlocksTypeOK, Empty
<1> QED
  BY <1>2 DEF BlocksInit, BlocksInv, EdgesAgree, ListsInFunction, BranchesReachLiving

\* Blocks outside the function are in no list.
LEMMA NotListed ==
  ASSUME BlocksInv, ~teardown, NEW c \in linked, NEW n \in Block, n \notin linked
  PROVE  c \in Block /\ pre[c][n] = 0 /\ succ[c][n] = 0
<1>1. BlocksTypeOK /\ ListsInFunction
  BY DEF BlocksInv
<1>2. c \in Block /\ pre[c][n] \in Nat /\ succ[c][n] \in Nat
  BY <1>1 DEF BlocksTypeOK
<1>3. ~ (pre[c][n] > 0) /\ ~ (succ[c][n] > 0)
  BY <1>1 DEF ListsInFunction
<1> QED
  BY <1>2, <1>3

LEMMA CreateBlockOK ==
  ASSUME BlocksInv, NEW b \in Block, CreateBlock(b)
  PROVE  BlocksInv'
<1> USE DEF CreateBlock
<1>1. <<>> \in Targets
  BY DEF Targets
<1>2. BlocksTypeOK'
  BY <1>1 DEF BlocksInv, BlocksTypeOK, Empty
<1>3. \A a \in linked : a # b /\ succ[a][b] = 0 /\ pre[a][b] = 0
  BY DEF BlocksInv, BlocksTypeOK, ListsInFunction
<1>4. \A a \in linked : Count(targets[a], b) = 0
  <2> SUFFICES ASSUME NEW a \in linked PROVE Count(targets[a], b) = 0
    OBVIOUS
  <2>1. targets[a] \in Targets /\ a \in living
    BY DEF BlocksInv, BlocksTypeOK
  <2>2. ~IsTarget(targets[a], b)
    BY <2>1, NullBlockAssumption DEF BlocksInv, BranchesReachLiving, IsTarget
  <2> QED
    BY <2>1, <2>2, CountIsTarget
<1>5. Count(<<>>, b) = 0 /\ \A a : Count(<<>>, a) = 0
  BY DEF Count
<1>6. EdgesAgree'
  <2>1. /\ linked' = linked \cup {b} /\ linked \subseteq Block
        /\ \A a \in linked : pre'[a] = pre[a] /\ succ'[a] = succ[a] /\ targets'[a] = targets[a]
        /\ pre'[b] = Empty /\ succ'[b] = Empty /\ targets'[b] = <<>>
    BY <1>3 DEF BlocksInv, BlocksTypeOK
  <2>2. ASSUME NEW a \in linked, NEW c \in linked
        PROVE  succ'[a][c] = pre'[c][a] /\ succ'[a][c] = Count(targets'[a], c)
    BY <2>1 DEF BlocksInv, EdgesAgree
  <2>3. ASSUME NEW a \in linked \cup {b}
        PROVE  /\ succ'[a][b] = 0 /\ pre'[a][b] = 0 /\ succ'[b][a] = 0 /\ pre'[b][a] = 0
               /\ Count(targets'[a], b) = 0 /\ Count(targets'[b], a) = 0
    BY <1>3, <1>4, <1>5, <2>1 DEF Empty
  <2> QED
    BY <2>1, <2>2, <2>3 DEF EdgesAgree
<1>7. ListsInFunction'
  BY <1>3 DEF BlocksInv, BlocksTypeOK, ListsInFunction, Empty
<1>8. BranchesReachLiving'
  BY DEF BlocksInv, BlocksTypeOK, BranchesReachLiving
<1> QED
  BY <1>2, <1>6, <1>7, <1>8 DEF BlocksInv

LEMMA CreateBranchOK ==
  ASSUME BlocksInv, NEW b \in Block, NEW s \in Targets, CreateBranch(b, s)
  PROVE  BlocksInv'
<1> USE DEF CreateBranch
<1>1. \A t \in Block : Count(s, t) \in Nat
  BY CountType
<1>2. /\ pre' = [t \in Block |-> [pre[t] EXCEPT ![b] = pre[t][b] + Count(s, t)]]
      /\ succ' = [succ EXCEPT ![b] = [t \in Block |-> succ[b][t] + Count(s, t)]]
  BY DEF PreAdded, SuccAdded, BlocksInv, BlocksTypeOK
<1>3. BlocksTypeOK'
  <2>1. pre' \in [Block -> [Block -> Nat]]
    BY <1>1, <1>2 DEF BlocksInv, BlocksTypeOK
  <2>2. succ' \in [Block -> [Block -> Nat]]
    BY <1>1, <1>2 DEF BlocksInv, BlocksTypeOK
  <2> QED
    BY <2>1, <2>2 DEF BlocksInv, BlocksTypeOK
<1>4. targets[b] = <<>> /\ \A t : Count(<<>>, t) = 0
  BY DEF IsTerminated, Count
<1>5. EdgesAgree'
  <2> SUFFICES ASSUME NEW a \in linked, NEW c \in linked
               PROVE  /\ succ'[a][c] = pre'[c][a]
                      /\ succ'[a][c] = Count(targets'[a], c)
    BY DEF EdgesAgree
  <2>1. a \in Block /\ c \in Block
    BY DEF BlocksInv, BlocksTypeOK
  <2>2. succ[a][c] = pre[c][a] /\ succ[a][c] = Count(targets[a], c)
    BY DEF BlocksInv, EdgesAgree
  <2>3. CASE a = b
    <3>1. succ[b][c] = 0 /\ pre[c][b] = 0
      BY <2>2, <2>3, <1>4
    <3>2. targets'[a] = s
      BY <2>1, <2>3 DEF BlocksInv, BlocksTypeOK
    <3>3. succ'[a][c] = succ[b][c] + Count(s, c) /\ pre'[c][a] = pre[c][b] + Count(s, c)
      BY <2>1, <2>3, <1>2 DEF BlocksInv, BlocksTypeOK
    <3>4. succ'[a][c] = Count(s, c) /\ pre'[c][a] = Count(s, c)
      BY <2>1, <3>1, <3>3, <1>1
    <3> QED
      BY <3>2, <3>4
  <2>4. CASE a # b
    BY <2>1, <2>2, <2>4, <1>2 DEF BlocksInv, BlocksTypeOK
  <2> QED
    BY <2>3, <2>4
<1>6. \A t \in Block : t \notin linked => Count(s, t) = 0
  <2> SUFFICES ASSUME NEW t \in Block, t \notin linked PROVE Count(s, t) = 0
    OBVIOUS
  <2>1. ~IsTarget(s, t)
    BY DEF IsTarget
  <2> QED
    BY <2>1, CountIsTarget
<1>7. ListsInFunction'
  <2> SUFFICES ASSUME NEW c \in linked, NEW n \in Block, n \notin linked
               PROVE  pre'[c][n] = 0 /\ succ'[c][n] = 0
    BY <1>3 DEF ListsInFunction, BlocksTypeOK
  <2>1. c \in Block /\ n # b /\ pre[c][n] = 0 /\ succ[c][n] = 0
    BY NotListed
  <2> QED
    BY <2>1, <1>2, <1>6 DEF BlocksInv, BlocksTypeOK
<1>8. BranchesReachLiving'
  BY DEF BlocksInv, BlocksTypeOK, BranchesReachLiving
<1> QED
  BY <1>3, <1>5, <1>7, <1>8 DEF BlocksInv

LEMMA CreateRetOK ==
  ASSUME BlocksInv, NEW b \in Block, CreateRet(b)
  PROVE  BlocksInv'
BY DEF BlocksInv, BlocksTypeOK, CreateRet, EdgesAgree, ListsInFunction, BranchesReachLiving

\* What the end of a branch does to lists: those of b lose its targets, and the
\* targets lose b.
LEMMA DroppedLists ==
  ASSUME BlocksTypeOK, NEW b \in Block
  PROVE  /\ PreDropped(b) \in [Block -> [Block -> Nat]]
         /\ SuccDropped(b) \in [Block -> [Block -> Nat]]
         /\ \A t, a \in Block :
              PreDropped(b)[t][a] = IF a = b /\ IsTarget(targets[b], t) THEN 0 ELSE pre[t][a]
         /\ \A t, a \in Block :
              SuccDropped(b)[a][t] = IF a = b /\ IsTarget(targets[b], t) THEN 0 ELSE succ[a][t]
BY DEF BlocksTypeOK, PreDropped, SuccDropped

LEMMA EraseTerminatorOK ==
  ASSUME BlocksInv, NEW b \in Block, EraseTerminator(b)
  PROVE  BlocksInv'
<1> USE DEF EraseTerminator
<1>1. BlocksTypeOK
  BY DEF BlocksInv
<1>2. <<>> \in Targets /\ \A t : Count(<<>>, t) = 0
  BY DEF Targets, Count
<1>3. BlocksTypeOK'
  BY <1>1, <1>2, DroppedLists DEF BlocksTypeOK
<1>4. EdgesAgree'
  <2> SUFFICES ASSUME NEW a \in linked, NEW c \in linked
               PROVE  /\ succ'[a][c] = pre'[c][a]
                      /\ succ'[a][c] = Count(targets'[a], c)
    BY DEF EdgesAgree
  <2>1. a \in Block /\ c \in Block
    BY <1>1 DEF BlocksTypeOK
  <2>2. succ[a][c] = pre[c][a] /\ succ[a][c] = Count(targets[a], c)
    BY DEF BlocksInv, EdgesAgree
  <2>3. targets[b] \in Targets
    BY <1>1 DEF BlocksTypeOK
  <2>4. (Count(targets[b], c) = 0) <=> ~IsTarget(targets[b], c)
    BY <2>1, <2>3, CountIsTarget
  <2>5. succ'[a][c] = pre'[c][a]
    <3>1. succ' = SuccDropped(b) /\ pre' = PreDropped(b)
      OBVIOUS
    <3> HIDE DEF EraseTerminator
    <3>2. /\ PreDropped(b)[c][a] =
               IF a = b /\ IsTarget(targets[b], c) THEN 0 ELSE pre[c][a]
          /\ SuccDropped(b)[a][c] =
               IF a = b /\ IsTarget(targets[b], c) THEN 0 ELSE succ[a][c]
      BY <1>1, <2>1, DroppedLists
    <3> QED
      BY <3>1, <3>2, <2>2
  <2>6. CASE a = b
    <3>1. targets'[a] = <<>>
      BY <2>6, <1>1, <2>1 DEF BlocksTypeOK
    <3>2. succ'[a][c] = 0
      BY <2>6, <2>1, <2>2, <2>4, <1>1, DroppedLists
    <3> QED
      BY <3>1, <3>2, <1>2, <2>5
  <2>7. CASE a # b
    <3>1. targets'[a] = targets[a]
      BY <2>7, <1>1, <2>1 DEF BlocksTypeOK
    <3>2. succ'[a][c] = succ[a][c]
      BY <2>7, <2>1, <1>1, DroppedLists
    <3> QED
      BY <3>1, <3>2, <2>2, <2>5
  <2> QED
    BY <2>6, <2>7
<1>5. ListsInFunction'
  <2> SUFFICES ASSUME ~teardown, NEW c \in linked, NEW n \in Block, n \notin linked
               PROVE  pre'[c][n] = 0 /\ succ'[c][n] = 0
    BY <1>3 DEF ListsInFunction, BlocksTypeOK
  <2>1. c \in Block /\ pre[c][n] = 0 /\ succ[c][n] = 0
    BY NotListed
  <2>2. succ' = SuccDropped(b) /\ pre' = PreDropped(b)
    OBVIOUS
  <2> HIDE DEF EraseTerminator
  <2>3. PreDropped(b)[c][n] \in {0, pre[c][n]} /\ SuccDropped(b)[c][n] \in {0, succ[c][n]}
    BY <2>1, <1>1, DroppedLists
  <2> QED
    BY <2>1, <2>2, <2>3
<1>6. BranchesReachLiving'
  BY DEF BlocksInv, BlocksTypeOK, BranchesReachLiving
<1> QED
  BY <1>3, <1>4, <1>5, <1>6 DEF BlocksInv

LEMMA RemoveBlockOK ==
  ASSUME BlocksInv, NEW b \in Block, RemoveBlock(b)
  PROVE  BlocksInv'
<1> USE DEF RemoveBlock
<1>1. BlocksTypeOK'
  <2>1. succ' \in [Block -> [Block -> Nat]]
    BY DEF BlocksInv, BlocksTypeOK
  <2>2. pre' \in [Block -> [Block -> Nat]]
    BY DEF BlocksInv, BlocksTypeOK
  <2> QED
    BY <2>1, <2>2 DEF BlocksInv, BlocksTypeOK
<1>2. \A a, c \in Block \ {b} : succ'[a][c] = succ[a][c] /\ pre'[a][c] = pre[a][c]
  BY DEF BlocksInv, BlocksTypeOK
<1>3. EdgesAgree'
  BY <1>2 DEF BlocksInv, BlocksTypeOK, EdgesAgree
<1>4. linked' = linked \ {b} /\ ~teardown /\ ~teardown'
  OBVIOUS
<1>5. ListsInFunction'
  <2> HIDE DEF RemoveBlock
  <2> SUFFICES ASSUME NEW c \in linked \ {b},
                      NEW n \in Block, n \notin linked \ {b}
               PROVE  ~(pre'[c][n] > 0 \/ succ'[c][n] > 0)
    BY <1>4 DEF ListsInFunction
  <2> USE DEF RemoveBlock
  <2>1. c \in linked /\ c \in Block /\ c # b
    BY DEF BlocksInv, BlocksTypeOK
  <2>2. CASE n = b
    <3>1. b \in linked /\ succ[c][b] = pre[b][c] /\ succ[b][c] = pre[c][b]
      BY <2>1 DEF BlocksInv, EdgesAgree
    <3>2. pre[b][c] \in Nat /\ succ[b][c] \in Nat
      BY <2>1 DEF BlocksInv, BlocksTypeOK
    <3>3. succ'[b][c] = succ[b][c]
      BY <2>1 DEF BlocksInv, BlocksTypeOK
    <3>4. succ'[c][b] = 0
      BY <2>1, <3>1, <3>2 DEF BlocksInv, BlocksTypeOK
    <3>5. pre'[c][b] = 0
      BY <2>1, <3>1, <3>2, <3>3 DEF BlocksInv, BlocksTypeOK
    <3> QED
      BY <2>2, <3>4, <3>5
  <2>3. CASE n # b
    <3>1. n \notin linked
      BY <2>3
    <3>2. pre[c][n] = 0 /\ succ[c][n] = 0
      BY <2>1, <3>1 DEF BlocksInv, BlocksTypeOK, ListsInFunction
    <3> QED
      BY <3>2, <2>1, <2>3, <1>2
  <2> QED
    BY <2>2, <2>3
<1>6. BranchesReachLiving'
  BY DEF BlocksInv, BranchesReachLiving
<1> QED
  BY <1>1, <1>3, <1>5, <1>6 DEF BlocksInv

LEMMA DestructBlockOK ==
  ASSUME BlocksInv, NEW b \in Block, DestructBlock(b), teardown \/ b \notin linked
  PROVE  BlocksInv'
<1> USE DEF DestructBlock
<1>1. BlocksTypeOK
  BY DEF BlocksInv
<1>2. <<>> \in Targets
  BY DEF Targets
<1>3. Nulled(b) \in [Block -> Targets]
  BY <1>1, NulledShape DEF Nulled, BlocksTypeOK
<1>4. BlocksTypeOK'
  BY <1>1, <1>2, <1>3, DroppedLists DEF BlocksTypeOK
<1>5. EdgesAgree'
  <2> SUFFICES ASSUME NEW a \in linked \ {b}, NEW c \in linked \ {b}
               PROVE  /\ succ'[a][c] = pre'[c][a]
                      /\ succ'[a][c] = Count(targets'[a], c)
    BY DEF EdgesAgree
  <2>1. a \in Block /\ c \in Block /\ targets[a] \in Targets
    BY <1>1 DEF BlocksTypeOK
  <2>2. succ[a][c] = pre[c][a] /\ succ[a][c] = Count(targets[a], c)
    BY DEF BlocksInv, EdgesAgree
  <2>3. succ'[a][c] = succ[a][c] /\ pre'[c][a] = pre[c][a]
    <3>1. pre' = PreDropped(b) /\ succ' = SuccDropped(b) /\ a # b
      OBVIOUS
    <3> HIDE DEF DestructBlock
    <3> QED
      BY <3>1, <1>1, <2>1, DroppedLists
  <2>4. targets'[a] = [i \in DOMAIN targets[a] |->
                         IF targets[a][i] = b THEN NullBlock ELSE targets[a][i]]
    BY <2>1 DEF Nulled
  <2>5. Count(targets'[a], c) = Count(targets[a], c)
    BY <2>1, <2>4, NulledShape
  <2> QED
    BY <2>2, <2>3, <2>5
<1>6. ListsInFunction'
  <2> SUFFICES ASSUME ~teardown, NEW c \in linked, NEW n \in Block, n \notin linked
               PROVE  ~ (pre'[c][n] > 0 \/ succ'[c][n] > 0)
    <3>1. linked' = linked \ {b} /\ teardown' = teardown
      OBVIOUS
    <3> HIDE DEF DestructBlock
    <3> QED
      BY <3>1 DEF ListsInFunction
  <2>1. c \in Block /\ pre[c][n] = 0 /\ succ[c][n] = 0
    BY NotListed
  <2>2. succ' = SuccDropped(b) /\ pre' = PreDropped(b)
    OBVIOUS
  <2> HIDE DEF DestructBlock
  <2>3. PreDropped(b)[c][n] \in {0, pre[c][n]} /\ SuccDropped(b)[c][n] \in {0, succ[c][n]}
    BY <2>1, <1>1, DroppedLists
  <2> QED
    BY <2>1, <2>2, <2>3
<1>7. BranchesReachLiving'
  <2> SUFFICES ASSUME NEW a \in living \ {b}, NEW i \in DOMAIN targets'[a]
               PROVE  targets'[a][i] \in (living \ {b}) \cup {NullBlock}
    BY DEF BranchesReachLiving
  <2>1. a \in Block
    BY <1>1 DEF BlocksTypeOK
  <2>2. targets'[a] = [j \in DOMAIN targets[a] |->
                         IF targets[a][j] = b THEN NullBlock ELSE targets[a][j]]
    BY <2>1 DEF Nulled
  <2>3. i \in DOMAIN targets[a]
    BY <2>2
  <2>4. targets[a][i] \in living \cup {NullBlock}
    BY <2>3 DEF BlocksInv, BranchesReachLiving
  <2> QED
    BY <2>2, <2>3, <2>4
<1> QED
  BY <1>4, <1>5, <1>6, <1>7 DEF BlocksInv

LEMMA StepBlocks == BlocksInv /\ [BlocksNext]_blockVars => BlocksInv'
<1> SUFFICES ASSUME BlocksInv, [BlocksNext]_blockVars PROVE BlocksInv'
  OBVIOUS
<1>1. ASSUME NEW b \in Block, CreateBlock(b) PROVE BlocksInv'
  BY <1>1, CreateBlockOK
<1>2. ASSUME NEW b \in Block, NEW s \in Targets, CreateBranch(b, s) PROVE BlocksInv'
  BY <1>2, CreateBranchOK
<1>3. ASSUME NEW b \in Block, CreateRet(b) PROVE BlocksInv'
  BY <1>3, CreateRetOK
<1>4. ASSUME NEW b \in Block, EraseTerminator(b) PROVE BlocksInv'
  BY <1>4, EraseTerminatorOK
<1>5. ASSUME NEW b \in Block, RemoveBlock(b) PROVE BlocksInv'
  BY <1>5, RemoveBlockOK
<1>6. ASSUME NEW b \in Block, DeleteRemoved(b) PROVE BlocksInv'
  BY <1>6, DestructBlockOK DEF DeleteRemoved
<1>7. ASSUME NEW b \in Block, TeardownBlock(b) PROVE BlocksInv'
  BY <1>7, DestructBlockOK DEF TeardownBlock
<1>8. CASE BeginTeardown
  BY <1>8 DEF BeginTeardown, BlocksInv, BlocksTypeOK, EdgesAgree, ListsInFunction, BranchesReachLiving
<1>9. CASE UNCHANGED blockVars
  BY <1>9 DEF blockVars, BlocksInv, BlocksTypeOK, EdgesAgree, ListsInFunction, BranchesReachLiving
<1> QED
  BY <1>1, <1>2, <1>3, <1>4, <1>5, <1>6, <1>7, <1>8, <1>9 DEF BlocksNext

----------------------------------------------------------------------------

\* In every reachable state of a function of any size the lists and the operands
\* have their types.
THEOREM BlocksTypeCorrect == BlocksSpec => []BlocksTypeOK
<1>1. BlocksInv => BlocksTypeOK
  BY DEF BlocksInv
<1> QED
  BY <1>1, InitBlocks, StepBlocks, PTL DEF BlocksSpec

\* The successors, the predecessors and the operands of branches describe the same
\* graph, whatever blocks and branches are made, erased, removed and destroyed.
THEOREM EdgesAlwaysAgree == BlocksSpec => []EdgesAgree
<1>1. BlocksInv => EdgesAgree
  BY DEF BlocksInv
<1> QED
  BY <1>1, InitBlocks, StepBlocks, PTL DEF BlocksSpec

\* The lists of a function that is not being destroyed never leave it.
THEOREM ListsStayInFunction == BlocksSpec => []ListsInFunction
<1>1. BlocksInv => ListsInFunction
  BY DEF BlocksInv
<1> QED
  BY <1>1, InitBlocks, StepBlocks, PTL DEF BlocksSpec

\* In whatever order blocks are destroyed, a branch never reaches a destroyed one.
THEOREM BranchesStaySafe == BlocksSpec => []BranchesReachLiving
<1>1. BlocksInv => BranchesReachLiving
  BY DEF BlocksInv
<1> QED
  BY <1>1, InitBlocks, StepBlocks, PTL DEF BlocksSpec

----------------------------------------------------------------------------
(* The types and constants. *)

Kinds == {"void", "label", "integer", "float", "pointer", "array", "function"}
Homes == Modules \cup {NoModule}
Words == Lengths \cup {"none", "1", "32"}
Objects == [id : Kinds, m : Homes, contained : Nat, args : Seq(Nat), n : Words]

Shape == types \in Seq(Objects)

\* The member of a module that holds the simple type t.
Member(t) == IF t.id # "integer" THEN t.id ELSE IF t.n = "1" THEN "int1" ELSE "int32"

SimpleKnown ==
  \A p \in Addresses : IdOf(p) \in {"void", "label", "integer", "float"} =>
    ModuleOf(p) \in DOMAIN base /\ base[ModuleOf(p)][Member(types[p])] = p

PointerKnown ==
  \A p \in Addresses : IdOf(p) = "pointer" =>
    types[p].contained \in DOMAIN pointer_map_ /\ pointer_map_[types[p].contained] = p

ArrayKnown ==
  \A p \in Addresses : IdOf(p) = "array" =>
    /\ ArrayKey(types[p].contained, types[p].n) \in DOMAIN array_map_
    /\ array_map_[ArrayKey(types[p].contained, types[p].n)] = p

FunctionKnown ==
  \A p \in Addresses : IdOf(p) = "function" =>
    /\ <<types[p].contained, types[p].args>> \in DOMAIN function_map_
    /\ function_map_[<<types[p].contained, types[p].args>>] = p

KnownInv == Shape /\ SimpleKnown /\ PointerKnown /\ ArrayKnown /\ FunctionKnown

----------------------------------------------------------------------------
(* Maps and lists. *)

\* An entry is added to a map, the others stay.
LEMMA PutEffect ==
  ASSUME NEW f, NEW key, NEW x
  PROVE  /\ \A k : k \in DOMAIN Put(f, key, x) <=> k \in DOMAIN f \/ k = key
         /\ Put(f, key, x)[key] = x
         /\ \A k \in DOMAIN f : k # key => Put(f, key, x)[k] = f[k]
BY DEF Put

\* The words that types are made with.
LEMMA Known ==
  /\ "void" \in Kinds /\ "label" \in Kinds /\ "integer" \in Kinds /\ "float" \in Kinds
  /\ "pointer" \in Kinds /\ "array" \in Kinds /\ "function" \in Kinds
  /\ "none" \in Words /\ "1" \in Words /\ "32" \in Words /\ Lengths \subseteq Words
  /\ NoModule \in Homes /\ Modules \subseteq Homes
  /\ <<>> \in Seq(Nat)
<1>1. /\ "void" \in Kinds /\ "label" \in Kinds /\ "integer" \in Kinds /\ "float" \in Kinds
      /\ "pointer" \in Kinds /\ "array" \in Kinds /\ "function" \in Kinds
  BY DEF Kinds
<1>2. "none" \in Words /\ "1" \in Words /\ "32" \in Words /\ Lengths \subseteq Words
  BY DEF Words
<1>3. NoModule \in Homes /\ Modules \subseteq Homes
  BY DEF Homes
<1>4. <<>> \in Seq(Nat)
  OBVIOUS
<1> QED
  BY <1>1, <1>2, <1>3, <1>4

\* The fields of a type that is made, and its shape.
LEMMA TypeMade ==
  ASSUME NEW id \in Kinds, NEW m \in Homes, NEW c \in Nat, NEW args \in Seq(Nat), NEW n \in Words
  PROVE  LET t == Type(id, m, c, args, n)
         IN t \in Objects /\ t.id = id /\ t.m = m /\ t.contained = c /\ t.args = args /\ t.n = n
BY DEF Type, Objects

LEMMA ObjectAt ==
  ASSUME Shape, NEW p \in Addresses
  PROVE  p \in Nat /\ types[p] \in Objects /\ types[p].id \in Kinds /\ types[p].m \in Homes
<1>1. p \in Nat /\ types[p] \in Objects
  BY DEF Shape, Addresses
<1> QED
  BY <1>1 DEF Objects

\* A new object gets the address behind all others, which stay.
LEMMA AppendEffect ==
  ASSUME Shape, NEW t \in Objects, types' = Append(types, t)
  PROVE  /\ Shape'
         /\ Len(types) \in Nat
         /\ Addresses' = Addresses \cup {Len(types) + 1}
         /\ Len(types) + 1 \notin Addresses
         /\ types'[Len(types) + 1] = t
         /\ \A p \in Addresses : types'[p] = types[p]
BY DEF Shape, Addresses

\* What \o does when five elements are appended.
LEMMA ConcatEffect ==
  ASSUME NEW S, NEW s \in Seq(S), NEW t \in Seq(S), Len(t) = 5
  PROVE  /\ s \o t \in Seq(S) /\ Len(s \o t) = Len(s) + 5
         /\ \A p \in 1..Len(s) : (s \o t)[p] = s[p]
         /\ \A k \in 1..5 : (s \o t)[Len(s) + k] = t[k]
<1>1. /\ s \o t \in Seq(S) /\ Len(s \o t) = Len(s) + Len(t)
      /\ \A p \in 1..(Len(s) + Len(t)) :
           (s \o t)[p] = IF p <= Len(s) THEN s[p] ELSE t[p - Len(s)]
  BY ConcatProperties
<1> DEFINE u == s \o t
<1>2. Len(s) \in Nat
  OBVIOUS
<1> HIDE DEF u
<1>3. \A p \in 1..(Len(s) + 5) : u[p] = IF p <= Len(s) THEN s[p] ELSE t[p - Len(s)]
  BY <1>1 DEF u
<1>4. \A p \in 1..Len(s) : u[p] = s[p]
  BY <1>2, <1>3
<1>5. ASSUME NEW k \in 1..5 PROVE u[Len(s) + k] = t[k]
  <2>1. Len(s) + k \in 1..(Len(s) + 5) /\ ~(Len(s) + k <= Len(s)) /\ (Len(s) + k) - Len(s) = k
    BY <1>2
  <2> QED
    BY <1>3, <2>1
<1> QED
  BY <1>1, <1>4, <1>5 DEF u

\* The arguments of a function type are a list of addresses.
LEMMA ArgumentsType == ASSUME Shape, NEW args \in Arguments PROVE args \in Seq(Nat)
<1>1. PICK n \in 0..MaxArgs : args \in [1..n -> Addresses]
  BY DEF Arguments
<1>2. n \in Nat
  BY BoundsAssumption
<1>3. Addresses \subseteq Nat
  BY DEF Shape, Addresses
<1>4. args \in [1..n -> Nat]
  BY <1>1, <1>3
<1> QED
  BY <1>2, <1>4

----------------------------------------------------------------------------
\* At first there is no type.
LEMMA InitKnown == TypesInit => KnownInv
BY DEF TypesInit, KnownInv, Shape, SimpleKnown, PointerKnown, ArrayKnown, FunctionKnown, Addresses

\* get_pointer_type keeps the invariant.
LEMMA FindPointerKeeps ==
  ASSUME KnownInv, NEW c \in Addresses, ModuleOf(c) # NoModule, FindPointer(c),
         UNCHANGED <<base, array_map_, function_map_>>
  PROVE  KnownInv'
<1>1. CASE c \in DOMAIN pointer_map_
  BY <1>1 DEF FindPointer, KnownInv, Shape, SimpleKnown, PointerKnown, ArrayKnown, FunctionKnown,
              Addresses, IdOf, ModuleOf, Member, ArrayKey
<1>2. CASE c \notin DOMAIN pointer_map_
  <2> DEFINE q == Len(types) + 1
  <2>1. /\ types' = Append(types, Pointer(c))
        /\ pointer_map_' = Put(pointer_map_, c, q)
    BY <1>2 DEF FindPointer
  <2>2. Pointer(c) \in Objects /\ Pointer(c).id = "pointer" /\ Pointer(c).contained = c
    <3> DEFINE m == types[c].m
    <3>1. m \in Homes /\ c \in Nat
      BY ObjectAt DEF KnownInv
    <3>2. Pointer(c) = Type("pointer", m, c, <<>>, "none")
      BY DEF Pointer
    <3> HIDE DEF m
    <3>3. Type("pointer", m, c, <<>>, "none") \in Objects
      BY <3>1, Known, TypeMade
    <3> QED
      BY <3>2, <3>3 DEF Type
  <2>3. /\ Shape' /\ Addresses' = Addresses \cup {q} /\ q \notin Addresses
        /\ types'[q] = Pointer(c) /\ \A p \in Addresses : types'[p] = types[p]
    BY <2>1, <2>2, AppendEffect DEF KnownInv
  <2> HIDE DEF q
  <2>4. PointerKnown'
    <3> SUFFICES ASSUME NEW p \in Addresses', types'[p].id = "pointer"
                 PROVE  /\ types'[p].contained \in DOMAIN pointer_map_'
                        /\ pointer_map_'[types'[p].contained] = p
      BY DEF PointerKnown, IdOf
    <3>1. CASE p = q
      <4>1. types'[p].contained = c
        BY <2>2, <2>3, <3>1
      <4>2. c \in DOMAIN pointer_map_' /\ pointer_map_'[c] = q
        BY <2>1, PutEffect
      <4> QED
        BY <3>1, <4>1, <4>2
    <3>2. CASE p \in Addresses
      <4>1. types[p].contained \in DOMAIN pointer_map_ /\ pointer_map_[types[p].contained] = p
        BY <2>3, <3>2 DEF KnownInv, PointerKnown, IdOf
      <4>2. types[p].contained # c
        BY <1>2, <4>1
      <4>3. /\ types[p].contained \in DOMAIN pointer_map_'
            /\ pointer_map_'[types[p].contained] = p
        BY <2>1, <4>1, <4>2, PutEffect
      <4> QED
        BY <2>3, <3>2, <4>3
    <3> QED
      BY <2>3, <3>1, <3>2
  <2>5. SimpleKnown' /\ ArrayKnown' /\ FunctionKnown'
    BY <2>2, <2>3 DEF KnownInv, SimpleKnown, ArrayKnown, FunctionKnown, IdOf, ModuleOf, Member, ArrayKey
  <2> QED
    BY <2>3, <2>4, <2>5 DEF KnownInv
<1> QED
  BY <1>1, <1>2

\* So does get_array_type.
LEMMA GetArrayKeeps ==
  ASSUME KnownInv, NEW c \in Addresses, NEW n \in Lengths, GetArray(c, n)
  PROVE  KnownInv'
<1> DEFINE key == ArrayKey(c, n)
<1>1. CASE key \in DOMAIN array_map_
  BY <1>1 DEF GetArray, KnownInv, Shape, SimpleKnown, PointerKnown, ArrayKnown, FunctionKnown,
              Addresses, IdOf, ModuleOf, Member, ArrayKey
<1>2. CASE key \notin DOMAIN array_map_
  <2> DEFINE q == Len(types) + 1
  <2>1. /\ types' = Append(types, Array(c, n))
        /\ array_map_' = Put(array_map_, key, q)
    BY <1>2 DEF GetArray
  <2>2. /\ Array(c, n) \in Objects /\ Array(c, n).id = "array"
        /\ Array(c, n).contained = c /\ Array(c, n).n = n
    <3> DEFINE m == types[c].m
    <3>1. m \in Homes /\ c \in Nat /\ n \in Words
      BY ObjectAt, Known DEF KnownInv
    <3>2. Array(c, n) = Type("array", m, c, <<>>, n)
      BY DEF Array
    <3> HIDE DEF m
    <3>3. Type("array", m, c, <<>>, n) \in Objects
      BY <3>1, Known, TypeMade
    <3> QED
      BY <3>2, <3>3 DEF Type
  <2>3. /\ Shape' /\ Addresses' = Addresses \cup {q} /\ q \notin Addresses
        /\ types'[q] = Array(c, n) /\ \A p \in Addresses : types'[p] = types[p]
    BY <2>1, <2>2, AppendEffect DEF KnownInv
  <2> HIDE DEF q
  <2>4. ArrayKnown'
    <3> SUFFICES ASSUME NEW p \in Addresses', types'[p].id = "array"
                 PROVE  /\ ArrayKey(types'[p].contained, types'[p].n) \in DOMAIN array_map_'
                        /\ array_map_'[ArrayKey(types'[p].contained, types'[p].n)] = p
      BY DEF ArrayKnown, IdOf, ArrayKey
    <3>1. CASE p = q
      <4>1. ArrayKey(types'[p].contained, types'[p].n) = key
        BY <2>2, <2>3, <3>1 DEF ArrayKey
      <4>2. key \in DOMAIN array_map_' /\ array_map_'[key] = q
        BY <2>1, PutEffect
      <4> QED
        BY <3>1, <4>1, <4>2
    <3>2. CASE p \in Addresses
      <4>1. /\ ArrayKey(types[p].contained, types[p].n) \in DOMAIN array_map_
            /\ array_map_[ArrayKey(types[p].contained, types[p].n)] = p
        BY <2>3, <3>2 DEF KnownInv, ArrayKnown, IdOf
      <4>2. ArrayKey(types[p].contained, types[p].n) # key
        BY <1>2, <4>1
      <4>3. /\ ArrayKey(types[p].contained, types[p].n) \in DOMAIN array_map_'
            /\ array_map_'[ArrayKey(types[p].contained, types[p].n)] = p
        BY <2>1, <4>1, <4>2, PutEffect
      <4> QED
        BY <2>3, <3>2, <4>3 DEF ArrayKey
    <3> QED
      BY <2>3, <3>1, <3>2
  <2>5. SimpleKnown' /\ PointerKnown' /\ FunctionKnown'
    <3>1. UNCHANGED <<base, pointer_map_, function_map_>>
      BY DEF GetArray
    <3> QED
      BY <2>2, <2>3, <3>1 DEF KnownInv, SimpleKnown, PointerKnown, FunctionKnown, IdOf, ModuleOf, Member
  <2> QED
    BY <2>3, <2>4, <2>5 DEF KnownInv
<1> QED
  BY <1>1, <1>2

\* And get_function_type.
LEMMA GetFunctionKeeps ==
  ASSUME KnownInv, NEW c \in Addresses, NEW args \in Arguments, GetFunction(c, args)
  PROVE  KnownInv'
<1> DEFINE key == <<c, args>>
<1>1. CASE key \in DOMAIN function_map_
  BY <1>1 DEF GetFunction, KnownInv, Shape, SimpleKnown, PointerKnown, ArrayKnown, FunctionKnown,
              Addresses, IdOf, ModuleOf, Member, ArrayKey
<1>2. CASE key \notin DOMAIN function_map_
  <2> DEFINE q == Len(types) + 1
  <2>1. /\ types' = Append(types, Function(c, args))
        /\ function_map_' = Put(function_map_, key, q)
    BY <1>2 DEF GetFunction
  <2>2. /\ Function(c, args) \in Objects /\ Function(c, args).id = "function"
        /\ Function(c, args).contained = c /\ Function(c, args).args = args
    <3>1. c \in Nat /\ args \in Seq(Nat) /\ NoModule \in Homes
      BY ArgumentsType, ObjectAt, Known DEF KnownInv
    <3>2. Function(c, args) = Type("function", NoModule, c, args, "none")
      BY DEF Function
    <3> QED
      BY <3>1, <3>2, Known, TypeMade
  <2>3. /\ Shape' /\ Addresses' = Addresses \cup {q} /\ q \notin Addresses
        /\ types'[q] = Function(c, args) /\ \A p \in Addresses : types'[p] = types[p]
    BY <2>1, <2>2, AppendEffect DEF KnownInv
  <2> HIDE DEF q
  <2>4. FunctionKnown'
    <3> SUFFICES ASSUME NEW p \in Addresses', types'[p].id = "function"
                 PROVE  /\ <<types'[p].contained, types'[p].args>> \in DOMAIN function_map_'
                        /\ function_map_'[<<types'[p].contained, types'[p].args>>] = p
      BY DEF FunctionKnown, IdOf
    <3>1. CASE p = q
      <4>1. <<types'[p].contained, types'[p].args>> = key
        BY <2>2, <2>3, <3>1
      <4>2. key \in DOMAIN function_map_' /\ function_map_'[key] = q
        BY <2>1, PutEffect
      <4> QED
        BY <3>1, <4>1, <4>2
    <3>2. CASE p \in Addresses
      <4>1. /\ <<types[p].contained, types[p].args>> \in DOMAIN function_map_
            /\ function_map_[<<types[p].contained, types[p].args>>] = p
        BY <2>3, <3>2 DEF KnownInv, FunctionKnown, IdOf
      <4>2. <<types[p].contained, types[p].args>> # key
        BY <1>2, <4>1
      <4>3. /\ <<types[p].contained, types[p].args>> \in DOMAIN function_map_'
            /\ function_map_'[<<types[p].contained, types[p].args>>] = p
        BY <2>1, <4>1, <4>2, PutEffect
      <4> QED
        BY <2>3, <3>2, <4>3
    <3> QED
      BY <2>3, <3>1, <3>2
  <2>5. SimpleKnown' /\ PointerKnown' /\ ArrayKnown'
    <3>1. UNCHANGED <<base, pointer_map_, array_map_>>
      BY DEF GetFunction
    <3> QED
      BY <2>2, <2>3, <3>1 DEF KnownInv, SimpleKnown, PointerKnown, ArrayKnown, IdOf, ModuleOf, Member, ArrayKey
  <2> QED
    BY <2>3, <2>4, <2>5 DEF KnownInv
<1> QED
  BY <1>1, <1>2

\* The constructor of a module enters its five types.
LEMMA NewModuleKeeps ==
  ASSUME KnownInv, NEW m \in Modules, NewModule(m)
  PROVE  KnownInv'
<1> DEFINE n == Len(types)
           five == <<Simple("void", m, "none"), Simple("label", m, "none"), Simple("integer", m, "1"),
                     Simple("integer", m, "32"), Simple("float", m, "none")>>
           members == [void |-> n + 1, label |-> n + 2, int1 |-> n + 3, int32 |-> n + 4,
                       float |-> n + 5]
<1>1. /\ m \notin DOMAIN base /\ types' = types \o five /\ base' = Put(base, m, members)
      /\ UNCHANGED <<pointer_map_, array_map_, function_map_>>
  BY DEF NewModule
<1>2. \A id \in Kinds, w \in Words :
        LET t == Simple(id, m, w) IN t \in Objects /\ t.id = id /\ t.m = m /\ t.n = w
  <2> SUFFICES ASSUME NEW id \in Kinds, NEW w \in Words
               PROVE  LET t == Simple(id, m, w)
                      IN t \in Objects /\ t.id = id /\ t.m = m /\ t.n = w
    OBVIOUS
  <2>1. m \in Homes /\ <<>> \in Seq(Nat) /\ 0 \in Nat
    BY Known
  <2> QED
    BY <2>1 DEF Simple, Type, Objects
<1>3. /\ five[1] = Simple("void", m, "none") /\ five[2] = Simple("label", m, "none")
      /\ five[3] = Simple("integer", m, "1") /\ five[4] = Simple("integer", m, "32")
      /\ five[5] = Simple("float", m, "none")
  OBVIOUS
<1>4. /\ five[1] \in Objects /\ five[1].m = m /\ five[1].id = "void"
      /\ five[2] \in Objects /\ five[2].m = m /\ five[2].id = "label"
      /\ five[3] \in Objects /\ five[3].m = m /\ five[3].id = "integer" /\ five[3].n = "1"
      /\ five[4] \in Objects /\ five[4].m = m /\ five[4].id = "integer" /\ five[4].n = "32"
      /\ five[5] \in Objects /\ five[5].m = m /\ five[5].id = "float"
  <2>1. /\ Simple("void", m, "none") \in Objects /\ Simple("void", m, "none").m = m
        /\ Simple("void", m, "none").id = "void"
    BY <1>2, Known
  <2>2. /\ Simple("label", m, "none") \in Objects /\ Simple("label", m, "none").m = m
        /\ Simple("label", m, "none").id = "label"
    BY <1>2, Known
  <2>3. /\ Simple("integer", m, "1") \in Objects /\ Simple("integer", m, "1").m = m
        /\ Simple("integer", m, "1").id = "integer" /\ Simple("integer", m, "1").n = "1"
    BY <1>2, Known
  <2>4. /\ Simple("integer", m, "32") \in Objects /\ Simple("integer", m, "32").m = m
        /\ Simple("integer", m, "32").id = "integer" /\ Simple("integer", m, "32").n = "32"
    BY <1>2, Known
  <2>5. /\ Simple("float", m, "none") \in Objects /\ Simple("float", m, "none").m = m
        /\ Simple("float", m, "none").id = "float"
    BY <1>2, Known
  <2> HIDE DEF five
  <2> QED
    BY <1>3, <2>1, <2>2, <2>3, <2>4, <2>5
<1>5. n \in Nat /\ types \in Seq(Objects)
  BY DEF KnownInv, Shape
<1>6. five \in Seq(Objects) /\ Len(five) = 5
  <2> DEFINE a == Simple("void", m, "none")  b == Simple("label", m, "none")
             c == Simple("integer", m, "1")  d == Simple("integer", m, "32")
             e == Simple("float", m, "none")
  <2>1. a \in Objects /\ b \in Objects /\ c \in Objects /\ d \in Objects /\ e \in Objects
    BY <1>3, <1>4
  <2> HIDE DEF a, b, c, d, e
  <2>2. <<a, b, c, d, e>> \in Seq(Objects) /\ Len(<<a, b, c, d, e>>) = 5
    BY <2>1
  <2>3. five = <<a, b, c, d, e>>
    BY DEF a, b, c, d, e
  <2> HIDE DEF five
  <2> QED
    BY <2>2, <2>3
<1> HIDE DEF five
<1>7. \A k \in 1..5 :
        /\ five[k].m = m /\ five[k].id \in {"void", "label", "integer", "float"}
        /\ members[Member(five[k])] = n + k
  <2> SUFFICES ASSUME NEW k \in 1..5
               PROVE  /\ five[k].m = m
                      /\ five[k].id \in {"void", "label", "integer", "float"}
                      /\ members[Member(five[k])] = n + k
    OBVIOUS
  <2>1. CASE k = 1
    BY <1>4, <2>1 DEF Member
  <2>2. CASE k = 2
    BY <1>4, <2>2 DEF Member
  <2>3. CASE k = 3
    BY <1>4, <2>3 DEF Member
  <2>4. CASE k = 4
    BY <1>4, <2>4 DEF Member
  <2>5. CASE k = 5
    BY <1>4, <2>5 DEF Member
  <2> QED
    BY <2>1, <2>2, <2>3, <2>4, <2>5
<1> HIDE DEF members
<1>8. /\ Shape' /\ Len(types') = n + 5
      /\ \A p \in 1..n : types'[p] = types[p]
      /\ \A k \in 1..5 : types'[n + k] = five[k]
  BY <1>1, <1>5, <1>6, ConcatEffect DEF Shape
<1>9. Addresses = 1..n /\ Addresses' = 1..(n + 5)
  BY <1>5, <1>8 DEF Addresses, Shape
<1> HIDE DEF n
<1>10. ASSUME NEW p \in Addresses', p \notin Addresses
       PROVE  \E k \in 1..5 : p = n + k /\ types'[p] = five[k]
  <2>1. p - n \in 1..5 /\ p = n + (p - n)
    BY <1>5, <1>9, <1>10
  <2> QED
    BY <1>8, <2>1
<1>11. SimpleKnown'
  <2> SUFFICES ASSUME NEW p \in Addresses',
                      types'[p].id \in {"void", "label", "integer", "float"}
               PROVE  /\ types'[p].m \in DOMAIN base'
                      /\ base'[types'[p].m][Member(types'[p])] = p
    BY DEF SimpleKnown, IdOf, ModuleOf, Member
  <2>1. CASE p \in Addresses
    <3>1. types'[p] = types[p]
      BY <1>8, <1>9, <2>1
    <3>2. types[p].m \in DOMAIN base /\ base[types[p].m][Member(types[p])] = p
      BY <2>1, <3>1 DEF KnownInv, SimpleKnown, IdOf, ModuleOf
    <3> QED
      BY <1>1, <3>1, <3>2, PutEffect
  <2>2. CASE p \notin Addresses
    <3>1. PICK k \in 1..5 : p = n + k /\ types'[p] = five[k]
      BY <1>10, <2>2
    <3>2. types'[p].m = m /\ base'[m] = members /\ m \in DOMAIN base'
      BY <1>1, <1>7, <3>1, PutEffect
    <3> QED
      BY <1>7, <3>1, <3>2
  <2> QED
    BY <2>1, <2>2
<1>12. ASSUME NEW p \in Addresses', types'[p].id \in {"pointer", "array", "function"}
       PROVE  p \in Addresses /\ types'[p] = types[p]
  BY <1>7, <1>8, <1>9, <1>10, <1>12
<1>13. PointerKnown' /\ ArrayKnown' /\ FunctionKnown'
  BY <1>1, <1>12 DEF KnownInv, PointerKnown, ArrayKnown, FunctionKnown, IdOf, ArrayKey
<1> QED
  BY <1>8, <1>11, <1>13 DEF KnownInv

\* The inductive step: one named step per action of TypesNext.
LEMMA StepKnown == KnownInv /\ [TypesNext]_internVars => KnownInv'
<1> SUFFICES ASSUME KnownInv, [TypesNext]_internVars PROVE KnownInv'
  OBVIOUS
<1>1. ASSUME UNCHANGED typeVars PROVE KnownInv'
  BY <1>1 DEF typeVars, KnownInv, Shape, SimpleKnown, PointerKnown, ArrayKnown, FunctionKnown,
              Addresses, IdOf, ModuleOf, Member, ArrayKey
<1>2. ASSUME NEW m \in Modules, NewModule(m) PROVE KnownInv'
  BY <1>2, NewModuleKeeps
<1>3. ASSUME NEW c \in Addresses, GetPointer(c) PROVE KnownInv'
  BY <1>3, FindPointerKeeps DEF GetPointer
<1>4. ASSUME NEW c \in Addresses, CreateGlobal(c) PROVE KnownInv'
  <2>1. ModuleOf(c) # NoModule
    BY <1>4 DEF CreateGlobal
  <2> QED
    BY <1>4, <2>1, FindPointerKeeps DEF CreateGlobal
<1>5. ASSUME NEW c \in Addresses, NEW n \in Lengths, GetArray(c, n) PROVE KnownInv'
  BY <1>5, GetArrayKeeps
<1>6. ASSUME NEW c \in Addresses, NEW args \in Arguments, GetFunction(c, args) PROVE KnownInv'
  BY <1>6, GetFunctionKeeps
<1>7. ASSUME NEW m \in DOMAIN base, NEW v \in Ints, GetInt(v, m) PROVE KnownInv'
  BY <1>1, <1>7 DEF GetInt
<1>8. ASSUME NEW m \in DOMAIN base, NEW v \in BOOLEAN, GetBool(v, m) PROVE KnownInv'
  BY <1>1, <1>8 DEF GetBool
<1>9. ASSUME NEW m \in DOMAIN base, NEW v \in Floats, GetFloat(v, m) PROVE KnownInv'
  BY <1>1, <1>9 DEF GetFloat
<1>10. CASE UNCHANGED internVars
  BY <1>1, <1>10 DEF internVars, typeVars
<1> QED
  BY <1>2, <1>3, <1>4, <1>5, <1>6, <1>7, <1>8, <1>9, <1>10 DEF TypesNext

\* In every reachable state two types with the same parts are the same object.
THEOREM TypesAlwaysUnique == TypesSpec => []TypesUnique
<1>1. KnownInv => TypesUnique
  <2> SUFFICES ASSUME KnownInv, NEW p \in Addresses, NEW q \in Addresses, types[p] = types[q]
               PROVE  p = q
    BY DEF TypesUnique
  <2>1. types[p].id \in Kinds
    BY ObjectAt DEF KnownInv
  <2>2. CASE types[p].id \in {"void", "label", "integer", "float"}
    BY <2>2 DEF KnownInv, SimpleKnown, IdOf, ModuleOf
  <2>3. CASE types[p].id = "pointer"
    BY <2>3 DEF KnownInv, PointerKnown, IdOf
  <2>4. CASE types[p].id = "array"
    BY <2>4 DEF KnownInv, ArrayKnown, IdOf
  <2>5. CASE types[p].id = "function"
    BY <2>5 DEF KnownInv, FunctionKnown, IdOf
  <2> QED
    BY <2>1, <2>2, <2>3, <2>4, <2>5 DEF Kinds
<1> QED
  BY InitKnown, StepKnown, <1>1, PTL DEF TypesSpec
----------------------------------------------------------------------------
(* The answers.  Each map leads from a key to the object with the parts that the key   *)
(* stands for, and objects never change once they are made.                            *)

TypesFound ==
  /\ \A c \in DOMAIN pointer_map_ :
       c \in Addresses /\ pointer_map_[c] \in Addresses /\ types[pointer_map_[c]] = Pointer(c)
  /\ \A c, n : ArrayKey(c, n) \in DOMAIN array_map_ =>
       /\ c \in Addresses /\ array_map_[ArrayKey(c, n)] \in Addresses
       /\ types[array_map_[ArrayKey(c, n)]] = Array(c, n)
  /\ \A ret, args : <<ret, args>> \in DOMAIN function_map_ =>
       /\ function_map_[<<ret, args>>] \in Addresses
       /\ types[function_map_[<<ret, args>>]] = Function(ret, args)

Bit(v) == IF v THEN 1 ELSE 0

NumbersFound ==
  /\ \A v, m : Key(v, m) \in DOMAIN cached_int =>
       /\ m \in DOMAIN base /\ cached_int[Key(v, m)] \in DOMAIN constants
       /\ constants[cached_int[Key(v, m)]] = Constant("int", base[m].int32, v)
  /\ \A v, m : Key(v, m) \in DOMAIN cached_bool =>
       /\ m \in DOMAIN base /\ cached_bool[Key(v, m)] \in DOMAIN constants
       /\ constants[cached_bool[Key(v, m)]] = Constant("int", base[m].int1, Bit(v))

FloatsFound ==
  /\ \A k \in DOMAIN cached_float :
       /\ k[2] \in DOMAIN base /\ cached_float[k] \in DOMAIN constants
       /\ constants[cached_float[k]] = Constant("fp", base[k[2]].float, k[1])
  /\ \A ty \in DOMAIN cached_zero :
       /\ cached_zero[ty] \in DOMAIN constants
       /\ constants[cached_zero[ty]] = Constant("zero", ty, 0)

ConstantsAreList == \E S : constants \in Seq(S)

AnswerKnown ==
  /\ RightAnswer
  /\ answer.of = "type" => answer.got \in Addresses
  /\ answer.of = "constant" => answer.got \in DOMAIN constants

AnswerInv == KnownInv /\ TypesFound /\ NumbersFound /\ FloatsFound /\ ConstantsAreList /\ AnswerKnown

\* Objects are added only, and stay what they are.
Grown ==
  /\ \A p \in Addresses : p \in Addresses' /\ types'[p] = types[p]
  /\ \A m \in DOMAIN base : m \in DOMAIN base' /\ base'[m] = base[m]
  /\ \A i \in DOMAIN constants : i \in DOMAIN constants' /\ constants'[i] = constants[i]
  /\ ConstantsAreList'

\* A list with an object behind the others.
LEMMA Appended ==
  ASSUME NEW S, NEW s \in Seq(S), NEW e
  PROVE  LET t == Append(s, e)
         IN  /\ t \in Seq(S \cup {e}) /\ Len(s) + 1 \in DOMAIN t /\ t[Len(s) + 1] = e
             /\ \A i \in DOMAIN s : i \in DOMAIN t /\ t[i] = s[i]
<1>1. s \in Seq(S \cup {e}) /\ e \in S \cup {e}
  <2>1. Len(s) \in Nat /\ s \in [1..Len(s) -> S \cup {e}]
    OBVIOUS
  <2> QED
    BY <2>1
<1> DEFINE T == S \cup {e}
<1> HIDE DEF T
<1>2. s \in Seq(T) /\ e \in T
  BY <1>1 DEF T
<1>3. /\ Append(s, e) \in Seq(T) /\ Len(s) + 1 \in DOMAIN Append(s, e)
      /\ Append(s, e)[Len(s) + 1] = e
      /\ \A i \in DOMAIN s : i \in DOMAIN Append(s, e) /\ Append(s, e)[i] = s[i]
  BY <1>2
<1> QED
  BY <1>3 DEF T

\* What an appended type changes.
LEMMA TypeAppended ==
  ASSUME Shape, NEW t, types' = Append(types, t)
  PROVE  /\ \A p \in Addresses : p \in Addresses' /\ types'[p] = types[p]
         /\ Len(types) + 1 \in Addresses' /\ types'[Len(types) + 1] = t
BY Appended DEF Shape, Addresses

\* What an appended constant changes.
LEMMA ConstantAppended ==
  ASSUME ConstantsAreList, NEW c, Fresh(c)
  PROVE  /\ ConstantsAreList'
         /\ \A i \in DOMAIN constants : i \in DOMAIN constants' /\ constants'[i] = constants[i]
         /\ Len(constants) + 1 \in DOMAIN constants' /\ constants'[Len(constants) + 1] = c
<1>1. PICK S : constants \in Seq(S)
  BY DEF ConstantsAreList
<1>2. constants' = Append(constants, c)
  BY DEF Fresh
<1>3. /\ constants' \in Seq(S \cup {c})
      /\ \A i \in DOMAIN constants : i \in DOMAIN constants' /\ constants'[i] = constants[i]
      /\ Len(constants) + 1 \in DOMAIN constants' /\ constants'[Len(constants) + 1] = c
  BY <1>1, <1>2, Appended
<1> QED
  BY <1>3 DEF ConstantsAreList

\* What was found stays found while the maps do not change.
LEMMA TypesStayFound ==
  ASSUME TypesFound, Grown, UNCHANGED <<pointer_map_, array_map_, function_map_>>
  PROVE  TypesFound'
BY DEF TypesFound, Grown, Pointer, Array, Function, ArrayKey

LEMMA NumbersStayFound ==
  ASSUME NumbersFound, Grown, UNCHANGED <<cached_int, cached_bool>>
  PROVE  NumbersFound'
BY DEF NumbersFound, Grown, Key

LEMMA FloatsStayFound ==
  ASSUME FloatsFound, Grown, UNCHANGED <<cached_float, cached_zero>>
  PROVE  FloatsFound'
<1>1. ASSUME NEW k \in DOMAIN cached_float
      PROVE  /\ k[2] \in DOMAIN base' /\ cached_float[k] \in DOMAIN constants'
             /\ constants'[cached_float[k]] = Constant("fp", base'[k[2]].float, k[1])
  <2>1. /\ k[2] \in DOMAIN base /\ cached_float[k] \in DOMAIN constants
        /\ constants[cached_float[k]] = Constant("fp", base[k[2]].float, k[1])
    BY DEF FloatsFound
  <2>2. k[2] \in DOMAIN base' /\ base'[k[2]] = base[k[2]]
    BY <2>1 DEF Grown
  <2>3. /\ cached_float[k] \in DOMAIN constants'
        /\ constants'[cached_float[k]] = constants[cached_float[k]]
    BY <2>1 DEF Grown
  <2> QED
    BY <2>1, <2>2, <2>3
<1>2. ASSUME NEW ty \in DOMAIN cached_zero
      PROVE  /\ cached_zero[ty] \in DOMAIN constants'
             /\ constants'[cached_zero[ty]] = Constant("zero", ty, 0)
  BY DEF FloatsFound, Grown
<1>3. cached_float' = cached_float /\ cached_zero' = cached_zero
  OBVIOUS
<1>4. \A k \in DOMAIN cached_float' :
         /\ k[2] \in DOMAIN base' /\ cached_float'[k] \in DOMAIN constants'
         /\ constants'[cached_float'[k]] = Constant("fp", base'[k[2]].float, k[1])
  BY <1>1, <1>3
<1>5. \A ty \in DOMAIN cached_zero' :
         /\ cached_zero'[ty] \in DOMAIN constants'
         /\ constants'[cached_zero'[ty]] = Constant("zero", ty, 0)
  BY <1>2, <1>3
<1> QED
  BY <1>4, <1>5 DEF FloatsFound, Constant

\* A request that is answered with an object of the right parts.
LEMMA TypeAnswered ==
  ASSUME NEW asked, NEW got, Answered("type", asked, got), got \in Addresses',
         types'[got] = asked
  PROVE  AnswerKnown'
BY DEF AnswerKnown, RightAnswer, Answered

LEMMA ConstantAnswered ==
  ASSUME NEW asked, NEW got, Answered("constant", asked, got), got \in DOMAIN constants',
         LET c == constants'[got]
         IN c.class = asked.class /\ c.type = asked.type
              /\ (c.value = asked.value \/ (c.class = "fp" /\ FloatEqual(c.value, asked.value)))
  PROVE  AnswerKnown'
BY DEF AnswerKnown, RightAnswer, Answered, FloatEqual

LEMMA InitAnswerInv == TypesInit => AnswerInv
<1> SUFFICES ASSUME TypesInit PROVE AnswerInv
  OBVIOUS
<1>1. KnownInv
  BY InitKnown
<1>2. ConstantsAreList
  <2>1. constants \in Seq({})
    BY DEF TypesInit
  <2> QED
    BY <2>1 DEF ConstantsAreList
<1>3. TypesFound /\ NumbersFound /\ FloatsFound
  BY DEF TypesInit, TypesFound, NumbersFound, FloatsFound
<1>4. answer.of = "nothing"
  BY DEF TypesInit
<1>5. AnswerKnown
  BY <1>4 DEF AnswerKnown, RightAnswer
<1> QED
  BY <1>1, <1>2, <1>3, <1>5 DEF AnswerInv

\* get_pointer_type finds or makes the pointer type that was asked for.
LEMMA FindPointerAnswers ==
  ASSUME AnswerInv, NEW c \in Addresses, FindPointer(c),
         UNCHANGED <<array_map_, function_map_>>
  PROVE  /\ \A p \in Addresses : p \in Addresses' /\ types'[p] = types[p]
         /\ TypesFound'
         /\ pointer_map_'[c] \in Addresses' /\ types'[pointer_map_'[c]] = Pointer(c)
<1>1. CASE c \in DOMAIN pointer_map_
  <2>1. types' = types /\ pointer_map_' = pointer_map_
    BY <1>1 DEF FindPointer
  <2> QED
    BY <1>1, <2>1 DEF AnswerInv, TypesFound, Addresses, Pointer, Array, Function, ArrayKey
<1>2. CASE c \notin DOMAIN pointer_map_
  <2> DEFINE q == Len(types) + 1
  <2>1. types' = Append(types, Pointer(c)) /\ pointer_map_' = Put(pointer_map_, c, q)
    BY <1>2 DEF FindPointer
  <2>2. /\ \A p \in Addresses : p \in Addresses' /\ types'[p] = types[p]
        /\ q \in Addresses' /\ types'[q] = Pointer(c)
    BY <2>1, TypeAppended DEF AnswerInv, KnownInv
  <2> HIDE DEF q
  <2>3. \A d \in Addresses : Pointer(d)' = Pointer(d) /\ \A n : Array(d, n)' = Array(d, n)
    BY <2>2 DEF Pointer, Array
  <2>4. /\ pointer_map_'[c] = q
        /\ \A d \in DOMAIN pointer_map_' : d = c \/ (d \in DOMAIN pointer_map_ /\ d # c)
        /\ \A d \in DOMAIN pointer_map_ : d # c => pointer_map_'[d] = pointer_map_[d]
    BY <2>1, PutEffect
  <2>5. \A d \in DOMAIN pointer_map_' :
          d \in Addresses' /\ pointer_map_'[d] \in Addresses' /\ types'[pointer_map_'[d]] = Pointer(d)'
    <3> SUFFICES ASSUME NEW d \in DOMAIN pointer_map_'
                 PROVE  /\ d \in Addresses' /\ pointer_map_'[d] \in Addresses'
                        /\ types'[pointer_map_'[d]] = Pointer(d)'
      OBVIOUS
    <3>1. CASE d = c
      BY <2>2, <2>3, <2>4, <3>1
    <3>2. CASE d # c
      <4>1. /\ d \in Addresses /\ pointer_map_[d] \in Addresses
            /\ types[pointer_map_[d]] = Pointer(d) /\ pointer_map_'[d] = pointer_map_[d]
        BY <2>4, <3>2 DEF AnswerInv, TypesFound
      <4> QED
        BY <2>2, <2>3, <4>1
    <3> QED
      BY <3>1, <3>2
  <2>6. TypesFound'
    BY <2>2, <2>3, <2>5 DEF AnswerInv, TypesFound, Function, ArrayKey
  <2> QED
    BY <2>2, <2>4, <2>6
<1> QED
  BY <1>1, <1>2

LEMMA GetPointerAnswers ==
  ASSUME AnswerInv, NEW c \in Addresses, GetPointer(c)
  PROVE  Grown /\ TypesFound' /\ AnswerKnown'
<1>1. /\ FindPointer(c) /\ Answered("type", Pointer(c), pointer_map_'[c])
      /\ UNCHANGED <<base, array_map_, function_map_, constantVars, globals>>
  BY DEF GetPointer
<1>2. /\ \A p \in Addresses : p \in Addresses' /\ types'[p] = types[p]
      /\ TypesFound'
      /\ pointer_map_'[c] \in Addresses' /\ types'[pointer_map_'[c]] = Pointer(c)
  BY <1>1, FindPointerAnswers
<1>3. Grown
  BY <1>1, <1>2 DEF Grown, AnswerInv, ConstantsAreList, constantVars
<1> QED
  BY <1>1, <1>2, <1>3, TypeAnswered

LEMMA GetArrayAnswers ==
  ASSUME AnswerInv, NEW c \in Addresses, NEW n \in Lengths, GetArray(c, n)
  PROVE  Grown /\ TypesFound' /\ AnswerKnown'
<1> DEFINE key == ArrayKey(c, n)
           q == Len(types) + 1
<1>1. /\ Answered("type", Array(c, n), array_map_'[key])
      /\ UNCHANGED <<base, pointer_map_, function_map_, constantVars, globals>>
  BY DEF GetArray
<1>2. CASE key \in DOMAIN array_map_
  <2>1. types' = types /\ array_map_' = array_map_
    BY <1>2 DEF GetArray
  <2>2. Grown
    BY <1>1, <2>1 DEF Grown, AnswerInv, ConstantsAreList, constantVars, Addresses
  <2>3. array_map_'[key] \in Addresses' /\ types'[array_map_'[key]] = Array(c, n)
    BY <1>2, <2>1 DEF AnswerInv, TypesFound, Addresses
  <2> QED
    BY <1>1, <2>1, <2>2, <2>3, TypeAnswered, TypesStayFound DEF AnswerInv
<1>3. CASE key \notin DOMAIN array_map_
  <2>1. types' = Append(types, Array(c, n)) /\ array_map_' = Put(array_map_, key, q)
    BY <1>3 DEF GetArray
  <2>2. /\ \A p \in Addresses : p \in Addresses' /\ types'[p] = types[p]
        /\ q \in Addresses' /\ types'[q] = Array(c, n)
    BY <2>1, TypeAppended DEF AnswerInv, KnownInv
  <2> HIDE DEF q
  <2>3. \A d \in Addresses : Pointer(d)' = Pointer(d) /\ \A l : Array(d, l)' = Array(d, l)
    BY <2>2 DEF Pointer, Array
  <2>4. Grown
    BY <1>1, <2>2 DEF Grown, AnswerInv, ConstantsAreList, constantVars
  <2>5. array_map_'[key] = q
    BY <2>1, PutEffect
  <2>6. ASSUME NEW d, NEW l, ArrayKey(d, l) \in DOMAIN array_map_'
        PROVE  /\ d \in Addresses' /\ array_map_'[ArrayKey(d, l)] \in Addresses'
               /\ types'[array_map_'[ArrayKey(d, l)]] = Array(d, l)'
    <3>1. CASE ArrayKey(d, l) = key
      <4>1. d = c /\ l = n
        BY <3>1 DEF ArrayKey
      <4> QED
        BY <2>2, <2>3, <2>5, <4>1
    <3>2. CASE ArrayKey(d, l) # key
      <4>1. /\ ArrayKey(d, l) \in DOMAIN array_map_
            /\ array_map_'[ArrayKey(d, l)] = array_map_[ArrayKey(d, l)]
        BY <2>1, <2>6, <3>2, PutEffect
      <4>2. /\ d \in Addresses /\ array_map_[ArrayKey(d, l)] \in Addresses
            /\ types[array_map_[ArrayKey(d, l)]] = Array(d, l)
        BY <4>1 DEF AnswerInv, TypesFound
      <4> QED
        BY <2>2, <2>3, <4>1, <4>2
    <3> QED
      BY <3>1, <3>2
  <2>7. TypesFound'
    BY <1>1, <2>2, <2>3, <2>6 DEF AnswerInv, TypesFound, Function, ArrayKey
  <2> QED
    BY <1>1, <2>2, <2>4, <2>5, <2>7, TypeAnswered
<1> QED
  BY <1>2, <1>3

LEMMA GetFunctionAnswers ==
  ASSUME AnswerInv, NEW ret \in Addresses, NEW args \in Arguments, GetFunction(ret, args)
  PROVE  Grown /\ TypesFound' /\ AnswerKnown'
<1> DEFINE key == <<ret, args>>
           q == Len(types) + 1
<1>1. /\ Answered("type", Function(ret, args), function_map_'[key])
      /\ UNCHANGED <<base, pointer_map_, array_map_, constantVars, globals>>
  BY DEF GetFunction
<1>2. CASE key \in DOMAIN function_map_
  <2>1. types' = types /\ function_map_' = function_map_
    BY <1>2 DEF GetFunction
  <2>2. Grown
    BY <1>1, <2>1 DEF Grown, AnswerInv, ConstantsAreList, constantVars, Addresses
  <2>3. function_map_'[key] \in Addresses' /\ types'[function_map_'[key]] = Function(ret, args)
    BY <1>2, <2>1 DEF AnswerInv, TypesFound, Addresses
  <2> QED
    BY <1>1, <2>1, <2>2, <2>3, TypeAnswered, TypesStayFound DEF AnswerInv
<1>3. CASE key \notin DOMAIN function_map_
  <2>1. types' = Append(types, Function(ret, args)) /\ function_map_' = Put(function_map_, key, q)
    BY <1>3 DEF GetFunction
  <2>2. /\ \A p \in Addresses : p \in Addresses' /\ types'[p] = types[p]
        /\ q \in Addresses' /\ types'[q] = Function(ret, args)
    BY <2>1, TypeAppended DEF AnswerInv, KnownInv
  <2> HIDE DEF q
  <2>3. \A d \in Addresses : Pointer(d)' = Pointer(d) /\ \A l : Array(d, l)' = Array(d, l)
    BY <2>2 DEF Pointer, Array
  <2>4. Grown
    BY <1>1, <2>2 DEF Grown, AnswerInv, ConstantsAreList, constantVars
  <2>5. function_map_'[key] = q
    BY <2>1, PutEffect
  <2>6. ASSUME NEW r, NEW a, <<r, a>> \in DOMAIN function_map_'
        PROVE  /\ function_map_'[<<r, a>>] \in Addresses'
               /\ types'[function_map_'[<<r, a>>]] = Function(r, a)
    <3>1. CASE <<r, a>> = key
      <4>1. r = ret /\ a = args
        BY <3>1
      <4> QED
        BY <2>2, <2>5, <4>1
    <3>2. CASE <<r, a>> # key
      <4>1. /\ <<r, a>> \in DOMAIN function_map_
            /\ function_map_'[<<r, a>>] = function_map_[<<r, a>>]
        BY <2>1, <2>6, <3>2, PutEffect
      <4>2. /\ function_map_[<<r, a>>] \in Addresses
            /\ types[function_map_[<<r, a>>]] = Function(r, a)
        BY <4>1 DEF AnswerInv, TypesFound
      <4> QED
        BY <2>2, <4>1, <4>2
    <3> QED
      BY <3>1, <3>2
  <2>7. TypesFound'
    BY <1>1, <2>2, <2>3, <2>6 DEF AnswerInv, TypesFound, Function, ArrayKey
  <2> QED
    BY <1>1, <2>2, <2>4, <2>5, <2>7, TypeAnswered
<1> QED
  BY <1>2, <1>3
LEMMA NewModuleAnswers ==
  ASSUME AnswerInv, NEW m \in Modules, NewModule(m)
  PROVE  Grown /\ TypesFound' /\ AnswerKnown'
<1> DEFINE five == <<Simple("void", m, "none"), Simple("label", m, "none"), Simple("integer", m, "1"),
                     Simple("integer", m, "32"), Simple("float", m, "none")>>
           x == [void |-> Len(types) + 1, label |-> Len(types) + 2, int1 |-> Len(types) + 3,
                 int32 |-> Len(types) + 4, float |-> Len(types) + 5]
<1>1. /\ m \notin DOMAIN base /\ types' = types \o five /\ base' = Put(base, m, x)
      /\ UNCHANGED <<pointer_map_, array_map_, function_map_, constants, answer>>
  BY DEF NewModule
<1>2. types \in Seq(Objects) /\ types' \in Seq(Objects)
  BY NewModuleKeeps DEF AnswerInv, KnownInv, Shape
<1>3. \A p \in Addresses : p \in Addresses' /\ types'[p] = types[p]
  <2> DEFINE S == Objects \cup {five[k] : k \in 1..5}
  <2>1. five \in Seq({five[k] : k \in 1..5}) /\ Len(five) = 5
    OBVIOUS
  <2> HIDE DEF five
  <2>2. types \in Seq(S) /\ five \in Seq(S)
    <3>1. Len(types) \in Nat /\ types \in [1..Len(types) -> S]
      BY <1>2
    <3>2. five \in [1..5 -> S]
      BY <2>1
    <3> HIDE DEF S
    <3> QED
      BY <2>1, <3>1, <3>2
  <2> HIDE DEF S
  <2>3. /\ types' \in Seq(S) /\ Len(types') = Len(types) + 5
        /\ \A p \in 1..Len(types) : types'[p] = types[p]
    BY <1>1, <2>1, <2>2, ConcatEffect
  <2>4. Addresses = 1..Len(types) /\ Addresses' = 1..(Len(types) + 5) /\ Len(types) \in Nat
    BY <2>2, <2>3 DEF Addresses
  <2> QED
    BY <2>3, <2>4
<1> HIDE DEF five, x
<1>4. \A n \in DOMAIN base : n \in DOMAIN base' /\ base'[n] = base[n]
  BY <1>1, PutEffect
<1>5. Grown
  BY <1>1, <1>3, <1>4 DEF Grown, AnswerInv, ConstantsAreList
<1>6. AnswerKnown'
  BY <1>1, <1>3 DEF AnswerInv, AnswerKnown, RightAnswer
<1> QED
  BY <1>1, <1>5, <1>6, TypesStayFound DEF AnswerInv

LEMMA GetIntAnswers ==
  ASSUME AnswerInv, NEW m \in DOMAIN base, NEW v \in Ints, GetInt(v, m)
  PROVE  Grown /\ NumbersFound' /\ AnswerKnown'
<1> DEFINE c == Constant("int", base[m].int32, v)
           key == Key(v, m)
           q == Len(constants) + 1
<1>1. /\ Answered("constant", c, cached_int'[key])
      /\ UNCHANGED <<typeVars, cached_bool, cached_float, cached_zero, globals>>
  BY DEF GetInt
<1>2. UNCHANGED types /\ UNCHANGED base /\ Addresses' = Addresses
  BY <1>1 DEF typeVars, Addresses
<1>3. CASE key \in DOMAIN cached_int
  <2>1. constants' = constants /\ cached_int' = cached_int
    BY <1>3 DEF GetInt
  <2>2. Grown
    BY <1>2, <2>1 DEF Grown, AnswerInv, ConstantsAreList
  <2>3. cached_int'[key] \in DOMAIN constants' /\ constants'[cached_int'[key]] = c
    BY <1>3, <2>1 DEF AnswerInv, NumbersFound
  <2> HIDE DEF c
  <2> QED
    BY <1>1, <2>1, <2>2, <2>3, ConstantAnswered, NumbersStayFound DEF AnswerInv
<1>4. CASE key \notin DOMAIN cached_int
  <2>1. Fresh(c) /\ cached_int' = Put(cached_int, key, q)
    BY <1>4 DEF GetInt
  <2>2. /\ ConstantsAreList'
        /\ \A i \in DOMAIN constants : i \in DOMAIN constants' /\ constants'[i] = constants[i]
        /\ q \in DOMAIN constants' /\ constants'[q] = c
    BY <2>1, ConstantAppended DEF AnswerInv
  <2> HIDE DEF q
  <2>3. Grown
    BY <1>2, <2>2 DEF Grown
  <2>4. cached_int'[key] = q
    BY <2>1, PutEffect
  <2>5. ASSUME NEW w, NEW n, Key(w, n) \in DOMAIN cached_int'
        PROVE  /\ n \in DOMAIN base /\ cached_int'[Key(w, n)] \in DOMAIN constants'
               /\ constants'[cached_int'[Key(w, n)]] = Constant("int", base[n].int32, w)
    <3>1. CASE Key(w, n) = key
      <4>1. w = v /\ n = m
        BY <3>1 DEF Key
      <4> QED
        BY <2>2, <2>4, <4>1
    <3>2. CASE Key(w, n) # key
      <4>1. Key(w, n) \in DOMAIN cached_int /\ cached_int'[Key(w, n)] = cached_int[Key(w, n)]
        BY <2>1, <2>5, <3>2, PutEffect
      <4> QED
        BY <2>2, <4>1 DEF AnswerInv, NumbersFound
    <3> QED
      BY <3>1, <3>2
  <2>6. NumbersFound'
    BY <1>1, <1>2, <2>2, <2>5 DEF AnswerInv, NumbersFound, Key
  <2> HIDE DEF c
  <2> QED
    BY <1>1, <2>2, <2>3, <2>4, <2>6, ConstantAnswered
<1> QED
  BY <1>3, <1>4

LEMMA GetBoolAnswers ==
  ASSUME AnswerInv, NEW m \in DOMAIN base, NEW v \in BOOLEAN, GetBool(v, m)
  PROVE  Grown /\ NumbersFound' /\ AnswerKnown'
<1> DEFINE c == Constant("int", base[m].int1, Bit(v))
           key == Key(v, m)
           q == Len(constants) + 1
<1>1. /\ Answered("constant", c, cached_bool'[key])
      /\ UNCHANGED <<typeVars, cached_int, cached_float, cached_zero, globals>>
  BY DEF GetBool, Bit
<1>2. UNCHANGED types /\ UNCHANGED base /\ Addresses' = Addresses
  BY <1>1 DEF typeVars, Addresses
<1>3. CASE key \in DOMAIN cached_bool
  <2>1. constants' = constants /\ cached_bool' = cached_bool
    BY <1>3 DEF GetBool
  <2>2. Grown
    BY <1>2, <2>1 DEF Grown, AnswerInv, ConstantsAreList
  <2>3. cached_bool'[key] \in DOMAIN constants' /\ constants'[cached_bool'[key]] = c
    BY <1>3, <2>1 DEF AnswerInv, NumbersFound
  <2> HIDE DEF c
  <2> QED
    BY <1>1, <2>1, <2>2, <2>3, ConstantAnswered, NumbersStayFound DEF AnswerInv
<1>4. CASE key \notin DOMAIN cached_bool
  <2>1. Fresh(c) /\ cached_bool' = Put(cached_bool, key, q)
    BY <1>4 DEF GetBool, Bit
  <2>2. /\ ConstantsAreList'
        /\ \A i \in DOMAIN constants : i \in DOMAIN constants' /\ constants'[i] = constants[i]
        /\ q \in DOMAIN constants' /\ constants'[q] = c
    BY <2>1, ConstantAppended DEF AnswerInv
  <2> HIDE DEF q
  <2>3. Grown
    BY <1>2, <2>2 DEF Grown
  <2>4. cached_bool'[key] = q
    BY <2>1, PutEffect
  <2>5. ASSUME NEW w, NEW n, Key(w, n) \in DOMAIN cached_bool'
        PROVE  /\ n \in DOMAIN base /\ cached_bool'[Key(w, n)] \in DOMAIN constants'
               /\ constants'[cached_bool'[Key(w, n)]] = Constant("int", base[n].int1, Bit(w))
    <3>1. CASE Key(w, n) = key
      <4>1. w = v /\ n = m
        BY <3>1 DEF Key
      <4> QED
        BY <2>2, <2>4, <4>1
    <3>2. CASE Key(w, n) # key
      <4>1. Key(w, n) \in DOMAIN cached_bool /\ cached_bool'[Key(w, n)] = cached_bool[Key(w, n)]
        BY <2>1, <2>5, <3>2, PutEffect
      <4> QED
        BY <2>2, <4>1 DEF AnswerInv, NumbersFound
    <3> QED
      BY <3>1, <3>2
  <2>6. NumbersFound'
    BY <1>1, <1>2, <2>2, <2>5 DEF AnswerInv, NumbersFound, Key
  <2> HIDE DEF c
  <2> QED
    BY <1>1, <2>2, <2>3, <2>4, <2>6, ConstantAnswered
<1> QED
  BY <1>3, <1>4

\* A float that is found is equal to the one asked for by ==.
LEMMA GetFloatAnswers ==
  ASSUME AnswerInv, NEW m \in DOMAIN base, NEW v \in Floats, GetFloat(v, m)
  PROVE  Grown /\ FloatsFound' /\ AnswerKnown'
<1> DEFINE c == Constant("fp", base[m].float, v)
           q == Len(constants) + 1
           key == <<v, m, q>>
<1>1. UNCHANGED <<typeVars, cached_int, cached_bool, cached_zero, globals>>
  BY DEF GetFloat
<1>2. UNCHANGED types /\ UNCHANGED base /\ Addresses' = Addresses
  BY <1>1 DEF typeVars, Addresses
<1>3. CASE Found(v, m) # {}
  <2>1. constants' = constants /\ cached_float' = cached_float
    BY <1>3 DEF GetFloat
  <2>2. PICK k \in Found(v, m) : Answered("constant", c, cached_float[k])
    BY <1>3 DEF GetFloat
  <2>3. Grown
    BY <1>2, <2>1 DEF Grown, AnswerInv, ConstantsAreList
  <2>4. k \in DOMAIN cached_float /\ k[2] = m /\ FloatEqual(k[1], v)
    BY <2>2 DEF Found
  <2>5. /\ cached_float[k] \in DOMAIN constants
        /\ constants[cached_float[k]] = Constant("fp", base[m].float, k[1])
    BY <2>4 DEF AnswerInv, FloatsFound
  <2>6. LET d == constants'[cached_float[k]]
        IN d.class = c.class /\ d.type = c.type /\ d.class = "fp" /\ FloatEqual(d.value, c.value)
    BY <2>1, <2>4, <2>5 DEF Constant
  <2> HIDE DEF c
  <2> QED
    BY <1>1, <2>1, <2>2, <2>3, <2>5, <2>6, ConstantAnswered, FloatsStayFound DEF AnswerInv
<1>4. CASE Found(v, m) = {}
  <2>1. Fresh(c) /\ cached_float' = Put(cached_float, key, q) /\ Answered("constant", c, q)
    BY <1>4 DEF GetFloat
  <2>2. /\ ConstantsAreList'
        /\ \A i \in DOMAIN constants : i \in DOMAIN constants' /\ constants'[i] = constants[i]
        /\ q \in DOMAIN constants' /\ constants'[q] = c
    BY <2>1, ConstantAppended DEF AnswerInv
  <2>3. Grown
    BY <1>2, <2>2 DEF Grown
  <2>4. key[1] = v /\ key[2] = m
    OBVIOUS
  <2> HIDE DEF q, key
  <2>5. cached_float'[key] = q
    BY <2>1, PutEffect
  <2>6. ASSUME NEW k \in DOMAIN cached_float'
        PROVE  /\ k[2] \in DOMAIN base /\ cached_float'[k] \in DOMAIN constants'
               /\ constants'[cached_float'[k]] = Constant("fp", base[k[2]].float, k[1])
    <3>1. CASE k = key
      BY <2>2, <2>4, <2>5, <3>1
    <3>2. CASE k # key
      <4>1. k \in DOMAIN cached_float /\ cached_float'[k] = cached_float[k]
        BY <2>1, <2>6, <3>2, PutEffect
      <4> QED
        BY <2>2, <4>1 DEF AnswerInv, FloatsFound
    <3> QED
      BY <3>1, <3>2
  <2>7. FloatsFound'
    BY <1>1, <1>2, <2>2, <2>6 DEF AnswerInv, FloatsFound
  <2> HIDE DEF c
  <2> QED
    BY <2>1, <2>2, <2>3, <2>7, ConstantAnswered
<1> QED
  BY <1>3, <1>4

\* ConstantZero::get finds or makes the zero of the type.
LEMMA CreateGlobalAnswers ==
  ASSUME AnswerInv, NEW ty \in Addresses, CreateGlobal(ty)
  PROVE  Grown /\ TypesFound' /\ FloatsFound' /\ AnswerKnown'
<1> DEFINE c == Constant("zero", ty, 0)
           q == Len(constants) + 1
<1>1. /\ FindZero(ty) /\ FindPointer(ty) /\ Answered("constant", c, cached_zero'[ty])
      /\ UNCHANGED <<base, array_map_, function_map_, cached_int, cached_bool, cached_float>>
  BY DEF CreateGlobal
<1>2. (\A p \in Addresses : p \in Addresses' /\ types'[p] = types[p]) /\ TypesFound'
  BY <1>1, FindPointerAnswers
<1>3. CASE ty \in DOMAIN cached_zero
  <2>1. constants' = constants /\ cached_zero' = cached_zero
    BY <1>1, <1>3 DEF FindZero
  <2>2. Grown
    BY <1>1, <1>2, <2>1 DEF Grown, AnswerInv, ConstantsAreList
  <2>3. cached_zero'[ty] \in DOMAIN constants' /\ constants'[cached_zero'[ty]] = c
    BY <1>3, <2>1 DEF AnswerInv, FloatsFound
  <2> HIDE DEF c
  <2> QED
    BY <1>1, <1>2, <2>1, <2>2, <2>3, ConstantAnswered, FloatsStayFound DEF AnswerInv
<1>4. CASE ty \notin DOMAIN cached_zero
  <2>1. Fresh(c) /\ cached_zero' = Put(cached_zero, ty, q)
    BY <1>1, <1>4 DEF FindZero
  <2>2. /\ ConstantsAreList'
        /\ \A i \in DOMAIN constants : i \in DOMAIN constants' /\ constants'[i] = constants[i]
        /\ q \in DOMAIN constants' /\ constants'[q] = c
    BY <2>1, ConstantAppended DEF AnswerInv
  <2> HIDE DEF q
  <2>3. Grown
    BY <1>1, <1>2, <2>2 DEF Grown
  <2>4. cached_zero'[ty] = q
    BY <2>1, PutEffect
  <2>5. ASSUME NEW t \in DOMAIN cached_zero'
        PROVE  /\ cached_zero'[t] \in DOMAIN constants'
               /\ constants'[cached_zero'[t]] = Constant("zero", t, 0)
    <3>1. CASE t = ty
      BY <2>2, <2>4, <3>1
    <3>2. CASE t # ty
      <4>1. t \in DOMAIN cached_zero /\ cached_zero'[t] = cached_zero[t]
        BY <2>1, <2>5, <3>2, PutEffect
      <4> QED
        BY <2>2, <4>1 DEF AnswerInv, FloatsFound
    <3> QED
      BY <3>1, <3>2
  <2>6. FloatsFound'
    BY <1>1, <2>2, <2>5 DEF AnswerInv, FloatsFound
  <2> HIDE DEF c
  <2> QED
    BY <1>1, <1>2, <2>2, <2>3, <2>4, <2>6, ConstantAnswered
<1> QED
  BY <1>3, <1>4

LEMMA StepAnswerInv == AnswerInv /\ [TypesNext]_internVars => AnswerInv'
<1> SUFFICES ASSUME AnswerInv, [TypesNext]_internVars PROVE AnswerInv'
  OBVIOUS
<1>1. KnownInv'
  BY StepKnown DEF AnswerInv
<1>2. ASSUME Grown, TypesFound', NumbersFound', FloatsFound', AnswerKnown' PROVE AnswerInv'
  BY <1>1, <1>2 DEF AnswerInv, Grown
<1>3. ASSUME NEW m \in Modules, NewModule(m) PROVE AnswerInv'
  BY <1>2, <1>3, NewModuleAnswers, NumbersStayFound, FloatsStayFound DEF AnswerInv, NewModule
<1>4. ASSUME NEW c \in Addresses, GetPointer(c) PROVE AnswerInv'
  BY <1>2, <1>4, GetPointerAnswers, NumbersStayFound, FloatsStayFound
     DEF AnswerInv, GetPointer, constantVars
<1>5. ASSUME NEW c \in Addresses, CreateGlobal(c) PROVE AnswerInv'
  BY <1>2, <1>5, CreateGlobalAnswers, NumbersStayFound DEF AnswerInv, CreateGlobal
<1>6. ASSUME NEW c \in Addresses, NEW n \in Lengths, GetArray(c, n) PROVE AnswerInv'
  BY <1>2, <1>6, GetArrayAnswers, NumbersStayFound, FloatsStayFound
     DEF AnswerInv, GetArray, constantVars
<1>7. ASSUME NEW c \in Addresses, NEW args \in Arguments, GetFunction(c, args) PROVE AnswerInv'
  BY <1>2, <1>7, GetFunctionAnswers, NumbersStayFound, FloatsStayFound
     DEF AnswerInv, GetFunction, constantVars
<1>8. ASSUME NEW m \in DOMAIN base, NEW v \in Ints, GetInt(v, m) PROVE AnswerInv'
  BY <1>2, <1>8, GetIntAnswers, TypesStayFound, FloatsStayFound DEF AnswerInv, GetInt, typeVars
<1>9. ASSUME NEW m \in DOMAIN base, NEW v \in BOOLEAN, GetBool(v, m) PROVE AnswerInv'
  BY <1>2, <1>9, GetBoolAnswers, TypesStayFound, FloatsStayFound DEF AnswerInv, GetBool, typeVars
<1>10. ASSUME NEW m \in DOMAIN base, NEW v \in Floats, GetFloat(v, m) PROVE AnswerInv'
  BY <1>2, <1>10, GetFloatAnswers, TypesStayFound, NumbersStayFound
     DEF AnswerInv, GetFloat, typeVars
<1>11. CASE UNCHANGED internVars
  <2>1. Grown /\ AnswerKnown'
    BY <1>11 DEF AnswerInv, Grown, AnswerKnown, RightAnswer, ConstantsAreList, Addresses, internVars
  <2> QED
    BY <1>2, <1>11, <2>1, TypesStayFound, NumbersStayFound, FloatsStayFound DEF AnswerInv, internVars
<1> QED
  BY <1>3, <1>4, <1>5, <1>6, <1>7, <1>8, <1>9, <1>10, <1>11 DEF TypesNext

\* Whatever is asked for, and in whatever order: get_pointer_type, get_array_type,
\* FunctionType::get and the get functions of the constants return the type or
\* the constant with the parts, the module and the value that were asked for.
THEOREM AnswersAreRight == TypesSpec => []RightAnswer
<1>1. AnswerInv => RightAnswer
  BY DEF AnswerInv, AnswerKnown
<1> QED
  BY InitAnswerInv, StepAnswerInv, <1>1, PTL DEF TypesSpec
=============================================================================
