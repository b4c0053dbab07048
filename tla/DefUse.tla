------------------------------- MODULE DefUse -------------------------------
(***************************************************************************)
(* The def-use chains of LightIR: class Value keeps the list of the places *)
(* that use it (use_list_), class User keeps its operands (operands_), and *)
(* every operation of User.cpp and Value.cpp edits both.  The passes trust *)
(* the use lists: replace_all_use_with and the destructor of Value find    *)
(* the users of a value nowhere else.                                      *)
(*                                                                         *)
(* use_list_ is a std::list<Use>; nothing depends on its order, so it is   *)
(* modelled as a bag: uses[v][<<u, i>>] is the number of entries Use(u, i) *)
(* in the list of v.  Operand positions count from 1.                      *)
(***************************************************************************)
EXTENDS Naturals, Sequences

CONSTANTS Value,       \* every Value object: constants, arguments, blocks, users
          User,        \* the values that also have operands
          Null,        \* the null pointer
          MaxOperands, \* bound on the length of operands_
          Filters,     \* the predicates given to replace_use_with_if, as sets of uses
          RemovesTwin  \* whether remove_operand is called on an operand that is
                       \* the same value as the next one

ASSUME UserAssumption == User \subseteq Value
ASSUME NullAssumption == Null \notin Value
ASSUME MaxOperandsAssumption == MaxOperands \in Nat
ASSUME FiltersAssumption == Filters \subseteq SUBSET (User \X (1..MaxOperands))
ASSUME RemovesTwinAssumption == RemovesTwin \in BOOLEAN

VARIABLES alive,     \* the objects that have been constructed and not destroyed
          operands,  \* operands[u] is operands_ of user u
          uses,      \* uses[v] is use_list_ of value v, as a bag
          job        \* the loop of replace_all_use_with or replace_use_with_if
                     \* in progress and the uses it is for, or Idle

vars == <<alive, operands, uses, job>>

Position == 1..MaxOperands
UseKey == User \X Position
Job(from, to, dying, only) == [from |-> from, to |-> to, dying |-> dying, only |-> only]
Idle == Job(Null, Null, FALSE, {})

TypeOK ==
  /\ alive \subseteq Value
  /\ operands \in [User -> Seq(Value \cup {Null})]
  /\ \A u \in User : Len(operands[u]) <= MaxOperands
  /\ uses \in [Value -> [UseKey -> Nat]]
  /\ job \in [from : Value \cup {Null}, to : Value \cup {Null}, dying : BOOLEAN,
              only : SUBSET UseKey]

----------------------------------------------------------------------------
(* The use lists, as functions of the bag m. *)

AddUse(m, v, u, i) == [m EXCEPT ![v][<<u, i>>] = @ + 1]

\* remove_if drops every entry that is equal to Use(u, i).
RemoveUse(m, v, u, i) == [m EXCEPT ![v][<<u, i>>] = 0]

\* Slip: the new use is entered first and the old one removed after it.
RelinkAddFirst(m, old, v, u, i) ==
  LET added == IF v = Null THEN m ELSE AddUse(m, v, u, i)
  IN  IF old = Null THEN added ELSE RemoveUse(added, old, u, i)

\* What set_operand(i, v) of u does to the use lists m, the old operand being old.
Relink(m, old, v, u, i) ==
  LET dropped == IF old = Null THEN m ELSE RemoveUse(m, old, u, i)
  IN  IF v = Null THEN dropped ELSE AddUse(dropped, v, u, i)

\* What remove_all_operands of u does to the use lists: each operand drops its entry.
Unlink(u) ==
  [v \in Value |-> [k \in UseKey |->
      IF k[1] = u /\ k[2] \in DOMAIN operands[u] /\ operands[u][k[2]] = v
      THEN 0 ELSE uses[v][k]]]

\* Slip: the loop runs from the last operand down.
ShiftFromEnd(u, i) ==
  LET s == operands[u]
      Gets(v, j) == IF j < Len(s) /\ s[j + 1] = v THEN 1 ELSE 0
      Kept(v, j) == uses[v][<<u, j>>]
  IN [v \in Value |-> [k \in UseKey |->
        IF k[1] = u /\ k[2] \in i..Len(s)
        THEN IF s[k[2]] = v THEN 0 ELSE Kept(v, k[2]) + Gets(v, k[2])
        ELSE uses[v][k]]]

\* What the loop of remove_operand(i) of u and the removal after it do to the use
\* lists.  The loop gives to operand j + 1 the entry Use(u, j), which operand j has
\* lost in the round before; operand i loses it only after the loop.
Shift(u, i) ==
  LET s == operands[u]
      Gets(v, j) == IF j < Len(s) /\ s[j + 1] = v THEN 1 ELSE 0
      Kept(v, j) == IF s[j] = v THEN 0 ELSE uses[v][<<u, j>>]
      Entry(v, j) == IF j > i THEN Kept(v, j) + Gets(v, j)
                     ELSE IF s[i] = v THEN 0 ELSE Kept(v, i) + Gets(v, i)
  IN [v \in Value |-> [k \in UseKey |->
        IF k[1] = u /\ k[2] \in i..Len(s) THEN Entry(v, k[2]) ELSE uses[v][k]]]

\* The list s without its element i.
Without(s, i) == [j \in 1..(Len(s) - 1) |-> IF j < i THEN s[j] ELSE s[j + 1]]

----------------------------------------------------------------------------
(* The operations. *)

Init ==
  /\ alive = {}
  /\ operands = [u \in User |-> <<>>]
  /\ uses = [v \in Value |-> [k \in UseKey |-> 0]]
  /\ job = Idle

\* A constructor: no operands and no uses yet.  The address may be a reused one.
Construct(v) ==
  /\ job = Idle
  /\ v \notin alive
  /\ alive' = alive \cup {v}
  /\ uses' = [uses EXCEPT ![v] = [k \in UseKey |-> 0]]
  /\ operands' = IF v \in User THEN [operands EXCEPT ![v] = <<>>] ELSE operands
  /\ UNCHANGED job

SetOperand(u, i, v) ==
  /\ job = Idle
  /\ u \in alive
  /\ i \in DOMAIN operands[u]
  /\ uses' = Relink(uses, operands[u][i], v, u, i)
  /\ operands' = [operands EXCEPT ![u][i] = v]
  /\ UNCHANGED <<alive, job>>

AddOperand(u, v) ==
  /\ job = Idle
  /\ u \in alive
  /\ Len(operands[u]) < MaxOperands
  /\ uses' = AddUse(uses, v, u, Len(operands[u]) + 1)
  /\ operands' = [operands EXCEPT ![u] = Append(@, v)]
  /\ UNCHANGED <<alive, job>>

RemoveAllOperands(u) ==
  /\ job = Idle
  /\ u \in alive
  /\ uses' = Unlink(u)
  /\ operands' = [operands EXCEPT ![u] = <<>>]
  /\ UNCHANGED <<alive, job>>

\* remove_operand(i): the operands behind it move up with their uses.  It calls
\* methods of all operands from i on.
RemoveOperand(u, i) ==
  /\ job = Idle
  /\ u \in alive
  /\ i \in DOMAIN operands[u]
  /\ \A j \in i..Len(operands[u]) : operands[u][j] # Null
  /\ ~RemovesTwin /\ i < Len(operands[u]) => operands[u][i] # operands[u][i + 1]
  /\ uses' = Shift(u, i)
  /\ operands' = [operands EXCEPT ![u] = Without(@, i)]
  /\ UNCHANGED <<alive, job>>

\* Slip: no early return when this == new_val.
ReplaceEvenBySelf(v, w) ==
  /\ job = Idle
  /\ v \in alive
  /\ job' = Job(v, w, FALSE, UseKey)
  /\ UNCHANGED <<alive, operands, uses>>

\* replace_all_use_with(w) is entered; it returns at once when this == new_val.
ReplaceAllUseWith(v, w) ==
  /\ job = Idle
  /\ v \in alive
  /\ v # w
  /\ job' = Job(v, w, FALSE, UseKey)
  /\ UNCHANGED <<alive, operands, uses>>

\* replace_use_with_if(w, should_replace), the predicate being TRUE for the uses in
\* only: the iterator has moved on before the entry it pointed to goes away.
ReplaceUseWithIf(v, w, only) ==
  /\ job = Idle
  /\ v \in alive
  /\ v # w
  /\ job' = Job(v, w, FALSE, only)
  /\ UNCHANGED <<alive, operands, uses>>

\* ~User drops the operands, then ~Value enters replace_all_use_with(nullptr).
Destroy(v) ==
  /\ job = Idle
  /\ v \in alive
  /\ IF v \in User
       THEN uses' = Unlink(v) /\ operands' = [operands EXCEPT ![v] = <<>>]
       ELSE UNCHANGED <<uses, operands>>
  /\ job' = Job(v, Null, TRUE, UseKey)
  /\ UNCHANGED alive

\* One round of the loop: a use of the value is taken from its list and
\* set_operand is called on it.
ReplaceOne(u, i) ==
  /\ job # Idle
  /\ <<u, i>> \in job.only
  /\ uses[job.from][<<u, i>>] > 0
  /\ i \in DOMAIN operands[u]
  /\ uses' = Relink(uses, operands[u][i], job.to, u, i)
  /\ operands' = [operands EXCEPT ![u][i] = job.to]
  /\ UNCHANGED <<alive, job>>

\* The loop ends when no use it is for is left; a dying value is gone then.
ReplaceDone ==
  /\ job # Idle
  /\ \A k \in job.only : uses[job.from][k] = 0
  /\ alive' = IF job.dying THEN alive \ {job.from} ELSE alive
  /\ job' = Idle
  /\ UNCHANGED <<operands, uses>>

Loop == (\E u \in User, i \in Position : ReplaceOne(u, i)) \/ ReplaceDone

Next ==
  \/ \E v \in Value : Construct(v) \/ Destroy(v)
  \/ \E u \in User, v \in alive : AddOperand(u, v)
  \/ \E u \in User, i \in Position, v \in alive \cup {Null} : SetOperand(u, i, v)
  \/ \E u \in User : RemoveAllOperands(u)
  \/ \E u \in User, i \in Position : RemoveOperand(u, i)
  \/ \E v, w \in alive : ReplaceAllUseWith(v, w)
  \/ \E v, w \in alive, only \in Filters : ReplaceUseWithIf(v, w, only)
  \/ Loop

\* The compiler is one thread that keeps running: a loop it has entered goes on.
Spec == Init /\ [][Next]_vars /\ WF_vars(Loop)

----------------------------------------------------------------------------
(* Properties. *)

Uses(u, i, v) == u \in alive /\ i \in DOMAIN operands[u] /\ operands[u][i] = v

\* Every use list holds Use(u, i) exactly once when operand i of the living
\* user u is the value, and not at all otherwise (User.hpp: "for a: Use(op, 0)").
\* This is what lets replace_all_use_with and ~Value find all users.
UsesMatchOperands ==
  \A v \in alive : \A u \in User : \A i \in Position :
    uses[v][<<u, i>>] = IF Uses(u, i, v) THEN 1 ELSE 0

\* No living user keeps a pointer to a destroyed value: ~Value nulls the operand
\* of every user before the object goes away.
NoDanglingOperand ==
  \A u \in User : \A i \in DOMAIN operands[u] :
    u \in alive => operands[u][i] \in alive \cup {Null}

\* replace_all_use_with, replace_use_with_if and ~Value return: their loop reaches a
\* use list without a use that it is for.
ReplaceTerminates == (job # Idle) ~> (job = Idle)

\* The def-use layer implements the operand graph without use lists: the whole
\* loop is the one abstract step taken when it is entered, because operands it
\* has not reached yet are exactly the ones still equal to the replaced value.
operandsBar ==
  IF job = Idle THEN operands
  ELSE [u \in User |-> [i \in DOMAIN operands[u] |->
          IF operands[u][i] = job.from /\ <<u, i>> \in job.only THEN job.to
          ELSE operands[u][i]]]
aliveBar == IF job.dying THEN alive \ {job.from} ELSE alive

Graph == INSTANCE OperandGraph WITH alive <- aliveBar, operands <- operandsBar

ImplementsGraph == Graph!Spec
=============================================================================
