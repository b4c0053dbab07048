---------------------------- MODULE OperandGraph ----------------------------
(***************************************************************************)
(* What the def-use layer of LightIR (User.cpp, Value.cpp) promises to the *)
(* passes: a graph of operands that can be edited, in which "replace every *)
(* use of v" and "delete v" are single, complete steps.  There are no use  *)
(* lists here: who uses a value is read off the operands.                  *)
(***************************************************************************)
EXTENDS Naturals, Sequences

CONSTANTS Value,       \* every Value object: constants, arguments, blocks, users
          User,        \* the values that also have operands
          Null,        \* the null pointer
          MaxOperands, \* bound on the length of operands_
          Filters      \* the sets of uses that a replacement can be limited to

VARIABLES alive,     \* the objects that exist
          operands   \* operands[u]: the operands of user u

vars == <<alive, operands>>

\* The operand list s with every occurrence of v turned into w.
Substitute(s, v, w) == [i \in DOMAIN s |-> IF s[i] = v THEN w ELSE s[i]]

Init == alive = {} /\ operands = [u \in User |-> <<>>]

Create(v) ==
  /\ v \notin alive
  /\ alive' = alive \cup {v}
  /\ UNCHANGED operands

Assign(u, i, v) ==
  /\ u \in alive
  /\ i \in DOMAIN operands[u]
  /\ operands' = [operands EXCEPT ![u][i] = v]
  /\ UNCHANGED alive

AppendTo(u, v) ==
  /\ u \in alive
  /\ Len(operands[u]) < MaxOperands
  /\ operands' = [operands EXCEPT ![u] = Append(@, v)]
  /\ UNCHANGED alive

Clear(u) ==
  /\ u \in alive
  /\ operands' = [operands EXCEPT ![u] = <<>>]
  /\ UNCHANGED alive

\* Operand i of u is gone, the ones behind it move up.
Remove(u, i) ==
  /\ u \in alive
  /\ i \in DOMAIN operands[u]
  /\ operands' = [operands EXCEPT ![u] =
                    [j \in 1..(Len(@) - 1) |-> IF j < i THEN @[j] ELSE @[j + 1]]]
  /\ UNCHANGED alive

\* Every operand that is v becomes w, in all users at once.
ReplaceAll(v, w) ==
  /\ v \in alive
  /\ operands' = [u \in User |-> Substitute(operands[u], v, w)]
  /\ UNCHANGED alive

\* Every operand that is v becomes w, for the uses in only.
ReplaceSome(v, w, only) ==
  /\ v \in alive
  /\ operands' = [u \in User |-> [i \in DOMAIN operands[u] |->
                     IF operands[u][i] = v /\ <<u, i>> \in only THEN w ELSE operands[u][i]]]
  /\ UNCHANGED alive

\* v disappears with its own operands, and whoever used v is left with Null.
Delete(v) ==
  /\ v \in alive
  /\ alive' = alive \ {v}
  /\ operands' = [u \in User |-> IF u = v THEN <<>>
                                  ELSE Substitute(operands[u], v, Null)]

Next ==
  \/ \E v \in Value : Create(v) \/ Delete(v)
  \/ \E u \in User, v \in alive : AppendTo(u, v)
  \/ \E u \in User, i \in 1..MaxOperands, v \in alive \cup {Null} : Assign(u, i, v)
  \/ \E u \in User : Clear(u)
  \/ \E u \in User, i \in 1..MaxOperands : Remove(u, i)
  \/ \E v, w \in alive : v # w /\ ReplaceAll(v, w)
  \/ \E v, w \in alive, only \in Filters : v # w /\ ReplaceSome(v, w, only)

Spec == Init /\ [][Next]_vars
=============================================================================
