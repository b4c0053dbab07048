----------------------------- MODULE Dominance -----------------------------
(***************************************************************************)
(* Dominance in a control-flow graph, by its textbook definitions: what    *)
(* Dominators is checked against and what Mem2Reg takes from it.  A graph  *)
(* g maps each block to the sequence of its successors.                    *)
(***************************************************************************)
EXTENDS Naturals, Sequences

CONSTANT N  \* number of basic blocks of the function

ASSUME NAssumption == N \in Nat \ {0}

Block == 1..N  \* in the order of the function's list
Entry == 1     \* get_entry_block()

Succs(g, b) == {g[b][n] : n \in DOMAIN g[b]}
Preds(g, b) == {p \in Block : b \in Succs(g, p)}

\* The blocks that a path from the entry reaches without going through A.
ReachableAvoiding(g, A) ==
  {b \in Block : \A S \in SUBSET Block :
     /\ Entry \notin A => Entry \in S
     /\ \A x \in S : Succs(g, x) \ A \subseteq S
     => b \in S}

Reachable(g) == ReachableAvoiding(g, {})

\* a dominates b: every path from the entry to b goes through a.
Dominates(g, a, b) == a = b \/ b \notin ReachableAvoiding(g, {a})
StrictlyDominates(g, a, b) == a # b /\ Dominates(g, a, b)

\* The strict dominator of b that every other strict dominator of b dominates.
IsImmediateDominator(g, d, b) ==
  /\ StrictlyDominates(g, d, b)
  /\ \A c \in Reachable(g) : StrictlyDominates(g, c, b) => Dominates(g, c, d)

\* Where the dominance of x ends: x dominates a predecessor of the block but does
\* not strictly dominate the block.
Frontier(g, x) ==
  {y \in Reachable(g) : /\ \E p \in Preds(g, y) \cap Reachable(g) : Dominates(g, x, p)
                        /\ ~ StrictlyDominates(g, x, y)}
=============================================================================
