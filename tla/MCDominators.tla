---------------------------- MODULE MCDominators ----------------------------
(* Control-flow graphs for Dominators. *)
EXTENDS Dominators, FiniteSetsExt, TLC

\* What a terminator can branch to: nothing (ret), one block, or two different
\* ones; the builder never branches back to the entry.
Targets == {<<>>} \cup {<<a>> : a \in Block \ {Entry}}
                  \cup {<<a, b>> : a, b \in Block \ {Entry}}
Branches == {t \in Targets : Len(t) = 2 => t[1] # t[2]}

\* The block that discovers b in a breadth-first search that goes by the numbers,
\* and the place of b among its successors.
Discoverer(g, b) == Min({p \in Block : \E n \in DOMAIN g[p] : g[p][n] = b})
Place(g, b) == CHOOSE n \in DOMAIN g[Discoverer(g, b)] : g[Discoverer(g, b)][n] = b

\* Every block is reached, and the blocks are numbered in the order of discovery:
\* each connected graph occurs once, up to the names of its blocks.
Canonical(g) ==
  /\ \A b \in Block \ {Entry} : \E p \in 1..(b - 1) : \E n \in DOMAIN g[p] : g[p][n] = b
  /\ \A b \in 2..(N - 1) :
       \/ Discoverer(g, b) < Discoverer(g, b + 1)
       \/ Discoverer(g, b) = Discoverer(g, b + 1) /\ Place(g, b) < Place(g, b + 1)

AllConnected == {g \in [Block -> Branches] : Canonical(g)}

\* while (c) { if (a) return; else return; } as the builder lowers it: 1 entry,
\* 2 condition, 3 body, 4 and 5 the two returns, 6 the block after the if, which
\* nothing branches to and which branches back to the condition, 7 after the loop.
ReturnInBothArms ==
  {<< <<2>>, <<3, 7>>, <<4, 5>>, <<>>, <<>>, <<2>>, <<>> >>}
=============================================================================
