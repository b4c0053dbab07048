-------------------------- MODULE Dominators_proof --------------------------
(***************************************************************************)
(* Proofs about Dominators, for any number of blocks and any graphs.  The  *)
(* tree that idom describes is compared with dominance at every moment of  *)
(* the iteration: what strictly dominates a block dominates the block      *)
(* above it in the tree, and in the end nothing else is above it.          *)
(***************************************************************************)
EXTENDS Dominators, FiniteSetTheorems, SequenceTheorems, WellFoundedInduction, TLAPS

----------------------------------------------------------------------------
(* Dominance in any graph. *)

LEMMA EntryIsBlock == Entry \in Block /\ Null \notin Block
BY NAssumption DEF Entry, Block, Null

LEMMA AvoidingEntry ==
  ASSUME NEW g, NEW A, Entry \notin A
  PROVE  Entry \in ReachableAvoiding(g, A)
BY EntryIsBlock DEF ReachableAvoiding

LEMMA AvoidingStep ==
  ASSUME NEW g, NEW A, NEW x \in ReachableAvoiding(g, A), NEW y \in Block,
         y \in Succs(g, x), y \notin A
  PROVE  y \in ReachableAvoiding(g, A)
BY DEF ReachableAvoiding

\* Induction over the length of a path.
LEMMA AvoidingLeast ==
  ASSUME NEW g, NEW A, NEW S \in SUBSET Block,
         Entry \notin A => Entry \in S,
         \A x \in S : Succs(g, x) \ A \subseteq S
  PROVE  ReachableAvoiding(g, A) \subseteq S
BY DEF ReachableAvoiding

\* What strictly dominates a block dominates its predecessors.
LEMMA DominatesPred ==
  ASSUME NEW g, NEW b \in Block, NEW p \in Preds(g, b), NEW d, StrictlyDominates(g, d, b)
  PROVE  Dominates(g, d, p)
<1>1. b \in Succs(g, p) /\ b \notin {d} /\ b \notin ReachableAvoiding(g, {d})
  BY DEF Preds, StrictlyDominates, Dominates
<1>2. p \notin ReachableAvoiding(g, {d})
  BY <1>1, AvoidingStep
<1> QED
  BY <1>2 DEF Dominates

LEMMA DominatesEntry ==
  ASSUME NEW g, NEW d, Dominates(g, d, Entry)
  PROVE  d = Entry
BY AvoidingEntry DEF Dominates

----------------------------------------------------------------------------
(* Trees that are given by the block above each block. *)

\* The blocks above b in the tree f, b included.
Above(f, b) ==
  {a \in Block : \A S \in SUBSET Block :
     b \in S /\ (\A x \in S : f[x] # Null => f[x] \in S) => a \in S}

\* f is a tree on V, or a part of one, along which the numbers nd grow.
IsTree(f, nd, V) ==
  /\ f \in [Pointer -> Pointer] /\ nd \in [Pointer -> Nat]
  /\ V \subseteq Block /\ Entry \in V
  /\ \A x, y \in V : nd[x] = nd[y] => x = y
  /\ \A x \in V : nd[x] <= nd[Entry]
  /\ \A b \in Pointer \ V : f[b] = Null
  /\ f[Entry] = Entry
  /\ \A b \in V \ {Entry} : f[b] # Null => f[b] \in V /\ f[f[b]] # Null /\ nd[f[b]] > nd[b]

\* No strict dominator is missed on the way up.
Guided(f, g, V) ==
  \A b \in V \ {Entry} : f[b] # Null =>
    \A d \in Block : StrictlyDominates(g, d, b) => Dominates(g, d, f[b])

LEMMA AboveSelf == ASSUME NEW f, NEW b \in Block PROVE b \in Above(f, b)
BY DEF Above

LEMMA AboveNext ==
  ASSUME NEW f, NEW b \in Block, f[b] \in Block
  PROVE  f[b] \in Above(f, b)
BY EntryIsBlock DEF Above

LEMMA AboveTransitive ==
  ASSUME NEW f, NEW a, NEW b, NEW c, a \in Above(f, b), b \in Above(f, c)
  PROVE  a \in Above(f, c)
BY DEF Above

LEMMA AboveLeast ==
  ASSUME NEW f, NEW b, NEW S \in SUBSET Block, b \in S,
         \A x \in S : f[x] # Null => f[x] \in S
  PROVE  Above(f, b) \subseteq S
BY DEF Above

LEMMA AboveClosed ==
  ASSUME NEW f \in [Pointer -> Pointer], NEW b, NEW x \in Above(f, b), f[x] # Null
  PROVE  f[x] \in Above(f, b)
<1>1. f[x] \in Block
  BY DEF Above, Pointer
<1> QED
  BY <1>1 DEF Above

\* What is above b is b or above the next block.
LEMMA AboveCases ==
  ASSUME NEW f \in [Pointer -> Pointer], NEW b \in Block, NEW a \in Above(f, b), a # b
  PROVE  f[b] # Null /\ a \in Above(f, f[b])
<1>1. f[b] \in Pointer
  BY DEF Pointer
<1>2. CASE f[b] = Null
  <2> DEFINE S == {b}
  <2>1. S \in SUBSET Block /\ b \in S /\ \A x \in S : f[x] # Null => f[x] \in S
    BY <1>2
  <2> HIDE DEF S
  <2>2. Above(f, b) \subseteq S
    BY <2>1, AboveLeast
  <2> QED
    BY <2>2 DEF S
<1>3. CASE f[b] # Null
  <2>1. f[b] \in Block
    BY <1>1, <1>3 DEF Pointer
  <2>2. \A x \in Above(f, f[b]) : f[x] # Null => f[x] \in Above(f, f[b])
    BY AboveClosed
  <2>3. Above(f, f[b]) \subseteq Block /\ f[b] \in Above(f, f[b])
    BY <2>1, AboveSelf DEF Above
  <2> DEFINE S == {b} \cup Above(f, f[b])
  <2>4. S \in SUBSET Block /\ b \in S /\ \A x \in S : f[x] # Null => f[x] \in S
    BY <2>2, <2>3
  <2> HIDE DEF S
  <2>5. Above(f, b) \subseteq S
    BY <2>4, AboveLeast
  <2> QED
    BY <1>3, <2>5 DEF S
<1> QED
  BY <1>2, <1>3

\* In a tree the numbers grow upwards.
LEMMA AboveHigher ==
  ASSUME NEW f, NEW nd, NEW V, IsTree(f, nd, V), NEW b \in V, NEW a \in Above(f, b)
  PROVE  a \in V /\ nd[a] >= nd[b] /\ (f[b] # Null => f[a] # Null)
<1> DEFINE S == {x \in V : nd[x] >= nd[b] /\ (f[b] # Null => f[x] # Null)}
<1>1. V \subseteq Pointer /\ nd[b] \in Nat
  BY DEF IsTree, Pointer
<1>2. b \in S /\ S \in SUBSET Block
  BY <1>1 DEF IsTree
<1>3. ASSUME NEW x \in S, f[x] # Null PROVE f[x] \in S
  <2>1. CASE x = Entry
    BY <2>1 DEF IsTree
  <2>2. CASE x # Entry
    <3>1. f[x] \in V /\ f[f[x]] # Null /\ nd[f[x]] > nd[x] /\ nd[x] >= nd[b]
      BY <1>3, <2>2 DEF IsTree
    <3>2. nd[f[x]] \in Nat /\ nd[x] \in Nat
      BY <1>1, <3>1 DEF IsTree
    <3> QED
      BY <1>1, <3>1, <3>2
  <2> QED
    BY <2>1, <2>2
<1>4. Above(f, b) \subseteq S
  <2> HIDE DEF S
  <2> QED
    BY <1>2, <1>3, AboveLeast
<1> QED
  BY <1>4

\* A set of numbers has a least one.
LEMMA LeastNumber ==
  ASSUME NEW T, T \subseteq Nat, T # {}
  PROVE  \E m \in T : \A n \in T : m <= n
<1> DEFINE R == OpToRel(<, Nat)
<1>1. IsWellFoundedOn(R, Nat)
  BY NatLessThanWellFounded
<1>2. ASSUME NEW x \in Nat, NEW y \in Nat, x < y PROVE <<x, y>> \in R
  BY <1>2 DEF OpToRel
<1> HIDE DEF R
<1>3. PICK m \in T : \A y \in T : ~ (<<y, m>> \in R)
  BY <1>1, WFMin
<1>4. ASSUME NEW n \in T, ~ (m <= n) PROVE FALSE
  <2>1. m \in Nat /\ n \in Nat /\ n < m
    BY <1>4
  <2> QED
    BY <1>2, <1>3, <2>1
<1> QED
  BY <1>4

\* On a guided tree every dominator of a block is above it: of the blocks above b
\* that d dominates, the one with the highest number is d.
LEMMA DominatorsAbove ==
  ASSUME NEW f, NEW nd, NEW V, NEW g, IsTree(f, nd, V), Guided(f, g, V),
         NEW b \in V, f[b] # Null, NEW d \in Block, Dominates(g, d, b)
  PROVE  d \in Above(f, b)
<1> DEFINE D == {x \in Above(f, b) : Dominates(g, d, x)}
           T == {nd[Entry] - nd[x] : x \in D}
<1>1. /\ V \subseteq Block /\ V \subseteq Pointer /\ f \in [Pointer -> Pointer]
      /\ \A x \in V : nd[x] \in Nat /\ nd[x] <= nd[Entry]
      /\ nd[Entry] \in Nat
  BY EntryIsBlock DEF IsTree, Pointer
<1>2. \A x \in D : x \in V /\ f[x] # Null
  BY AboveHigher
<1>3. b \in D
  BY <1>1, AboveSelf
<1>4. T \subseteq Nat /\ T # {}
  BY <1>1, <1>2, <1>3
<1>5. PICK m \in T : \A n \in T : m <= n
  <2> HIDE DEF T
  <2> QED
    BY <1>4, LeastNumber
<1>6. PICK x \in D : m = nd[Entry] - nd[x]
  BY <1>5
<1>7. ASSUME x # d PROVE FALSE
  <2>1. x # Entry
    BY <1>6, <1>7, DominatesEntry
  <2>2. Dominates(g, d, f[x])
    BY <1>2, <1>6, <1>7, <2>1 DEF Guided, StrictlyDominates
  <2>3. f[x] \in Above(f, b)
    BY <1>1, <1>2, <1>6, AboveClosed
  <2>4. f[x] \in D /\ nd[f[x]] > nd[x]
    BY <1>2, <1>6, <2>1, <2>2, <2>3 DEF IsTree
  <2>5. nd[f[x]] \in Nat /\ nd[x] \in Nat
    BY <1>1, <1>2, <1>6, <2>4
  <2>6. m <= nd[Entry] - nd[f[x]]
    BY <1>5, <2>4
  <2> QED
    BY <1>1, <1>6, <2>4, <2>5, <2>6
<1> QED
  BY <1>6, <1>7

----------------------------------------------------------------------------
(* The inductive invariant: the depth-first search. *)

\* The numbers given are those of int_to_bb; a visited block without one is on the
\* stack.
Numbering ==
  /\ \A n \in DOMAIN int_to_bb : node[int_to_bb[n]] = n
  /\ \A b \in Pointer : node[b] # 0 =>
       b \in visited /\ node[b] \in DOMAIN int_to_bb /\ int_to_bb[node[b]] = b
  /\ \A b \in visited : node[b] = 0 => \E i \in 1..Depth : dfsStack[i][1] = b

\* The stack is a path from the entry, on which each block occurs once.
Path ==
  /\ \A i \in 1..Depth :
       /\ dfsStack[i][1] \in visited /\ node[dfsStack[i][1]] = 0
       /\ \A n \in DOMAIN succ[dfsStack[i][1]] :
            n < dfsStack[i][2] => succ[dfsStack[i][1]][n] \in visited
       /\ i = 1 => dfsStack[i][1] = Entry
       /\ i > 1 => dfsStack[i][1] \in Succs(succ, dfsStack[i - 1][1])
  /\ \A i, j \in 1..Depth : dfsStack[i][1] = dfsStack[j][1] => i = j

\* Each numbered block was entered from one that is numbered later.
Search ==
  /\ Entry \in visited /\ visited \subseteq Reachable(succ)
  /\ \A b \in visited : node[b] # 0 => Succs(succ, b) \subseteq visited
  /\ \A b \in visited \ {Entry} : node[b] # 0 =>
       \E p \in visited : b \in Succs(succ, p) /\ (node[p] = 0 \/ node[p] > node[b])
  /\ Depth = 0 => node[Entry] # 0 /\ node[Entry] = Len(int_to_bb)

DfsInv ==
  /\ succ \in Graphs
  /\ Numbering /\ Path /\ Search
  /\ pc # "dfs" => Depth = 0

----------------------------------------------------------------------------
(* The inductive invariant: the iteration and what comes after it. *)

Settled(b) == \A p \in Preds(succ, b) : idom[p] # Null => idom[b] \in Above(idom, p)

Tree ==
  IF pc = "dfs" THEN idom = [b \in Pointer |-> Null]
  ELSE IsTree(idom, node, visited) /\ Guided(idom, succ, visited)

\* A finger stays at blocks that all strict dominators of the current block dominate.
Finger(x) ==
  /\ x \in visited /\ idom[x] # Null
  /\ \A d \in Block : StrictlyDominates(succ, d, Current) => Dominates(succ, d, x)

\* What holds when the round has come down to number n.
After(n) ==
  /\ \A b \in visited : node[b] > n => idom[b] # Null
  /\ ~ changed => \A b \in visited \ {Entry} : node[b] > n => Settled(b)

Iterated == pc \in {"frontier", "runners", "climb", "tree", "done"}

Iteration ==
  /\ pc \in {"block", "preds", "intersect"} => k < Len(int_to_bb) /\ After(k)
  /\ pc \in {"preds", "intersect"} => k >= 1
  /\ pc = "round" /\ ~ changed => After(0)
  /\ Iterated => After(0) /\ ~ changed
  /\ pc \in {"preds", "intersect"} => todo \subseteq Preds(succ, Current)
  /\ pc = "preds" =>
       /\ Finger(new_idom)
       /\ \A p \in Preds(succ, Current) \ todo : idom[p] # Null => new_idom \in Above(idom, p)
  /\ pc = "intersect" =>
       /\ Finger(finger1) /\ Finger(finger2)
       /\ \A p \in Preds(succ, Current) \ todo : idom[p] # Null =>
            finger1 \in Above(idom, p) \/ finger2 \in Above(idom, p)

Many(y) == Cardinality(Preds(succ, y)) >= 2

\* A runner of block y comes by x.
Climbed(x, y) ==
  \E p \in Preds(succ, y) : x \in Above(idom, p) /\ x \notin Above(idom, idom[y])

\* The frontiers are complete for the blocks before block, and for the predecessors of
\* block whose runners are done; the one that climbs will come by the rest.  A runner
\* that has left the visited blocks never returns to them.
FrontierInv ==
  /\ ~ Iterated => \A x \in Block : dom_frontier[x] = {}
  /\ Iterated =>
       /\ block >= 1
       /\ \A x \in visited :
            /\ \A y \in dom_frontier[x] : y \in visited /\ Climbed(x, y)
            /\ \A y \in visited : y < block /\ Many(y) /\ Climbed(x, y) => y \in dom_frontier[x]
  /\ pc \in {"tree", "done"} => block = N + 1
  /\ pc \in {"runners", "climb"} =>
       /\ block \in Block
       /\ block \in visited => \A p \in Preds(succ, block) \ todo, x \in visited :
            x \in Above(idom, p) /\ x \notin Above(idom, idom[block]) =>
              \/ block \in dom_frontier[x]
              \/ pc = "climb" /\ runner \in visited /\ x \in Above(idom, runner)
       /\ todo \subseteq Preds(succ, block)
  /\ pc = "climb" /\ runner \in visited =>
       /\ block \in visited
       /\ idom[block] \in Above(idom, runner)
       /\ \E p \in Preds(succ, block) : runner \in Above(idom, p)

TreeBuilt ==
  pc = "done" => dom_tree_succ = [b \in Pointer |-> {p \in Block : idom[p] = b /\ p # b}]

IInv == TypeOK /\ DfsInv /\ Tree /\ Iteration /\ FrontierInv /\ TreeBuilt

----------------------------------------------------------------------------
(* The search preserves its part. *)

LEMMA InitIInv == Init => IInv
<1> SUFFICES ASSUME Init PROVE IInv
  OBVIOUS
<1>1. /\ succ \in Graphs /\ succ \in [Block -> Seq(Block)]
      /\ visited = {Entry} /\ dfsStack = <<<<Entry, 1>>>> /\ node = [b \in Pointer |-> 0]
      /\ int_to_bb = <<>> /\ pc = "dfs"
  BY GraphsAssumption DEF Init
<1>2. N \in Nat \ {0} /\ Entry \in Block /\ Block \subseteq Pointer
  BY NAssumption, EntryIsBlock DEF Pointer
<1>3. TypeOK
  <2>1. dfsStack \in Seq(Block \X (1..3))
    BY <1>1, <1>2
  <2>2. 0 \in 0..N /\ 0 \in 0..(N + 1) /\ Null \in Pointer
    BY <1>2 DEF Pointer
  <2>3. succ \in [Block -> Seq(Block)] /\ visited \subseteq Block /\ int_to_bb \in Seq(Block)
    BY <1>1, <1>2
  <2>4. node \in [Pointer -> 0..N] /\ idom \in [Pointer -> Pointer]
    BY <1>1, <2>2 DEF Init
  <2>5. /\ k \in 0..N /\ todo \subseteq Block /\ block \in 0..(N + 1)
        /\ new_idom \in Pointer /\ finger1 \in Pointer /\ finger2 \in Pointer /\ runner \in Pointer
        /\ changed \in BOOLEAN
    BY <2>2 DEF Init
  <2>6. dom_frontier \in [Pointer -> SUBSET Block] /\ dom_tree_succ \in [Pointer -> SUBSET Block]
    BY DEF Init
  <2> QED
    BY <1>1, <2>1, <2>3, <2>4, <2>5, <2>6 DEF TypeOK
<1>4. Depth = 1 /\ dfsStack[1] = <<Entry, 1>> /\ dfsStack[1][1] = Entry /\ dfsStack[1][2] = 1
  BY <1>1 DEF Depth
<1>5. DfsInv
  <2>1. Numbering
    BY <1>1, <1>2, <1>4 DEF Numbering
  <2>2. Path
    <3>1. succ[Entry] \in Seq(Block)
      BY <1>1, <1>2
    <3> QED
      BY <1>1, <1>2, <1>4, <3>1 DEF Path
  <2>3. Search
    BY <1>1, <1>2, <1>4, AvoidingEntry DEF Search, Reachable
  <2> QED
    BY <1>1, <2>1, <2>2, <2>3 DEF DfsInv
<1>6. Tree /\ Iteration /\ TreeBuilt
  BY <1>1 DEF Init, Tree, Iteration, TreeBuilt, Iterated
<1>7. FrontierInv
  BY <1>1, <1>2 DEF Init, FrontierInv, Iterated
<1> QED
  BY <1>3, <1>5, <1>6, <1>7 DEF IInv

\* The part of the invariant that is about the graph and the search is not touched by
\* the steps after the search.
LEMMA DfsKept ==
  ASSUME DfsInv, UNCHANGED <<succ, dfsState>>, pc' # "dfs" => Depth = 0
  PROVE  DfsInv'
BY DEF DfsInv, Numbering, Path, Search, Depth, dfsState

\* As long as the search runs nothing else has begun.
LEMMA DfsPhase ==
  ASSUME IInv, pc = "dfs", pc' = "dfs", UNCHANGED <<succ, idomState, resultState>>
  PROVE  Tree' /\ Iteration' /\ FrontierInv' /\ TreeBuilt'
BY DEF IInv, Tree, Iteration, FrontierInv, TreeBuilt, Iterated, idomState, resultState

\* The stack after its top frame has gone on.
LEMMA Advanced ==
  ASSUME NEW S, NEW s \in Seq(S \X (1..3)), Len(s) > 0, NEW m \in 1..3
  PROVE  LET a == [s EXCEPT ![Len(s)] = <<s[Len(s)][1], m>>]
         IN  /\ a \in Seq(S \X (1..3)) /\ Len(a) = Len(s)
             /\ \A i \in 1..Len(s) : a[i][1] = s[i][1]
             /\ \A i \in 1..Len(s) : i # Len(s) => a[i][2] = s[i][2]
             /\ a[Len(s)][2] = m
<1> DEFINE a == [s EXCEPT ![Len(s)] = <<s[Len(s)][1], m>>]
<1>1. Len(s) \in 1..Len(s) /\ s[Len(s)] \in S \X (1..3)
  OBVIOUS
<1>2. \A i \in 1..Len(s) : a[i] = IF i = Len(s) THEN <<s[Len(s)][1], m>> ELSE s[i]
  OBVIOUS
<1>3. a \in Seq(S \X (1..3)) /\ Len(a) = Len(s)
  BY <1>1
<1> HIDE DEF a
<1>4. \A i \in 1..Len(s) : a[i][1] = s[i][1]
  BY <1>2
<1>5. \A i \in 1..Len(s) : i # Len(s) => a[i][2] = s[i][2]
  BY <1>2
<1>6. a[Len(s)][2] = m
  BY <1>1, <1>2
<1> QED
  BY <1>3, <1>4, <1>5, <1>6 DEF a

LEMMA DfsSuccessorInv ==
  ASSUME IInv, DfsSuccessor
  PROVE  IInv'
<1> DEFINE b == Top[1]
           n == Top[2]
           t == succ[b][n]
           advanced == [dfsStack EXCEPT ![Depth] = <<b, n + 1>>]
<1>1. /\ pc = "dfs" /\ pc' = "dfs" /\ Depth > 0 /\ n \in DOMAIN succ[b]
      /\ IF t \in visited THEN dfsStack' = advanced /\ visited' = visited
         ELSE dfsStack' = Append(advanced, <<t, 1>>) /\ visited' = visited \cup {t}
      /\ UNCHANGED <<succ, node, int_to_bb, idomState, resultState>>
  BY DEF DfsSuccessor
<1>2. /\ succ \in [Block -> Seq(Block)] /\ visited \subseteq Block
      /\ dfsStack \in Seq(Block \X (1..3))
      /\ node \in [Pointer -> 0..N]
  BY DEF IInv, TypeOK
<1>3. Depth \in Nat \ {0} /\ Block \subseteq Pointer /\ succ \in Graphs
  BY <1>1, <1>2 DEF IInv, DfsInv, Depth, Pointer
<1>4. /\ dfsStack[Depth][1] = b /\ dfsStack[Depth][2] = n
      /\ b \in Block /\ n \in 1..3
  BY <1>2, <1>3 DEF Depth, Top
<1>5. succ[b] \in Seq(Block)
  BY <1>2, <1>4
<1>6. Len(succ[b]) <= 2
  BY <1>3, <1>4, GraphsAssumption
<1>7. n \in 1..Len(succ[b]) /\ n + 1 \in 1..3 /\ t \in Block
  BY <1>1, <1>4, <1>5, <1>6
<1>8. /\ advanced \in Seq(Block \X (1..3)) /\ Len(advanced) = Depth
      /\ \A i \in 1..Depth : advanced[i][1] = dfsStack[i][1]
      /\ \A i \in 1..Depth : i # Depth => advanced[i][2] = dfsStack[i][2]
      /\ advanced[Depth][2] = n + 1
  <2>1. Len(dfsStack) = Depth /\ Len(dfsStack) > 0
    BY <1>3 DEF Depth
  <2>2. advanced = [dfsStack EXCEPT ![Len(dfsStack)] = <<dfsStack[Len(dfsStack)][1], n + 1>>]
    BY <2>1 DEF Top
  <2> HIDE DEF advanced, b, n
  <2> QED
    BY <1>2, <1>7, <2>1, <2>2, Advanced
<1>9. t \in Succs(succ, b)
  BY <1>1 DEF Succs
<1>10. Numbering /\ Path /\ Search /\ b \in visited
  BY <1>3, <1>4 DEF IInv, DfsInv, Path
<1>11. t = succ[b][n]
  OBVIOUS
<1> HIDE DEF advanced, t, b, n
<1>12. TypeOK'
  <2>1. visited' \subseteq Block
    BY <1>1, <1>2, <1>7
  <2>2. dfsStack' \in Seq(Block \X (1..3))
    <3>1. <<t, 1>> \in Block \X (1..3)
      BY <1>7
    <3>2. Append(advanced, <<t, 1>>) \in Seq(Block \X (1..3))
      BY <1>8, <3>1
    <3> QED
      BY <1>1, <1>8, <3>2
  <2> QED
    BY <1>1, <2>1, <2>2 DEF IInv, TypeOK, idomState, resultState
<1>13. Reachable(succ)' = Reachable(succ) /\ t \in Reachable(succ)
  <2>1. b \in ReachableAvoiding(succ, {})
    BY <1>10 DEF Search, Reachable
  <2>2. t \in ReachableAvoiding(succ, {})
    BY <1>7, <1>9, <2>1, AvoidingStep
  <2> QED
    BY <1>1, <2>2 DEF Reachable
\* The successors that each frame has looked at.
<1>14. ASSUME NEW i \in 1..Depth, NEW m \in DOMAIN succ[dfsStack[i][1]], m < advanced[i][2]
       PROVE  succ[dfsStack[i][1]][m] \in visited \cup {t}
  <2>1. CASE i = Depth
    <3>1. m \in Nat /\ m < n + 1
      BY <1>4, <1>5, <1>8, <1>14, <2>1
    <3>2. CASE m = n
      BY <1>4, <1>11, <2>1, <3>2
    <3>3. CASE m # n
      <4>1. m < dfsStack[i][2]
        BY <1>4, <2>1, <3>1, <3>3
      <4> QED
        BY <1>10, <4>1 DEF Path
    <3> QED
      BY <3>2, <3>3
  <2>2. CASE i # Depth
    BY <1>8, <1>10, <1>14, <2>2 DEF Path
  <2> QED
    BY <2>1, <2>2
<1>15. \A i \in 1..Depth : i > 1 => i - 1 \in 1..Depth
  BY <1>3
<1>16. CASE t \in visited
  <2>1. /\ dfsStack' = advanced /\ visited' = visited /\ Depth' = Depth
        /\ UNCHANGED <<succ, node, int_to_bb>>
    BY <1>1, <1>8, <1>16 DEF Depth
  <2>2. Numbering'
    BY <1>8, <1>10, <2>1 DEF Numbering
  <2>3. Path'
    BY <1>8, <1>10, <1>14, <1>15, <1>16, <2>1 DEF Path
  <2>4. Search'
    BY <1>10, <1>13, <2>1 DEF Search
  <2>5. DfsInv'
    BY <1>1, <1>3, <2>2, <2>3, <2>4 DEF DfsInv
  <2> QED
    BY <1>1, <1>12, <2>1, <2>5, DfsPhase DEF IInv
<1>17. CASE t \notin visited
  <2>1. /\ dfsStack' = Append(advanced, <<t, 1>>) /\ visited' = visited \cup {t}
        /\ UNCHANGED <<succ, node, int_to_bb>>
    BY <1>1, <1>17
  <2>2. /\ Depth' = Depth + 1
        /\ \A i \in 1..Depth : dfsStack'[i] = advanced[i]
        /\ dfsStack'[Depth + 1] = <<t, 1>>
    BY <1>3, <1>8, <2>1 DEF Depth
  <2>3. /\ \A i \in 1..Depth : dfsStack'[i][1] = dfsStack[i][1]
        /\ \A i \in 1..Depth : dfsStack'[i][2] = advanced[i][2]
        /\ dfsStack'[Depth + 1][1] = t /\ dfsStack'[Depth + 1][2] = 1
        /\ dfsStack'[Depth][1] = b
    BY <1>3, <1>4, <1>8, <2>2
  <2>4. 1..(Depth + 1) = 1..Depth \cup {Depth + 1} /\ Depth + 1 \notin 1..Depth
        /\ Depth + 1 > 1 /\ (Depth + 1) - 1 = Depth /\ Depth + 1 # 1 /\ Depth + 1 # 0
    BY <1>3
  <2>5. node[t] = 0
    BY <1>3, <1>7, <1>10, <1>17 DEF Numbering
  <2>6. Numbering'
    <3>1. ASSUME NEW x \in visited', node[x] = 0
          PROVE  \E i \in 1..(Depth + 1) : dfsStack'[i][1] = x
      <4>1. CASE x = t
        BY <2>3, <2>4, <4>1
      <4>2. CASE x # t
        <5>1. PICK i \in 1..Depth : dfsStack[i][1] = x
          BY <1>10, <2>1, <3>1, <4>2 DEF Numbering
        <5> QED
          BY <2>3, <2>4, <5>1
      <4> QED
        BY <4>1, <4>2
    <3> QED
      BY <1>10, <2>1, <2>2, <3>1 DEF Numbering
  <2>7. Path'
    <3>1. ASSUME NEW i \in 1..Depth
          PROVE  /\ dfsStack'[i][1] \in visited' /\ node[dfsStack'[i][1]] = 0
                 /\ \A m \in DOMAIN succ[dfsStack'[i][1]] :
                      m < dfsStack'[i][2] => succ[dfsStack'[i][1]][m] \in visited'
                 /\ i = 1 => dfsStack'[i][1] = Entry
                 /\ i > 1 => dfsStack'[i][1] \in Succs(succ, dfsStack'[i - 1][1])
      <4>1. \A m \in DOMAIN succ[dfsStack'[i][1]] :
              m < dfsStack'[i][2] => succ[dfsStack'[i][1]][m] \in visited'
        BY <1>14, <2>1, <2>3
      <4>2. /\ dfsStack[i][1] \in visited /\ node[dfsStack[i][1]] = 0
            /\ i = 1 => dfsStack[i][1] = Entry
            /\ i > 1 => dfsStack[i][1] \in Succs(succ, dfsStack[i - 1][1])
        BY <1>10 DEF Path
      <4>3. i > 1 => dfsStack'[i - 1][1] = dfsStack[i - 1][1]
        BY <1>15, <2>3
      <4> QED
        BY <2>1, <2>3, <4>1, <4>2, <4>3
    <3>2. \A m \in DOMAIN succ[t] : ~ (m < 1)
      <4>1. succ[t] \in Seq(Block)
        BY <1>2, <1>7
      <4> QED
        BY <4>1
    <3>3. \A i, j \in 1..(Depth + 1) : dfsStack'[i][1] = dfsStack'[j][1] => i = j
      <4>1. \A i \in 1..Depth : dfsStack'[i][1] # t
        BY <1>10, <1>17, <2>3 DEF Path
      <4>2. \A i, j \in 1..Depth : dfsStack'[i][1] = dfsStack'[j][1] => i = j
        BY <1>10, <2>3 DEF Path
      <4> QED
        BY <2>3, <2>4, <4>1, <4>2
    <3>4. LET i == Depth + 1
          IN  /\ dfsStack'[i][1] \in visited' /\ node[dfsStack'[i][1]] = 0
              /\ \A m \in DOMAIN succ[dfsStack'[i][1]] :
                   m < dfsStack'[i][2] => succ[dfsStack'[i][1]][m] \in visited'
              /\ i # 1 /\ dfsStack'[i][1] \in Succs(succ, dfsStack'[i - 1][1])
      BY <1>9, <2>1, <2>3, <2>4, <2>5, <3>2
    <3>5. \A i \in 1..(Depth + 1) :
            /\ dfsStack'[i][1] \in visited' /\ node[dfsStack'[i][1]] = 0
            /\ \A m \in DOMAIN succ[dfsStack'[i][1]] :
                 m < dfsStack'[i][2] => succ[dfsStack'[i][1]][m] \in visited'
            /\ i = 1 => dfsStack'[i][1] = Entry
            /\ i > 1 => dfsStack'[i][1] \in Succs(succ, dfsStack'[i - 1][1])
      <4> SUFFICES ASSUME NEW i \in 1..(Depth + 1)
                   PROVE  /\ dfsStack'[i][1] \in visited' /\ node[dfsStack'[i][1]] = 0
                          /\ \A m \in DOMAIN succ[dfsStack'[i][1]] :
                               m < dfsStack'[i][2] => succ[dfsStack'[i][1]][m] \in visited'
                          /\ i = 1 => dfsStack'[i][1] = Entry
                          /\ i > 1 => dfsStack'[i][1] \in Succs(succ, dfsStack'[i - 1][1])
        OBVIOUS
      <4>1. CASE i \in 1..Depth
        BY <3>1, <4>1
      <4>2. CASE i = Depth + 1
        BY <3>4, <4>2
      <4> QED
        BY <2>4, <4>1, <4>2
    <3> QED
      BY <2>1, <2>2, <3>3, <3>5 DEF Path
  <2>8. Search'
    <3>1. Depth' # 0
      BY <2>2, <2>4
    <3> QED
      BY <1>10, <1>13, <2>1, <2>5, <3>1 DEF Search
  <2>9. DfsInv'
    BY <1>1, <1>3, <2>1, <2>6, <2>7, <2>8 DEF DfsInv
  <2> QED
    BY <1>1, <1>12, <2>1, <2>9, DfsPhase DEF IInv
<1> QED
  BY <1>16, <1>17

\* The stack without its top frame.
LEMMA Shortened ==
  ASSUME NEW S, NEW s \in Seq(S), Len(s) > 0
  PROVE  LET t == SubSeq(s, 1, Len(s) - 1)
         IN  /\ Len(t) = Len(s) - 1 /\ t \in Seq(S)
             /\ \A i \in 1..(Len(s) - 1) : t[i] = s[i]
<1> DEFINE l == Len(s) - 1
           t == SubSeq(s, 1, l)
<1>1. l \in Nat /\ 1 \in Int
  OBVIOUS
<1>2. \A i \in 1..l : s[i] \in S
  OBVIOUS
<1> HIDE DEF l
<1>3. /\ t \in Seq(S) /\ Len(t) = IF 1 <= l THEN l - 1 + 1 ELSE 0
      /\ \A i \in 1..(l - 1 + 1) : t[i] = s[1 + i - 1]
  BY <1>1, <1>2, SubSeqProperties
<1> HIDE DEF t
<1>4. l - 1 + 1 = l /\ \A i \in 1..l : 1 + i - 1 = i
  BY <1>1
<1>5. Len(t) = l
  BY <1>1, <1>3, <1>4
<1> QED
  BY <1>3, <1>4, <1>5 DEF t, l

\* There are no more numbers than blocks.
LEMMA Numbers ==
  ASSUME NEW s \in Seq(Block), \A i, j \in DOMAIN s : s[i] = s[j] => i = j
  PROVE  Len(s) <= N
<1>1. N \in Nat /\ Len(s) \in Nat /\ DOMAIN s = 1..Len(s) /\ s \in [1..Len(s) -> 1..N]
  BY NAssumption DEF Block
<1>2. \A a \in Nat : IsFiniteSet(1..a) /\ Cardinality(1..a) = a
  <2> SUFFICES ASSUME NEW a \in Nat PROVE IsFiniteSet(1..a) /\ Cardinality(1..a) = a
    OBVIOUS
  <2>1. IsFiniteSet(1..a) /\ Cardinality(1..a) = IF 1 > a THEN 0 ELSE a - 1 + 1
    BY FS_Interval
  <2> QED
    BY <2>1
<1>3. ASSUME N < Len(s) PROVE FALSE
  <2>1. IsFiniteSet(1..Len(s)) /\ IsFiniteSet(1..N) /\ Cardinality(1..N) < Cardinality(1..Len(s))
    BY <1>1, <1>2, <1>3
  <2>2. s \in [1..Len(s) -> 1..N]
    BY <1>1
  <2>3. \E x, y \in 1..Len(s) : x # y /\ s[x] = s[y]
    BY ONLY <2>1, <2>2, FS_PigeonHole
  <2> QED
    BY <1>1, <2>3
<1> QED
  BY <1>1, <1>3

LEMMA DfsReturnInv ==
  ASSUME IInv, DfsReturn
  PROVE  IInv'
<1> DEFINE b == Top[1]
           n == Len(int_to_bb) + 1
<1>1. /\ pc = "dfs" /\ pc' = "dfs" /\ Depth > 0 /\ Top[2] \notin DOMAIN succ[b]
      /\ int_to_bb' = Append(int_to_bb, b)
      /\ node' = [node EXCEPT ![b] = Len(int_to_bb')]
      /\ dfsStack' = SubSeq(dfsStack, 1, Depth - 1)
      /\ UNCHANGED <<succ, visited, idomState, resultState>>
  BY DEF DfsReturn
<1>2. /\ succ \in [Block -> Seq(Block)] /\ visited \subseteq Block
      /\ dfsStack \in Seq(Block \X (1..3)) /\ int_to_bb \in Seq(Block)
      /\ node \in [Pointer -> 0..N]
  BY DEF IInv, TypeOK
<1>3. Depth \in Nat \ {0} /\ Block \subseteq Pointer /\ succ \in Graphs /\ n \in Nat \ {0}
  BY <1>1, <1>2 DEF IInv, DfsInv, Depth, Pointer
<1>4. /\ dfsStack[Depth][1] = b /\ dfsStack[Depth][2] = Top[2]
      /\ b \in Block /\ Top[2] \in 1..3
  BY <1>2, <1>3 DEF Depth, Top
<1>5. Numbering /\ Path /\ Search /\ b \in visited /\ node[b] = 0
  BY <1>3, <1>4 DEF IInv, DfsInv, Path
<1>6. /\ Depth' = Depth - 1 /\ dfsStack' \in Seq(Block \X (1..3))
      /\ \A i \in 1..(Depth - 1) : dfsStack'[i] = dfsStack[i]
  BY <1>1, <1>2, <1>3, Shortened DEF Depth
<1>7. /\ int_to_bb' \in Seq(Block) /\ Len(int_to_bb') = n /\ int_to_bb'[n] = b
      /\ \A i \in 1..(n - 1) : int_to_bb'[i] = int_to_bb[i]
      /\ DOMAIN int_to_bb = 1..(n - 1) /\ DOMAIN int_to_bb' = 1..n
  BY <1>1, <1>2, <1>4
<1> HIDE DEF n, b
<1>8. /\ 1..n = 1..(n - 1) \cup {n} /\ n \notin 1..(n - 1)
      /\ \A i \in 1..(n - 1) : i < n /\ i # 0
      /\ 1..Depth = 1..(Depth - 1) \cup {Depth}
      /\ \A i \in 1..(Depth - 1) :
           i \in 1..Depth /\ i # Depth /\ (i > 1 => i - 1 \in 1..(Depth - 1))
  BY <1>3
<1>9. node' = [node EXCEPT ![b] = n]
  BY <1>1, <1>7
<1>10. \A i \in 1..(n - 1) : node[int_to_bb[i]] = i /\ int_to_bb[i] # b
  BY <1>5, <1>7, <1>8 DEF Numbering
<1>11. /\ node'[b] = n /\ \A x \in Pointer \ {b} : node'[x] = node[x]
       /\ \A x \in Block : node[x] # 0 => node'[x] = node[x] /\ node[x] \in 1..(n - 1)
  <2>1. b \in Pointer
    BY <1>3, <1>4
  <2>2. node'[b] = n /\ \A x \in Pointer \ {b} : node'[x] = node[x]
    BY <1>2, <1>9, <2>1
  <2>3. \A x \in Block : node[x] # 0 => node[x] \in DOMAIN int_to_bb
    BY <1>3, <1>5 DEF Numbering
  <2> QED
    BY <1>3, <1>5, <1>7, <2>2, <2>3
<1>12. n <= N
  <2>1. \A i, j \in 1..n : int_to_bb'[i] = int_to_bb'[j] => i = j
    BY <1>7, <1>8, <1>10
  <2> QED
    BY <1>7, <2>1, Numbers
<1>13. TypeOK'
  <2>1. node' \in [Pointer -> 0..N]
    <3>1. n \in 0..N
      BY <1>3, <1>12, NAssumption
    <3> QED
      BY <1>2, <1>9, <3>1
  <2> QED
    BY <1>1, <1>6, <1>7, <2>1 DEF IInv, TypeOK, idomState, resultState
<1>14. Numbering'
  <2>1. \A i \in 1..n : node'[int_to_bb'[i]] = i
    <3> SUFFICES ASSUME NEW i \in 1..n PROVE node'[int_to_bb'[i]] = i
      OBVIOUS
    <3>1. CASE i = n
      BY <1>7, <1>11, <3>1
    <3>2. CASE i \in 1..(n - 1)
      <4>1. int_to_bb'[i] = int_to_bb[i] /\ int_to_bb[i] \in Block
        BY <1>2, <1>7, <3>2
      <4> QED
        BY <1>3, <1>10, <1>11, <3>2, <4>1
    <3> QED
      BY <1>8, <3>1, <3>2
  <2>2. ASSUME NEW x \in Pointer, node'[x] # 0
        PROVE  x \in visited /\ node'[x] \in 1..n /\ int_to_bb'[node'[x]] = x
    <3>1. CASE x = b
      BY <1>3, <1>5, <1>7, <1>11, <3>1
    <3>2. CASE x # b
      <4>1. node'[x] = node[x] /\ node[x] \in 1..(n - 1) /\ int_to_bb[node[x]] = x /\ x \in visited
        BY <1>5, <1>7, <1>11, <2>2, <3>2 DEF Numbering
      <4> QED
        BY <1>7, <1>8, <4>1
    <3> QED
      BY <3>1, <3>2
  <2>3. ASSUME NEW x \in visited, node'[x] = 0
        PROVE  \E i \in 1..(Depth - 1) : dfsStack'[i][1] = x
    <3>1. x # b /\ node[x] = 0
      BY <1>2, <1>3, <1>11, <2>3
    <3>2. PICK i \in 1..Depth : dfsStack[i][1] = x
      BY <1>5, <3>1 DEF Numbering
    <3>3. i # Depth
      BY <1>4, <3>1, <3>2
    <3>4. i \in 1..(Depth - 1)
      BY <1>8, <3>2, <3>3
    <3> QED
      BY <1>6, <3>2, <3>4
  <2> QED
    BY <1>1, <1>6, <1>7, <2>1, <2>2, <2>3 DEF Numbering
<1>15. Path'
  <2>1. ASSUME NEW i \in 1..(Depth - 1)
        PROVE  /\ dfsStack'[i][1] \in visited /\ node'[dfsStack'[i][1]] = 0
               /\ \A m \in DOMAIN succ[dfsStack'[i][1]] :
                    m < dfsStack'[i][2] => succ[dfsStack'[i][1]][m] \in visited
               /\ i = 1 => dfsStack'[i][1] = Entry
               /\ i > 1 => dfsStack'[i][1] \in Succs(succ, dfsStack'[i - 1][1])
    <3>1. dfsStack'[i] = dfsStack[i] /\ i \in 1..Depth /\ i # Depth
      BY <1>6, <1>8
    <3>2. i > 1 => dfsStack'[i - 1] = dfsStack[i - 1]
      BY <1>6, <1>8
    <3>3. dfsStack[i][1] # b /\ dfsStack[i][1] \in visited /\ node[dfsStack[i][1]] = 0
      BY <1>3, <1>4, <1>5, <3>1 DEF Path
    <3>4. node'[dfsStack[i][1]] = 0
      BY <1>2, <1>3, <1>11, <3>3
    <3> QED
      BY <1>5, <3>1, <3>2, <3>3, <3>4 DEF Path
  <2>2. ASSUME NEW i \in 1..(Depth - 1), NEW j \in 1..(Depth - 1), dfsStack'[i][1] = dfsStack'[j][1]
        PROVE  i = j
    <3>1. dfsStack'[i] = dfsStack[i] /\ dfsStack'[j] = dfsStack[j]
      BY <1>6
    <3>2. i \in 1..Depth /\ j \in 1..Depth
      BY <1>8
    <3> QED
      BY <1>5, <2>2, <3>1, <3>2 DEF Path
  <2> QED
    BY <1>1, <1>6, <2>1, <2>2 DEF Path
<1>16. Search'
  <2>1. Succs(succ, b) \subseteq visited
    <3>1. succ[b] \in Seq(Block) /\ \A m \in DOMAIN succ[b] : m \in Nat /\ m < Top[2]
      BY <1>1, <1>2, <1>4
    <3>2. \A m \in DOMAIN succ[b] : succ[b][m] \in visited
      BY <1>3, <1>4, <1>5, <3>1 DEF Path
    <3> QED
      BY <3>2 DEF Succs
  <2>2. \A x \in visited : node'[x] # 0 => Succs(succ, x) \subseteq visited
    BY <1>2, <1>3, <1>5, <1>11, <2>1 DEF Search
  <2>3. ASSUME NEW x \in visited \ {Entry}, node'[x] # 0
        PROVE  \E p \in visited : x \in Succs(succ, p) /\ (node'[p] = 0 \/ node'[p] > node'[x])
    <3>1. CASE x = b
      <4>1. Depth \in 1..Depth /\ Depth > 1
        BY <1>3, <1>4, <1>5, <2>3, <3>1 DEF Path
      <4>2. x \in Succs(succ, dfsStack[Depth - 1][1])
        BY <1>4, <1>5, <3>1, <4>1 DEF Path
      <4>3. Depth - 1 \in 1..(Depth - 1)
        BY <1>3, <4>1
      <4>4. dfsStack[Depth - 1][1] \in visited /\ node'[dfsStack[Depth - 1][1]] = 0
        BY <1>6, <1>15, <4>3, <1>1 DEF Path
      <4> QED
        BY <4>2, <4>4
    <3>2. CASE x # b
      <4>1. node[x] # 0 /\ node'[x] = node[x] /\ node[x] \in 1..(n - 1)
        BY <1>2, <1>3, <1>11, <2>3, <3>2
      <4>2. PICK p \in visited : x \in Succs(succ, p) /\ (node[p] = 0 \/ node[p] > node[x])
        BY <1>5, <2>3, <4>1 DEF Search
      <4>3. CASE p = b
        BY <1>3, <1>11, <4>1, <4>2, <4>3
      <4>4. CASE p # b
        BY <1>2, <1>3, <1>11, <4>1, <4>2, <4>4
      <4> QED
        BY <4>3, <4>4
    <3> QED
      BY <3>1, <3>2
  <2>4. ASSUME Depth' = 0 PROVE node'[Entry] # 0 /\ node'[Entry] = Len(int_to_bb')
    <3>1. Depth = 1
      BY <1>3, <1>6, <2>4
    <3>2. b = Entry
      BY <1>4, <1>5, <3>1 DEF Path
    <3> QED
      BY <1>3, <1>7, <1>11, <3>2
  <2> QED
    BY <1>1, <1>5, <2>2, <2>3, <2>4 DEF Search, Reachable
<1>17. DfsInv'
  BY <1>1, <1>3, <1>14, <1>15, <1>16 DEF DfsInv
<1> QED
  BY <1>1, <1>13, <1>17, DfsPhase DEF IInv

\* When the search is over, every visited block has a number, the entry the highest.
LEMMA Numbered ==
  ASSUME TypeOK, DfsInv, Depth = 0
  PROVE  /\ visited \subseteq Block /\ Block \subseteq Pointer /\ Entry \in visited
         /\ Len(int_to_bb) \in 1..N /\ node[Entry] = Len(int_to_bb)
         /\ \A b \in visited : node[b] \in 1..Len(int_to_bb) /\ int_to_bb[node[b]] = b
         /\ \A n \in 1..Len(int_to_bb) : int_to_bb[n] \in visited /\ node[int_to_bb[n]] = n
         /\ \A b \in visited : Succs(succ, b) \subseteq visited
<1>1. /\ visited \subseteq Block /\ int_to_bb \in Seq(Block) /\ node \in [Pointer -> 0..N]
      /\ Numbering /\ Search
  BY DEF TypeOK, DfsInv
<1>2. Block \subseteq Pointer /\ Entry \in visited /\ DOMAIN int_to_bb = 1..Len(int_to_bb)
  BY <1>1 DEF Pointer, Search
<1>3. \A b \in visited : node[b] # 0
  BY <1>1 DEF Numbering
<1>4. \A b \in visited : node[b] \in 1..Len(int_to_bb) /\ int_to_bb[node[b]] = b
  BY <1>1, <1>2, <1>3 DEF Numbering
<1>5. \A n \in 1..Len(int_to_bb) : int_to_bb[n] \in Block /\ node[int_to_bb[n]] = n /\ n # 0
  BY <1>1, <1>2 DEF Numbering
<1>6. \A n \in 1..Len(int_to_bb) : int_to_bb[n] \in visited
  BY <1>1, <1>2, <1>5 DEF Numbering
<1>7. node[Entry] = Len(int_to_bb) /\ node[Entry] # 0 /\ node[Entry] \in 0..N
  BY <1>1, <1>2 DEF Search
<1>8. Len(int_to_bb) \in 1..N
  BY <1>7, NAssumption
<1> QED
  BY <1>1, <1>2, <1>3, <1>4, <1>5, <1>6, <1>7, <1>8 DEF Search

LEMMA AfterSearch ==
  ASSUME IInv, pc # "dfs"
  PROVE  /\ TypeOK /\ DfsInv /\ Depth = 0
         /\ IsTree(idom, node, visited) /\ Guided(idom, succ, visited)
BY DEF IInv, DfsInv, Tree

LEMMA DfsDoneInv ==
  ASSUME IInv, DfsDone
  PROVE  IInv'
<1>1. /\ pc = "dfs" /\ pc' = "round" /\ Depth = 0 /\ changed' = TRUE
      /\ idom' = [idom EXCEPT ![Entry] = Entry]
      /\ UNCHANGED <<succ, dfsState, k, todo, new_idom, finger1, finger2, resultState>>
  BY DEF DfsDone
<1>2. TypeOK /\ DfsInv /\ idom = [b \in Pointer |-> Null]
  BY <1>1 DEF IInv, Tree
<1>3. /\ visited \subseteq Block /\ Block \subseteq Pointer /\ Entry \in visited
      /\ Len(int_to_bb) \in 1..N /\ node[Entry] = Len(int_to_bb)
      /\ \A b \in visited : node[b] \in 1..Len(int_to_bb) /\ int_to_bb[node[b]] = b
  BY <1>1, <1>2, Numbered
<1>4. TypeOK'
  BY <1>1, <1>2, EntryIsBlock DEF TypeOK, Pointer, dfsState, resultState
<1>5. DfsInv'
  BY <1>1, <1>2, DfsKept
<1>6. /\ idom' \in [Pointer -> Pointer] /\ idom'[Entry] = Entry
      /\ \A b \in Pointer \ {Entry} : idom'[b] = Null
  BY <1>1, <1>2, <1>3, EntryIsBlock DEF Pointer
<1>7. IsTree(idom', node, visited)
  <2>1. node \in [Pointer -> Nat]
    BY <1>2, NAssumption DEF TypeOK
  <2>2. \A b \in visited : node[b] <= node[Entry]
    BY <1>3
  <2>3. \A x, y \in visited : node[x] = node[y] => x = y
    BY <1>3
  <2> QED
    BY <1>3, <1>6, <2>1, <2>2, <2>3 DEF IsTree
<1>8. Guided(idom', succ, visited)
  BY <1>3, <1>6 DEF Guided
<1>9. Tree'
  BY <1>1, <1>7, <1>8 DEF Tree, dfsState
<1>10. Iteration'
  BY <1>1 DEF Iteration, Iterated
<1>11. FrontierInv' /\ TreeBuilt'
  BY <1>1 DEF IInv, FrontierInv, TreeBuilt, Iterated, resultState
<1> QED
  BY <1>4, <1>5, <1>9, <1>10, <1>11 DEF IInv

----------------------------------------------------------------------------
(* The iteration preserves the invariant. *)

\* The steps of the iteration other than Update leave the tree alone.
LEMMA TreeKept ==
  ASSUME IInv, pc # "dfs", pc' # "dfs", UNCHANGED <<succ, dfsState, idom>>
  PROVE  DfsInv' /\ Tree'
<1>1. Depth = 0 /\ DfsInv
  BY AfterSearch
<1>2. DfsInv'
  BY <1>1, DfsKept
<1> QED
  BY <1>2 DEF IInv, Tree, IsTree, Guided, dfsState

\* Until the frontiers are begun nothing is said about them.
LEMMA NoFrontiers ==
  ASSUME IInv, ~ Iterated, ~ Iterated', UNCHANGED resultState
  PROVE  FrontierInv' /\ TreeBuilt'
BY DEF IInv, FrontierInv, TreeBuilt, Iterated, resultState

LEMMA BeginRoundInv ==
  ASSUME IInv, BeginRound
  PROVE  IInv'
<1>1. /\ pc = "round" /\ pc' = "block" /\ changed' = FALSE /\ k' = Len(int_to_bb) - 1
      /\ UNCHANGED <<succ, dfsState, idom, todo, new_idom, finger1, finger2, resultState>>
  BY DEF BeginRound
<1>2. TypeOK /\ DfsInv /\ Depth = 0 /\ IsTree(idom, node, visited)
  BY <1>1, AfterSearch
<1>3. /\ visited \subseteq Block /\ Block \subseteq Pointer /\ Entry \in visited
      /\ Len(int_to_bb) \in 1..N /\ node[Entry] = Len(int_to_bb)
      /\ \A b \in visited : node[b] \in 1..Len(int_to_bb) /\ int_to_bb[node[b]] = b
  BY <1>2, Numbered
<1>4. k' \in 0..N /\ k' < Len(int_to_bb)
  BY <1>1, <1>3, NAssumption
<1>5. TypeOK'
  BY <1>1, <1>2, <1>4 DEF TypeOK, dfsState, resultState
<1>6. \A b \in visited : node[b] > k' => b = Entry
  <2> SUFFICES ASSUME NEW b \in visited, node[b] > k' PROVE b = Entry
    OBVIOUS
  <2>1. node[b] = Len(int_to_bb)
    BY <1>1, <1>3
  <2> QED
    BY <1>3, <2>1
<1>7. idom[Entry] = Entry /\ Entry # Null
  BY <1>2, EntryIsBlock DEF IsTree
<1>8. After(k)'
  BY <1>1, <1>6, <1>7 DEF After, dfsState
<1>9. Iteration'
  BY <1>1, <1>4, <1>8 DEF Iteration, Iterated, dfsState
<1>10. FrontierInv' /\ TreeBuilt'
  BY <1>1, NoFrontiers DEF Iterated
<1> QED
  BY <1>1, <1>5, <1>9, <1>10, TreeKept DEF IInv

LEMMA RoundsDoneInv ==
  ASSUME IInv, RoundsDone
  PROVE  IInv'
<1>1. /\ pc = "round" /\ pc' = "frontier" /\ ~ changed /\ block' = 1
      /\ UNCHANGED <<succ, dfsState, idomState, runner, dom_frontier, dom_tree_succ>>
  BY DEF RoundsDone
<1>2. TypeOK /\ visited \subseteq Block
  BY DEF IInv, TypeOK
<1>3. TypeOK'
  BY <1>1, <1>2, NAssumption DEF TypeOK, dfsState, idomState
<1>4. After(0)
  BY <1>1 DEF IInv, Iteration
<1>5. Iteration'
  BY <1>1, <1>4 DEF Iteration, Iterated, After, Settled, dfsState, idomState
<1>6. \A x \in Block : dom_frontier[x] = {} /\ ~ (x < 1)
  BY <1>1 DEF IInv, FrontierInv, Iterated, Block
<1>7. FrontierInv'
  BY <1>1, <1>2, <1>6 DEF FrontierInv, Iterated, dfsState
<1> QED
  BY <1>1, <1>3, <1>5, <1>7, TreeKept DEF IInv, TreeBuilt, idomState
\* The block of an iteration is visited and not the entry.
LEMMA CurrentBlock ==
  ASSUME IInv, pc \in {"block", "preds", "intersect"}, k >= 1
  PROVE  /\ k \in Nat /\ Current \in visited \ {Entry} /\ node[Current] = k
         /\ visited \subseteq Block /\ Block \subseteq Pointer
         /\ \A n \in 1..Len(int_to_bb) : int_to_bb[n] \in visited /\ node[int_to_bb[n]] = n
         /\ \A b \in visited : node[b] \in Nat
         /\ idom \in [Pointer -> Pointer]
         /\ \A b \in Block : idom[b] # Null => b \in visited
<1>1. TypeOK /\ DfsInv /\ Depth = 0 /\ IsTree(idom, node, visited)
  BY AfterSearch
<1>2. k \in 0..N /\ k < Len(int_to_bb)
  BY <1>1 DEF IInv, Iteration, TypeOK
<1>3. /\ visited \subseteq Block /\ Block \subseteq Pointer
      /\ Len(int_to_bb) \in 1..N /\ node[Entry] = Len(int_to_bb)
      /\ \A b \in visited : node[b] \in 1..Len(int_to_bb)
      /\ \A n \in 1..Len(int_to_bb) : int_to_bb[n] \in visited /\ node[int_to_bb[n]] = n
  BY <1>1, Numbered
<1>4. k \in 1..Len(int_to_bb) /\ k # Len(int_to_bb)
  BY <1>2, <1>3, NAssumption
<1>5. Current \in visited /\ node[Current] = k
  BY <1>3, <1>4 DEF Current
<1>6. Current # Entry
  BY <1>3, <1>4, <1>5
<1>7. idom \in [Pointer -> Pointer] /\ \A b \in Block : idom[b] # Null => b \in visited
  BY <1>1, <1>3 DEF IsTree
<1>8. \A b \in visited : node[b] \in Nat
  BY <1>3
<1> QED
  BY <1>3, <1>4, <1>5, <1>6, <1>7, <1>8

\* A predecessor with a dominator is a finger.
LEMMA PredIsFinger ==
  ASSUME IInv, pc \in {"block", "preds", "intersect"}, k >= 1,
         NEW p \in Preds(succ, Current), idom[p] # Null
  PROVE  Finger(p) /\ p \in Above(idom, p)
<1>1. p \in Block /\ Current \in Block
  BY CurrentBlock DEF Preds
<1>2. \A d \in Block : StrictlyDominates(succ, d, Current) => Dominates(succ, d, p)
  BY <1>1, DominatesPred
<1> QED
  BY <1>1, <1>2, CurrentBlock, AboveSelf DEF Finger

\* A step within an iteration.
LEMMA WithinIteration ==
  ASSUME IInv, pc \in {"block", "preds", "intersect"}, k >= 1,
         pc' \in {"preds", "intersect"},
         UNCHANGED <<succ, dfsState, idom, changed, k, resultState>>,
         todo' \subseteq Preds(succ, Current), new_idom' \in Pointer, finger1' \in Pointer, finger2' \in Pointer,
         pc' = "preds" =>
           /\ Finger(new_idom')
           /\ \A p \in Preds(succ, Current) \ todo' :
                idom[p] # Null => new_idom' \in Above(idom, p),
         pc' = "intersect" =>
           /\ Finger(finger1') /\ Finger(finger2')
           /\ \A p \in Preds(succ, Current) \ todo' : idom[p] # Null =>
                finger1' \in Above(idom, p) \/ finger2' \in Above(idom, p)
  PROVE  IInv'
<1>1. TypeOK'
  BY DEF IInv, TypeOK, dfsState, resultState, Preds
<1>2. k < Len(int_to_bb) /\ After(k)
  BY DEF IInv, Iteration
<1>3. After(k)' /\ Current' = Current /\ \A x \in Pointer : Finger(x) => Finger(x)'
  BY <1>2 DEF After, Settled, Finger, Current, dfsState
<1>4. Iteration'
  BY <1>2, <1>3 DEF Iteration, Iterated, Current, Finger, After, Settled, dfsState
<1>5. FrontierInv' /\ TreeBuilt'
  BY NoFrontiers DEF Iterated
<1> QED
  BY <1>1, <1>4, <1>5, TreeKept DEF IInv

LEMMA PickFirstInv ==
  ASSUME IInv, NEW first \in Block, PickFirst(first)
  PROVE  IInv'
<1>1. /\ pc = "block" /\ k >= 1 /\ first \in Preds(succ, Current) /\ idom[first] # Null
      /\ new_idom' = first /\ todo' = Preds(succ, Current) \ {first} /\ pc' = "preds"
      /\ UNCHANGED <<succ, dfsState, idom, changed, k, finger1, finger2, resultState>>
  BY DEF PickFirst
<1>2. Finger(first) /\ first \in Above(idom, first)
  BY <1>1, PredIsFinger
<1>3. \A p \in Preds(succ, Current) \ todo' : p = first
  BY <1>1
<1>4. todo' \subseteq Preds(succ, Current) /\ new_idom' \in Pointer /\ finger1' \in Pointer /\ finger2' \in Pointer
  BY <1>1 DEF IInv, TypeOK, Preds, Pointer
<1> QED
  BY <1>1, <1>2, <1>3, <1>4, WithinIteration

LEMMA NextPredInv ==
  ASSUME IInv, NEW q \in Block, NextPred(q)
  PROVE  IInv'
<1>1. /\ pc = "preds" /\ q \in todo /\ todo' = todo \ {q}
      /\ IF q = new_idom \/ idom[q] = Null
           THEN UNCHANGED <<finger1, finger2, pc>>
           ELSE finger1' = q /\ finger2' = new_idom /\ pc' = "intersect"
      /\ UNCHANGED <<succ, dfsState, idom, changed, k, new_idom, resultState>>
  BY DEF NextPred
<1>2. /\ k >= 1 /\ Finger(new_idom) /\ todo \subseteq Preds(succ, Current)
      /\ \A p \in Preds(succ, Current) \ todo : idom[p] # Null => new_idom \in Above(idom, p)
  BY <1>1 DEF IInv, Iteration
<1>3. \A p \in Preds(succ, Current) \ todo' : p = q \/ p \in Preds(succ, Current) \ todo
  BY <1>1
<1>4. /\ todo' \subseteq Preds(succ, Current) /\ q \in Preds(succ, Current)
      /\ new_idom \in Pointer /\ q \in Pointer
      /\ finger1 \in Pointer /\ finger2 \in Pointer
  BY <1>1, <1>2 DEF IInv, TypeOK, Pointer
<1>5. CASE q = new_idom \/ idom[q] = Null
  <2>1. idom[q] # Null => new_idom \in Above(idom, q)
    BY <1>5, AboveSelf
  <2>2. /\ pc' = "preds" /\ new_idom' = new_idom /\ finger1' = finger1 /\ finger2' = finger2
    BY <1>1, <1>5
  <2>3. \A p \in Preds(succ, Current) \ todo' : idom[p] # Null => new_idom' \in Above(idom, p)
    BY <1>2, <1>3, <2>1, <2>2
  <2> QED
    BY <1>1, <1>2, <1>4, <2>2, <2>3, WithinIteration
<1>6. CASE ~ (q = new_idom \/ idom[q] = Null)
  <2>1. /\ pc' = "intersect" /\ finger1' = q /\ finger2' = new_idom /\ new_idom' = new_idom
    BY <1>1, <1>6
  <2>2. q \in Above(idom, q)
    BY AboveSelf
  <2>3. \A p \in Preds(succ, Current) \ todo' : idom[p] # Null =>
          finger1' \in Above(idom, p) \/ finger2' \in Above(idom, p)
    BY <1>2, <1>3, <2>1, <2>2
  <2>4. Finger(finger2')
    BY <1>2, <2>1
  <2>5. Finger(finger1')
    BY <1>1, <1>2, <1>4, <1>6, <2>1, PredIsFinger
  <2> QED
    BY <1>1, <1>2, <1>4, <2>1, <2>3, <2>4, <2>5, WithinIteration
<1> QED
  BY <1>5, <1>6
\* Of two fingers the one with the smaller number can climb: a strict dominator of the
\* current block that is the finger itself would be above the other finger, and so have
\* a higher number.
LEMMA FingerClimbs ==
  ASSUME IInv, pc = "intersect", NEW x, NEW y, Finger(x), Finger(y), node[x] < node[y]
  PROVE  Finger(idom[x])
<1>1. /\ IsTree(idom, node, visited) /\ Guided(idom, succ, visited)
      /\ x \in visited /\ y \in visited /\ idom[x] # Null /\ idom[y] # Null
  BY AfterSearch DEF Finger
<1>2. /\ \A b \in visited : node[b] \in Nat /\ node[b] <= node[Entry]
      /\ visited \subseteq Block /\ Entry \in visited
  BY <1>1, EntryIsBlock DEF IsTree, Pointer
<1>3. x # Entry
  BY <1>1, <1>2
<1>4. idom[x] \in visited /\ idom[idom[x]] # Null
  BY <1>1, <1>3 DEF IsTree
<1>5. ASSUME NEW d \in Block, StrictlyDominates(succ, d, Current)
      PROVE  Dominates(succ, d, idom[x])
  <2>1. Dominates(succ, d, x) /\ Dominates(succ, d, y)
    BY <1>5 DEF Finger
  <2>2. d \in Above(idom, y)
    BY <1>1, <2>1, DominatorsAbove
  <2>3. node[d] >= node[y] /\ d \in visited
    BY <1>1, <2>2, AboveHigher
  <2>4. d # x
    BY <1>1, <1>2, <2>3
  <2> QED
    BY <1>1, <1>3, <2>1, <2>4 DEF Guided, StrictlyDominates
<1> QED
  BY <1>4, <1>5 DEF Finger

LEMMA ClimbInv ==
  ASSUME IInv, Climb
  PROVE  IInv'
<1>1. /\ pc = "intersect" /\ pc' = "intersect" /\ finger1 # finger2
      /\ IF node[finger1] < node[finger2]
           THEN finger1' = idom[finger1] /\ finger2' = finger2
           ELSE finger2' = idom[finger2] /\ finger1' = finger1
      /\ UNCHANGED <<succ, dfsState, idom, changed, k, todo, new_idom, resultState>>
  BY DEF Climb
<1>2. /\ k >= 1 /\ todo \subseteq Preds(succ, Current)
      /\ Finger(finger1) /\ Finger(finger2)
      /\ \A p \in Preds(succ, Current) \ todo : idom[p] # Null =>
           finger1 \in Above(idom, p) \/ finger2 \in Above(idom, p)
  BY <1>1 DEF IInv, Iteration
<1>3. /\ new_idom \in Pointer /\ finger1 \in Pointer /\ finger2 \in Pointer
      /\ idom \in [Pointer -> Pointer]
  BY DEF IInv, TypeOK
<1>4. /\ finger1 \in visited /\ finger2 \in visited
      /\ idom[finger1] # Null /\ idom[finger2] # Null
  BY <1>2 DEF Finger
<1>5. CASE node[finger1] < node[finger2]
  <2>1. finger1' = idom[finger1] /\ finger2' = finger2
    BY <1>1, <1>5
  <2>2. Finger(finger1')
    BY <1>1, <1>2, <1>5, <2>1, FingerClimbs
  <2>3. \A p \in Block : finger1 \in Above(idom, p) => finger1' \in Above(idom, p)
    BY <1>3, <1>4, <2>1, AboveClosed
  <2>4. \A p \in Preds(succ, Current) \ todo : idom[p] # Null =>
          finger1' \in Above(idom, p) \/ finger2' \in Above(idom, p)
    BY <1>2, <2>1, <2>3 DEF Preds
  <2>5. /\ todo' \subseteq Preds(succ, Current) /\ new_idom' \in Pointer
        /\ finger1' \in Pointer /\ finger2' \in Pointer
    BY <1>1, <1>2, <1>3, <2>1
  <2> QED
    BY <1>1, <1>2, <2>1, <2>2, <2>4, <2>5, WithinIteration
<1>6. CASE ~ (node[finger1] < node[finger2])
  <2>1. finger2' = idom[finger2] /\ finger1' = finger1
    BY <1>1, <1>6
  <2>2. node[finger2] < node[finger1]
    <3>1. IsTree(idom, node, visited)
      BY <1>1, AfterSearch
    <3>2. node[finger1] # node[finger2]
      BY <1>1, <1>4, <3>1 DEF IsTree
    <3>3. node[finger1] \in Nat /\ node[finger2] \in Nat
      BY <1>3, <3>1 DEF IsTree
    <3> QED
      BY <1>6, <3>2, <3>3
  <2>3. Finger(finger2')
    BY <1>1, <1>2, <2>1, <2>2, FingerClimbs
  <2>4. \A p \in Block : finger2 \in Above(idom, p) => finger2' \in Above(idom, p)
    BY <1>3, <1>4, <2>1, AboveClosed
  <2>5. \A p \in Preds(succ, Current) \ todo : idom[p] # Null =>
          finger1' \in Above(idom, p) \/ finger2' \in Above(idom, p)
    BY <1>2, <2>1, <2>4 DEF Preds
  <2>6. /\ todo' \subseteq Preds(succ, Current) /\ new_idom' \in Pointer
        /\ finger1' \in Pointer /\ finger2' \in Pointer
    BY <1>1, <1>2, <1>3, <2>1
  <2> QED
    BY <1>1, <1>2, <2>1, <2>3, <2>5, <2>6, WithinIteration
<1> QED
  BY <1>5, <1>6

LEMMA MeetInv ==
  ASSUME IInv, Meet
  PROVE  IInv'
<1>1. /\ pc = "intersect" /\ finger1 = finger2 /\ new_idom' = finger1 /\ pc' = "preds"
      /\ UNCHANGED <<succ, dfsState, idom, changed, k, todo, finger1, finger2, resultState>>
  BY DEF Meet
<1>2. /\ k >= 1 /\ todo \subseteq Preds(succ, Current) /\ Finger(finger1)
      /\ \A p \in Preds(succ, Current) \ todo : idom[p] # Null => finger1 \in Above(idom, p)
  BY <1>1 DEF IInv, Iteration
<1>3. finger1 \in Pointer /\ finger2 \in Pointer
  BY DEF IInv, TypeOK
<1> QED
  BY <1>1, <1>2, <1>3, WithinIteration

\* A predecessor of the current block is numbered later: it has a dominator.
LEMMA HigherPred ==
  ASSUME IInv, pc \in {"block", "preds"}, k >= 1
  PROVE  \E p \in Preds(succ, Current) : p \in visited /\ node[p] > k /\ idom[p] # Null
<1>1. After(k) /\ DfsInv /\ Depth = 0
  BY AfterSearch DEF IInv, Iteration
<1>2. /\ Current \in visited \ {Entry} /\ node[Current] = k /\ k \in Nat
      /\ visited \subseteq Block
  BY CurrentBlock
<1>3. \A b \in visited : node[b] # 0
  BY <1>1, <1>2, Numbered DEF IInv
<1>4. PICK p \in visited : Current \in Succs(succ, p) /\ node[p] > k
  BY <1>1, <1>2, <1>3 DEF DfsInv, Search
<1> QED
  BY <1>1, <1>2, <1>4 DEF After, Preds

\* The meeting point is above that predecessor.
LEMMA MeetingPointHigher ==
  ASSUME IInv, pc = "preds", todo = {}
  PROVE  node[new_idom] > k
<1>1. /\ k >= 1 /\ IsTree(idom, node, visited)
      /\ \A p \in Preds(succ, Current) : idom[p] # Null => new_idom \in Above(idom, p)
  BY AfterSearch DEF IInv, Iteration
<1>2. k \in Nat /\ \A b \in visited : node[b] \in Nat
  BY <1>1, CurrentBlock
<1>3. PICK p \in Preds(succ, Current) : p \in visited /\ node[p] > k /\ idom[p] # Null
  BY <1>1, HigherPred
<1>4. new_idom \in visited /\ node[new_idom] >= node[p]
  BY <1>1, <1>3, AboveHigher
<1> QED
  BY <1>2, <1>3, <1>4

LEMMA UpdateInv ==
  ASSUME IInv, Update
  PROVE  IInv'
<1>1. /\ pc = "preds" /\ pc' = "block" /\ todo = {} /\ k' = k - 1
      /\ IF idom[Current] # new_idom
           THEN idom' = [idom EXCEPT ![Current] = new_idom] /\ changed' = TRUE
           ELSE UNCHANGED <<idom, changed>>
      /\ UNCHANGED <<succ, dfsState, todo, new_idom, finger1, finger2, resultState>>
  BY DEF Update
<1>2. /\ TypeOK /\ DfsInv /\ Depth = 0
      /\ IsTree(idom, node, visited) /\ Guided(idom, succ, visited)
  BY <1>1, AfterSearch
<1>3. /\ k >= 1 /\ k < Len(int_to_bb) /\ After(k) /\ Finger(new_idom)
      /\ \A p \in Preds(succ, Current) : idom[p] # Null => new_idom \in Above(idom, p)
  BY <1>1 DEF IInv, Iteration
<1>4. /\ Current \in visited \ {Entry} /\ node[Current] = k /\ k \in Nat
      /\ visited \subseteq Block /\ Block \subseteq Pointer /\ idom \in [Pointer -> Pointer]
      /\ \A b \in visited : node[b] \in Nat
      /\ \A n \in 1..Len(int_to_bb) : int_to_bb[n] \in visited /\ node[int_to_bb[n]] = n
  BY <1>1, <1>3, CurrentBlock
<1>5. new_idom \in visited /\ idom[new_idom] # Null /\ node[new_idom] > k
  BY <1>1, <1>3, MeetingPointHigher DEF Finger
<1>6. new_idom # Current
  BY <1>4, <1>5
<1>7. k' \in 0..N /\ k' < Len(int_to_bb) /\ k' \in Nat
  BY <1>1, <1>2, <1>3, <1>4, NAssumption DEF TypeOK
<1>8. \A b \in visited : node[b] > k' => b = Current \/ node[b] > k
  <2> SUFFICES ASSUME NEW b \in visited, node[b] > k', ~ (node[b] > k) PROVE b = Current
    OBVIOUS
  <2>1. node[b] = node[Current]
    BY <1>1, <1>4
  <2> QED
    BY <1>2, <1>4, <2>1 DEF IsTree
<1>9. DfsInv'
  BY <1>1, <1>2, DfsKept
<1>10. FrontierInv' /\ TreeBuilt'
  BY <1>1, NoFrontiers DEF Iterated
<1>11. Null \notin Block
  BY EntryIsBlock
<1>12. CASE idom[Current] = new_idom
  <2>1. idom' = idom /\ changed' = changed
    BY <1>1, <1>12
  <2>2. TypeOK'
    BY <1>1, <1>2, <1>7, <2>1 DEF TypeOK, dfsState, resultState
  <2>3. Tree'
    BY <1>1, <1>2, <2>1 DEF Tree, dfsState
  <2>4. Settled(Current) /\ idom[Current] # Null
    BY <1>3, <1>4, <1>5, <1>11, <1>12 DEF Settled
  <2>5. /\ \A b \in visited : node[b] > k' => idom[b] # Null
        /\ ~ changed => \A b \in visited \ {Entry} : node[b] > k' => Settled(b)
    BY <1>3, <1>8, <2>4 DEF After
  <2>6. After(k)'
    BY <1>1, <2>1, <2>5 DEF After, Settled, dfsState
  <2>7. Iteration'
    BY <1>1, <1>7, <2>6 DEF Iteration, Iterated, dfsState
  <2> QED
    BY <1>9, <1>10, <2>2, <2>3, <2>7 DEF IInv
<1>13. CASE idom[Current] # new_idom
  <2>1. idom' = [idom EXCEPT ![Current] = new_idom] /\ changed' = TRUE
    BY <1>1, <1>13
  <2>2. /\ idom' \in [Pointer -> Pointer] /\ idom'[Current] = new_idom
        /\ \A b \in Pointer : b # Current => idom'[b] = idom[b]
    BY <1>4, <1>5, <2>1
  <2>3. TypeOK'
    BY <1>1, <1>2, <1>7, <2>1, <2>2 DEF TypeOK, dfsState, resultState
  <2>4. /\ Entry \in visited /\ idom[Entry] = Entry
        /\ \A b \in Pointer \ visited : idom[b] = Null
        /\ \A b \in visited \ {Entry} : idom[b] # Null =>
             idom[b] \in visited /\ idom[idom[b]] # Null /\ node[idom[b]] > node[b]
    BY <1>2 DEF IsTree
  <2>5. \A b \in visited : idom[b] # Null => idom'[b] # Null
    BY <1>4, <1>5, <1>11, <2>2
  <2>6. \A b \in visited \ {Entry} : idom'[b] # Null =>
          idom'[b] \in visited /\ idom'[idom'[b]] # Null /\ node[idom'[b]] > node[b]
    <3> SUFFICES ASSUME NEW b \in visited \ {Entry}, idom'[b] # Null
                 PROVE  idom'[b] \in visited /\ idom'[idom'[b]] # Null /\ node[idom'[b]] > node[b]
      OBVIOUS
    <3>1. CASE b = Current
      BY <1>4, <1>5, <2>2, <2>5, <3>1
    <3>2. CASE b # Current
      BY <1>4, <2>2, <2>4, <2>5, <3>2
    <3> QED
      BY <3>1, <3>2
  <2>7. IsTree(idom', node, visited)
    <3>1. idom'[Entry] = Entry /\ \A b \in Pointer \ visited : idom'[b] = Null
      BY <1>4, <2>2, <2>4
    <3> QED
      BY <1>2, <2>2, <2>6, <3>1 DEF IsTree
  <2>8. Guided(idom', succ, visited)
    <3> SUFFICES ASSUME NEW b \in visited \ {Entry}, idom'[b] # Null,
                        NEW d \in Block, StrictlyDominates(succ, d, b)
                 PROVE  Dominates(succ, d, idom'[b])
      BY DEF Guided
    <3>1. CASE b = Current
      BY <1>3, <2>2, <3>1 DEF Finger
    <3>2. CASE b # Current
      BY <1>2, <1>4, <2>2, <3>2 DEF Guided
    <3> QED
      BY <3>1, <3>2
  <2>9. Tree'
    BY <1>1, <2>7, <2>8 DEF Tree, dfsState
  <2>10. \A b \in visited : node[b] > k' => idom'[b] # Null
    BY <1>3, <1>4, <1>5, <1>8, <1>11, <2>2, <2>5 DEF After
  <2>11. After(k)'
    BY <1>1, <2>1, <2>10 DEF After, dfsState
  <2>12. Iteration'
    BY <1>1, <1>7, <2>11 DEF Iteration, Iterated, dfsState
  <2> QED
    BY <1>9, <1>10, <2>3, <2>9, <2>12 DEF IInv
<1> QED
  BY <1>12, <1>13

LEMMA RoundDoneInv ==
  ASSUME IInv, RoundDone
  PROVE  IInv'
<1>1. /\ pc = "block" /\ pc' = "round" /\ k = 0
      /\ UNCHANGED <<succ, dfsState, idomState, resultState>>
  BY DEF RoundDone
<1>2. TypeOK'
  BY <1>1 DEF IInv, TypeOK, dfsState, idomState, resultState
<1>3. Iteration'
  BY <1>1 DEF IInv, Iteration, Iterated, After, Settled, dfsState, idomState
<1>4. FrontierInv' /\ TreeBuilt'
  BY <1>1, NoFrontiers DEF Iterated
<1> QED
  BY <1>1, <1>2, <1>3, <1>4, TreeKept DEF IInv, idomState
----------------------------------------------------------------------------
(* The frontiers preserve the invariant. *)

\* At the fixed point every visited block is in the tree, and the block above one is
\* above all its predecessors that are visited.
LEMMA FixedPoint ==
  ASSUME IInv, Iterated
  PROVE  /\ TypeOK /\ DfsInv /\ Depth = 0 /\ succ \in Graphs
         /\ IsTree(idom, node, visited) /\ Guided(idom, succ, visited)
         /\ visited \subseteq Block /\ Block \subseteq Pointer /\ Entry \in visited
         /\ idom \in [Pointer -> Pointer] /\ Null \notin Block
         /\ \A b \in visited : idom[b] \in visited /\ node[b] \in Nat
         /\ \A b \in Pointer \ visited : idom[b] = Null
         /\ \A b \in visited \ {Entry} : node[idom[b]] > node[b]
         /\ \A b \in visited \ {Entry} : \A p \in Preds(succ, b) \cap visited :
              idom[b] \in Above(idom, p)
         /\ \A b \in visited : Succs(succ, b) \subseteq visited
<1>1. /\ TypeOK /\ DfsInv /\ Depth = 0 /\ succ \in Graphs
      /\ IsTree(idom, node, visited) /\ Guided(idom, succ, visited)
  BY AfterSearch DEF Iterated, DfsInv
<1>2. /\ visited \subseteq Block /\ Block \subseteq Pointer /\ Entry \in visited
      /\ \A b \in visited : node[b] \in 1..Len(int_to_bb)
      /\ \A b \in visited : Succs(succ, b) \subseteq visited
  BY <1>1, Numbered
<1>3. After(0) /\ ~ changed
  BY DEF IInv, Iteration
<1>4. \A b \in visited : idom[b] # Null /\ node[b] \in Nat /\ node[b] > 0
  BY <1>2, <1>3 DEF After
<1>5. idom \in [Pointer -> Pointer] /\ \A b \in Pointer \ visited : idom[b] = Null
  BY <1>1 DEF IsTree
<1>6. \A b \in visited : idom[b] \in visited
  BY <1>1, <1>4 DEF IsTree
<1>7. \A b \in visited \ {Entry} : node[idom[b]] > node[b]
  BY <1>1, <1>4 DEF IsTree
<1>8. \A b \in visited \ {Entry} : Settled(b)
  BY <1>3, <1>4 DEF After
<1>9. \A b \in visited \ {Entry} : \A p \in Preds(succ, b) \cap visited :
        idom[b] \in Above(idom, p)
  BY <1>4, <1>8 DEF Settled
<1> QED
  BY <1>1, <1>2, <1>4, <1>5, <1>6, <1>7, <1>9, EntryIsBlock

\* A step of the frontiers leaves everything before them alone.
LEMMA FrontierStep ==
  ASSUME IInv, Iterated, Iterated', UNCHANGED <<succ, dfsState, idom, changed>>,
         TypeOK', FrontierInv', TreeBuilt'
  PROVE  IInv'
<1>1. pc # "dfs" /\ pc' # "dfs" /\ pc' \notin {"round", "block", "preds", "intersect"}
  BY DEF Iterated
<1>2. After(0) /\ ~ changed
  BY DEF IInv, Iteration
<1>3. Iteration'
  BY <1>1, <1>2 DEF Iteration, After, Settled, dfsState
<1> QED
  BY <1>1, <1>3, TreeKept DEF IInv

\* Nothing points to the entry.
LEMMA NoPredsOfEntry == ASSUME IInv PROVE Preds(succ, Entry) = {}
BY GraphsAssumption DEF IInv, DfsInv, Preds

LEMMA NextBlockInv ==
  ASSUME IInv, NextBlock
  PROVE  IInv'
<1>1. /\ pc = "frontier" /\ block <= N
      /\ IF Many(block)
           THEN todo' = Preds(succ, block) /\ pc' = "runners" /\ block' = block
           ELSE block' = block + 1 /\ todo' = todo /\ pc' = "frontier"
      /\ UNCHANGED <<succ, dfsState, idom, changed, k, new_idom, finger1, finger2, runner,
                     dom_frontier, dom_tree_succ>>
  BY DEF NextBlock, Many
<1>2. Iterated /\ Iterated' /\ TypeOK
  BY <1>1 DEF Iterated, IInv
<1>3. FrontierInv /\ block >= 1 /\ block \in Block /\ visited \subseteq Block
  BY <1>1, <1>2, NAssumption DEF IInv, FrontierInv, Block, TypeOK
<1>4. TypeOK'
  <2>1. Preds(succ, block) \subseteq Block
    BY DEF Preds
  <2>2. block + 1 \in 0..(N + 1)
    BY <1>3, NAssumption DEF Block
  <2>3. todo' \subseteq Block /\ block' \in 0..(N + 1) /\ pc' \in {"runners", "frontier"}
    BY <1>1, <1>2, <2>1, <2>2 DEF TypeOK
  <2> QED
    BY <1>1, <1>2, <2>3 DEF TypeOK, dfsState
<1>5. CASE Many(block)
  <2>1. todo' = Preds(succ, block) /\ pc' = "runners" /\ block' = block
    BY <1>1, <1>5
  <2>2. FrontierInv'
    BY <1>1, <1>2, <1>3, <2>1 DEF FrontierInv, Climbed, Many, dfsState
  <2> QED
    BY <1>1, <1>2, <1>4, <2>1, <2>2, FrontierStep DEF TreeBuilt
<1>6. CASE ~ Many(block)
  <2>1. block' = block + 1 /\ pc' = "frontier"
    BY <1>1, <1>6
  <2>2. \A y \in visited : y < block + 1 => y < block \/ y = block
    BY <1>3, NAssumption DEF Block
  <2>3. \A x \in visited :
           /\ \A y \in dom_frontier[x] : y \in visited /\ Climbed(x, y)
           /\ \A y \in visited : y < block + 1 /\ Many(y) /\ Climbed(x, y) => y \in dom_frontier[x]
    BY <1>2, <1>3, <1>6, <2>2 DEF FrontierInv
  <2>4. block + 1 >= 1
    BY <1>3 DEF Block
  <2>5. FrontierInv'
    BY <1>1, <1>2, <2>1, <2>3, <2>4 DEF FrontierInv, Climbed, Many, dfsState
  <2> QED
    BY <1>1, <1>2, <1>4, <2>1, <2>5, FrontierStep DEF TreeBuilt
<1> QED
  BY <1>5, <1>6

\* The steps between NextBlock and BlockDone, which keep block and what is known of the
\* blocks before it.
LEMMA WithinBlock ==
  ASSUME IInv, pc \in {"runners", "climb"}, pc' \in {"runners", "climb"},
         UNCHANGED <<succ, dfsState, idom, changed, k, new_idom, finger1, finger2, block,
                     dom_tree_succ>>,
         todo' \subseteq Preds(succ, block), runner' \in Pointer,
         dom_frontier' \in [Pointer -> SUBSET Block],
         \A x \in visited : dom_frontier[x] \subseteq dom_frontier'[x],
         \A x \in visited : \A y \in dom_frontier'[x] :
           y \in dom_frontier[x] \/ (y \in visited /\ Climbed(x, y)),
         block \in visited => \A p \in Preds(succ, block) \ todo', x \in visited :
           x \in Above(idom, p) /\ x \notin Above(idom, idom[block]) =>
             \/ block \in dom_frontier'[x]
             \/ pc' = "climb" /\ runner' \in visited /\ x \in Above(idom, runner'),
         pc' = "climb" /\ runner' \in visited =>
           /\ block \in visited
           /\ idom[block] \in Above(idom, runner')
           /\ \E p \in Preds(succ, block) : runner' \in Above(idom, p)
  PROVE  IInv'
<1>1. Iterated /\ Iterated' /\ TypeOK /\ FrontierInv /\ block \in Block /\ block >= 1
  BY DEF Iterated, IInv, FrontierInv
<1>2. TypeOK'
  BY <1>1 DEF TypeOK, Preds, dfsState
<1>3. \A x \in visited :
        /\ \A y \in dom_frontier'[x] : y \in visited /\ Climbed(x, y)
        /\ \A y \in visited : y < block /\ Many(y) /\ Climbed(x, y) => y \in dom_frontier'[x]
  BY <1>1 DEF FrontierInv
<1>4. FrontierInv'
  BY <1>1, <1>3 DEF FrontierInv, Climbed, Many, dfsState
<1>5. TreeBuilt'
  BY DEF TreeBuilt
<1> QED
  BY <1>1, <1>2, <1>4, <1>5, FrontierStep

LEMMA StartRunnerInv ==
  ASSUME IInv, NEW p \in Block, StartRunner(p)
  PROVE  IInv'
<1>1. /\ pc = "runners" /\ pc' = "climb" /\ p \in todo /\ todo' = todo \ {p} /\ runner' = p
      /\ UNCHANGED <<succ, dfsState, idom, changed, k, new_idom, finger1, finger2, block,
                     dom_frontier, dom_tree_succ>>
  BY DEF StartRunner
<1>2. Iterated /\ FrontierInv /\ TypeOK
  BY <1>1 DEF IInv, Iterated
<1>3. /\ idom \in [Pointer -> Pointer] /\ Block \subseteq Pointer
      /\ visited \subseteq Block
      /\ \A b \in Pointer \ visited : idom[b] = Null
      /\ \A b \in visited \ {Entry} : \A q \in Preds(succ, b) \cap visited :
           idom[b] \in Above(idom, q)
      /\ \A b \in visited : Succs(succ, b) \subseteq visited
  BY <1>2, FixedPoint
<1>4. /\ block \in Block /\ todo \subseteq Preds(succ, block) /\ p \in Preds(succ, block)
      /\ block \in visited => \A q \in Preds(succ, block) \ todo, x \in visited :
           x \in Above(idom, q) /\ x \notin Above(idom, idom[block]) => block \in dom_frontier[x]
  BY <1>1, <1>2 DEF FrontierInv
<1>5. block # Entry
  BY <1>4, NoPredsOfEntry
\* A runner at a block that the search has not visited goes nowhere.
<1>6. ASSUME NEW x \in visited, x \in Above(idom, p) PROVE p \in visited
  <2>1. CASE idom[p] = Null
    <3>1. x = p
      BY <1>3, <1>6, <2>1, AboveCases
    <3> QED
      BY <3>1
  <2>2. CASE idom[p] # Null
    BY <1>3, <2>2
  <2> QED
    BY <2>1, <2>2
<1>7. block \in visited => \A q \in Preds(succ, block) \ todo', x \in visited :
        x \in Above(idom, q) /\ x \notin Above(idom, idom[block]) =>
          \/ block \in dom_frontier'[x]
          \/ pc' = "climb" /\ runner' \in visited /\ x \in Above(idom, runner')
  <2> SUFFICES ASSUME block \in visited, NEW q \in Preds(succ, block) \ todo', NEW x \in visited,
                      x \in Above(idom, q), x \notin Above(idom, idom[block])
               PROVE  block \in dom_frontier[x] \/ (p \in visited /\ x \in Above(idom, p))
    BY <1>1
  <2> QED
    BY <1>1, <1>4, <1>6
<1>8. p \in visited =>
        /\ block \in visited /\ idom[block] \in Above(idom, p)
        /\ \E q \in Preds(succ, block) : p \in Above(idom, q)
  <2> SUFFICES ASSUME p \in visited
               PROVE  /\ block \in visited /\ idom[block] \in Above(idom, p)
                      /\ \E q \in Preds(succ, block) : p \in Above(idom, q)
    OBVIOUS
  <2>1. block \in visited
    BY <1>3, <1>4 DEF Preds
  <2>2. idom[block] \in Above(idom, p)
    BY <1>3, <1>4, <1>5, <2>1
  <2> QED
    BY <1>4, <2>1, <2>2, AboveSelf
<1>9. /\ todo' \subseteq Preds(succ, block) /\ runner' \in Pointer
      /\ dom_frontier' \in [Pointer -> SUBSET Block] /\ dom_frontier' = dom_frontier
  BY <1>1, <1>2, <1>3, <1>4 DEF TypeOK
<1> QED
  BY <1>1, <1>7, <1>8, <1>9, WithinBlock

LEMMA ClimbRunnerInv ==
  ASSUME IInv, ClimbRunner
  PROVE  IInv'
<1>1. /\ pc = "climb" /\ pc' = "climb" /\ runner # idom[block]
      /\ dom_frontier' = [dom_frontier EXCEPT ![runner] = @ \cup {block}]
      /\ runner' = idom[runner]
      /\ UNCHANGED <<succ, dfsState, idomState, block, dom_tree_succ>>
  BY DEF ClimbRunner
<1>2. Iterated /\ FrontierInv /\ TypeOK
  BY <1>1 DEF IInv, Iterated
<1>3. /\ idom \in [Pointer -> Pointer] /\ Block \subseteq Pointer /\ Null \notin Block
      /\ visited \subseteq Block
      /\ \A b \in visited : idom[b] \in visited
      /\ \A b \in Pointer \ visited : idom[b] = Null
      /\ IsTree(idom, node, visited) /\ \A b \in visited : node[b] \in Nat
  BY <1>2, FixedPoint
<1>4. /\ block \in Block /\ todo \subseteq Preds(succ, block)
      /\ block \in visited => \A q \in Preds(succ, block) \ todo, x \in visited :
           x \in Above(idom, q) /\ x \notin Above(idom, idom[block]) =>
             block \in dom_frontier[x] \/ (runner \in visited /\ x \in Above(idom, runner))
      /\ runner \in visited =>
           /\ block \in visited
           /\ idom[block] \in Above(idom, runner)
           /\ \E q \in Preds(succ, block) : runner \in Above(idom, q)
  BY <1>1, <1>2 DEF FrontierInv
<1>5. /\ runner \in Pointer /\ runner' \in Pointer
      /\ dom_frontier \in [Pointer -> SUBSET Block]
      /\ dom_frontier' \in [Pointer -> SUBSET Block]
  BY <1>1, <1>2, <1>3, <1>4 DEF TypeOK
<1>6. /\ dom_frontier'[runner] = dom_frontier[runner] \cup {block}
      /\ \A x \in Pointer : x # runner => dom_frontier'[x] = dom_frontier[x]
  BY <1>1, <1>5
<1>7. ASSUME runner \in visited PROVE block \in visited /\ Climbed(runner, block)
  <2>1. idom[block] \in Above(idom, runner) /\ block \in visited
    BY <1>4, <1>7
  <2>2. ASSUME runner \in Above(idom, idom[block]) PROVE FALSE
    <3>1. idom[block] \in visited /\ node[idom[block]] >= node[runner]
      BY <1>3, <1>7, <2>1, AboveHigher
    <3>2. node[runner] >= node[idom[block]]
      BY <1>3, <2>2, <3>1, AboveHigher
    <3>3. node[runner] = node[idom[block]]
      BY <1>3, <1>7, <3>1, <3>2
    <3> QED
      BY <1>1, <1>3, <1>7, <3>1, <3>3 DEF IsTree
  <2> QED
    BY <1>4, <1>7, <2>1, <2>2 DEF Climbed
<1>8. \A x \in visited : \A y \in dom_frontier'[x] :
        y \in dom_frontier[x] \/ (y \in visited /\ Climbed(x, y))
  BY <1>3, <1>6, <1>7
<1>9. \A x \in visited : dom_frontier[x] \subseteq dom_frontier'[x]
  BY <1>3, <1>6
<1>10. block \in visited => \A q \in Preds(succ, block) \ todo', x \in visited :
         x \in Above(idom, q) /\ x \notin Above(idom, idom[block]) =>
           \/ block \in dom_frontier'[x]
           \/ pc' = "climb" /\ runner' \in visited /\ x \in Above(idom, runner')
  <2> SUFFICES ASSUME block \in visited, NEW q \in Preds(succ, block) \ todo, NEW x \in visited,
                      x \in Above(idom, q), x \notin Above(idom, idom[block]),
                      block \notin dom_frontier'[x]
               PROVE  runner' \in visited /\ x \in Above(idom, runner')
    BY <1>1 DEF idomState
  <2>1. runner \in visited /\ x \in Above(idom, runner)
    BY <1>4, <1>9
  <2>2. x # runner
    BY <1>6
  <2> QED
    BY <1>1, <1>3, <2>1, <2>2, AboveCases
<1>11. runner' \in visited =>
         /\ block \in visited
         /\ idom[block] \in Above(idom, runner')
         /\ \E q \in Preds(succ, block) : runner' \in Above(idom, q)
  <2> SUFFICES ASSUME runner' \in visited
               PROVE  /\ block \in visited
                      /\ idom[block] \in Above(idom, runner')
                      /\ \E q \in Preds(succ, block) : runner' \in Above(idom, q)
    OBVIOUS
  <2>1. runner \in visited /\ idom[runner] # Null
    BY <1>1, <1>3, <1>5
  <2>2. idom[block] \in Above(idom, runner')
    BY <1>1, <1>3, <1>4, <2>1, AboveCases
  <2>3. PICK q \in Preds(succ, block) : runner \in Above(idom, q)
    BY <1>4, <2>1
  <2>4. runner' \in Above(idom, q)
    BY <1>1, <1>3, <2>1, <2>3, AboveClosed
  <2> QED
    BY <1>4, <2>1, <2>2, <2>4
<1>12. UNCHANGED <<idom, changed, k, new_idom, finger1, finger2, todo>>
  BY <1>1 DEF idomState
<1> QED
  BY <1>1, <1>4, <1>5, <1>8, <1>9, <1>10, <1>11, <1>12, WithinBlock

LEMMA RunnerDoneInv ==
  ASSUME IInv, RunnerDone
  PROVE  IInv'
<1>1. /\ pc = "climb" /\ pc' = "runners" /\ runner = idom[block]
      /\ UNCHANGED <<succ, dfsState, idom, changed, k, new_idom, finger1, finger2, block,
                     dom_tree_succ, todo, runner, dom_frontier>>
  BY DEF RunnerDone, idomState, resultState
<1>2. FrontierInv /\ TypeOK
  BY DEF IInv
<1>3. /\ todo \subseteq Preds(succ, block)
      /\ block \in visited => \A q \in Preds(succ, block) \ todo, x \in visited :
           x \in Above(idom, q) /\ x \notin Above(idom, idom[block]) => block \in dom_frontier[x]
  BY <1>1, <1>2 DEF FrontierInv
<1>4. runner' \in Pointer /\ dom_frontier' \in [Pointer -> SUBSET Block]
  BY <1>1, <1>2 DEF TypeOK
<1> QED
  BY <1>1, <1>3, <1>4, WithinBlock

LEMMA BlockDoneInv ==
  ASSUME IInv, BlockDone
  PROVE  IInv'
<1>1. /\ pc = "runners" /\ pc' = "frontier" /\ todo = {} /\ block' = block + 1
      /\ UNCHANGED <<succ, dfsState, idomState, runner, dom_frontier, dom_tree_succ>>
  BY DEF BlockDone
<1>2. /\ Iterated /\ Iterated' /\ FrontierInv /\ TypeOK /\ visited \subseteq Block
  BY <1>1 DEF IInv, Iterated, TypeOK
<1>3. /\ block \in Block
      /\ block \in visited => \A q \in Preds(succ, block), x \in visited :
           x \in Above(idom, q) /\ x \notin Above(idom, idom[block]) => block \in dom_frontier[x]
  BY <1>1, <1>2 DEF FrontierInv
<1>4. block + 1 \in 0..(N + 1) /\ block + 1 >= 1
  BY <1>3, NAssumption DEF Block
<1>5. TypeOK'
  BY <1>1, <1>2, <1>4 DEF TypeOK, dfsState, idomState
<1>6. \A y \in visited : y < block + 1 => y < block \/ y = block
  <2>1. block \in Nat /\ visited \subseteq Nat
    BY <1>2, <1>3 DEF Block
  <2> QED
    BY <2>1
<1>7. block \in visited => \A x \in visited : Climbed(x, block) => block \in dom_frontier[x]
  BY <1>3 DEF Climbed
<1>8. \A x \in visited :
        /\ \A y \in dom_frontier[x] : y \in visited /\ Climbed(x, y)
        /\ \A y \in visited : y < block + 1 /\ Many(y) /\ Climbed(x, y) => y \in dom_frontier[x]
  BY <1>2, <1>6, <1>7 DEF FrontierInv
<1>9. FrontierInv'
  BY <1>1, <1>2, <1>4, <1>8 DEF FrontierInv, Climbed, Many, dfsState, idomState
<1> QED
  BY <1>1, <1>2, <1>5, <1>9, FrontierStep DEF TreeBuilt, idomState

LEMMA FrontierDoneInv ==
  ASSUME IInv, FrontierDone
  PROVE  IInv'
<1>1. /\ pc = "frontier" /\ pc' = "tree" /\ block = N + 1
      /\ UNCHANGED <<succ, dfsState, idomState, resultState>>
  BY DEF FrontierDone
<1>2. Iterated /\ Iterated' /\ TypeOK /\ FrontierInv
  BY <1>1 DEF Iterated, IInv
<1>3. TypeOK'
  BY <1>1, <1>2 DEF TypeOK, dfsState, idomState, resultState
<1>4. FrontierInv'
  BY <1>1, <1>2 DEF FrontierInv, Climbed, Many, dfsState, idomState, resultState
<1> QED
  BY <1>1, <1>2, <1>3, <1>4, FrontierStep DEF TreeBuilt, idomState

LEMMA CreateDomTreeSuccInv ==
  ASSUME IInv, CreateDomTreeSucc
  PROVE  IInv'
<1>1. /\ pc = "tree" /\ pc' = "done"
      /\ dom_tree_succ' = [b \in Pointer |-> {p \in Block : idom[p] = b /\ p # b}]
      /\ UNCHANGED <<succ, dfsState, idomState, block, runner, dom_frontier>>
  BY DEF CreateDomTreeSucc
<1>2. Iterated /\ Iterated' /\ TypeOK /\ FrontierInv
  BY <1>1 DEF Iterated, IInv
<1>3. TypeOK'
  BY <1>1, <1>2 DEF TypeOK, dfsState, idomState
<1>4. FrontierInv'
  BY <1>1, <1>2 DEF FrontierInv, Climbed, Many, dfsState, idomState
<1>5. TreeBuilt'
  BY <1>1 DEF TreeBuilt, idomState
<1> QED
  BY <1>1, <1>2, <1>3, <1>4, <1>5, FrontierStep DEF idomState

LEMMA StutterInv ==
  ASSUME IInv, UNCHANGED vars
  PROVE  IInv'
<1>1. UNCHANGED <<succ, dfsState, idomState, resultState, pc>>
  BY DEF vars
<1>2. TypeOK' /\ Tree' /\ TreeBuilt'
  BY <1>1 DEF IInv, TypeOK, Tree, IsTree, Guided, TreeBuilt, dfsState, idomState, resultState
<1>5. DfsInv'
  BY <1>1, DfsKept DEF IInv, DfsInv
<1>3. Iteration'
  BY <1>1 DEF IInv, Iteration, Iterated, After, Settled, Finger, Current, dfsState, idomState
<1>4. FrontierInv'
  BY <1>1 DEF IInv, FrontierInv, Iterated, Climbed, Many, dfsState, idomState, resultState
<1> QED
  BY <1>2, <1>3, <1>4, <1>5 DEF IInv

LEMMA StepIInv == IInv /\ [Next]_vars => IInv'
<1> SUFFICES ASSUME IInv, [Next]_vars PROVE IInv'
  OBVIOUS
<1>1. CASE DfsSuccessor \/ DfsReturn \/ DfsDone
  BY <1>1, DfsSuccessorInv, DfsReturnInv, DfsDoneInv
<1>2. CASE BeginRound \/ RoundsDone \/ RoundDone \/ Climb \/ Meet \/ Update
  BY <1>2, BeginRoundInv, RoundsDoneInv, RoundDoneInv, ClimbInv, MeetInv, UpdateInv
<1>3. ASSUME NEW b \in Block, PickFirst(b) \/ NextPred(b) \/ StartRunner(b) PROVE IInv'
  BY <1>3, PickFirstInv, NextPredInv, StartRunnerInv
<1>4. CASE NextBlock \/ ClimbRunner \/ RunnerDone \/ BlockDone \/ FrontierDone
  BY <1>4, NextBlockInv, ClimbRunnerInv, RunnerDoneInv, BlockDoneInv, FrontierDoneInv
<1>5. CASE CreateDomTreeSucc
  BY <1>5, CreateDomTreeSuccInv
<1>6. CASE UNCHANGED vars
  BY <1>6, StutterInv
<1> QED
  BY <1>1, <1>2, <1>3, <1>4, <1>5, <1>6 DEF Next

\* The invariant holds in every state of the analysis.
THEOREM InductiveInvariant == Spec => []IInv
<1> QED
  BY InitIInv, StepIInv, PTL DEF Spec
----------------------------------------------------------------------------
(* What the invariant says. *)

\* Types.
THEOREM TypeCorrect == Spec => []TypeOK
<1>1. IInv => TypeOK
  BY DEF IInv
<1> QED
  BY <1>1, InductiveInvariant, PTL

\* No two blocks are above each other.
LEMMA AboveAntisymmetric ==
  ASSUME NEW f, NEW nd, NEW V, IsTree(f, nd, V), NEW b \in V, NEW a \in Above(f, b),
         b \in Above(f, a)
  PROVE  a = b
<1>1. a \in V /\ nd[a] >= nd[b]
  BY AboveHigher
<1>2. nd[b] >= nd[a]
  BY <1>1, AboveHigher
<1>3. nd[a] \in Nat /\ nd[b] \in Nat
  BY <1>1, EntryIsBlock DEF IsTree, Pointer
<1> QED
  BY <1>1, <1>2, <1>3 DEF IsTree

LEMMA IInvFingersMeet == IInv => FingersMeet
<1> SUFFICES ASSUME IInv PROVE FingersMeet
  OBVIOUS
<1>1. FirstPredecessorFound
  <2> SUFFICES ASSUME pc = "block", k >= 1
               PROVE  \E p \in Preds(succ, Current) : idom[p] # Null
    BY DEF FirstPredecessorFound
  <2>1. After(k)
    BY DEF IInv, Iteration
  <2> QED
    BY <2>1, HigherPred
<1>2. NumbersClimb /\ DominatorsAreAncestors
  <2>1. CASE pc = "dfs"
    <3>1. \A b \in Block : idom[b] = Null
      BY <2>1 DEF IInv, Tree, Pointer
    <3> QED
      BY <3>1 DEF NumbersClimb, DominatorsAreAncestors
  <2>2. CASE pc # "dfs"
    <3>1. IsTree(idom, node, visited) /\ Guided(idom, succ, visited)
      BY <2>2, AfterSearch
    <3>2. \A b \in Block : idom[b] # Null => b \in visited
      BY <3>1 DEF IsTree, Pointer
    <3>3. NumbersClimb
      BY <3>1, <3>2 DEF NumbersClimb, IsTree
    <3>4. ASSUME NEW b \in Block, idom[b] # Null, NEW d \in Reachable(succ), Dominates(succ, d, b)
          PROVE  d \in Ancestors(b)
      <4>1. d \in Above(idom, b)
        BY <3>1, <3>2, <3>4, DominatorsAbove DEF Reachable, ReachableAvoiding
      <4> QED
        BY <4>1 DEF Above, Ancestors
    <3> QED
      BY <3>3, <3>4 DEF DominatorsAreAncestors
  <2> QED
    BY <2>1, <2>2
<1> QED
  BY <1>1, <1>2 DEF FingersMeet, IInv

\* create_idom always finds a predecessor to start from, the fingers of intersect climb,
\* and no dominator is ever lost, whatever the graph.
THEOREM FingersMeetCorrect == Spec => []FingersMeet
<1> QED
  BY InductiveInvariant, IInvFingersMeet, PTL

LEMMA VisitedIsReachable ==
  ASSUME IInv, Iterated
  PROVE  visited = Reachable(succ)
<1>1. /\ visited \subseteq Reachable(succ) /\ visited \subseteq Block /\ Entry \in visited
      /\ \A b \in visited : Succs(succ, b) \subseteq visited
  BY FixedPoint DEF DfsInv, Search
<1>2. ReachableAvoiding(succ, {}) \subseteq visited
  BY <1>1, AvoidingLeast
<1> QED
  BY <1>1, <1>2 DEF Reachable

\* At the fixed point what is above a block dominates it: a path that avoids a stays
\* among the blocks that a is not above.
LEMMA AboveIsDominance ==
  ASSUME IInv, Iterated, NEW b \in visited, NEW a \in Block
  PROVE  a \in Above(idom, b) <=> Dominates(succ, a, b)
<1>1. /\ IsTree(idom, node, visited) /\ Guided(idom, succ, visited)
      /\ visited \subseteq Block /\ Block \subseteq Pointer /\ Entry \in visited
      /\ idom \in [Pointer -> Pointer] /\ Null \notin Block
      /\ \A x \in visited : idom[x] \in visited /\ node[x] \in Nat
      /\ \A x \in visited \ {Entry} : \A p \in Preds(succ, x) \cap visited :
           idom[x] \in Above(idom, p)
      /\ \A x \in visited : Succs(succ, x) \subseteq visited
  BY FixedPoint
<1>2. ASSUME Dominates(succ, a, b) PROVE a \in Above(idom, b)
  BY <1>1, <1>2, DominatorsAbove
<1>3. ASSUME a \in Above(idom, b), a # b PROVE b \notin ReachableAvoiding(succ, {a})
  <2> DEFINE S == {x \in visited : a \notin Above(idom, x)}
  <2>1. ASSUME a \in Above(idom, Entry) PROVE a = Entry
    <3>1. a \in visited /\ node[a] >= node[Entry]
      BY <1>1, <2>1, AboveHigher
    <3>2. node[a] <= node[Entry]
      BY <1>1, <3>1 DEF IsTree
    <3>3. node[a] = node[Entry]
      BY <1>1, <3>1, <3>2
    <3> QED
      BY <1>1, <3>1, <3>3 DEF IsTree
  <2>2. Entry \notin {a} => Entry \in S
    BY <1>1, <2>1
  <2>3. ASSUME NEW x \in S, NEW y \in Succs(succ, x) \ {a} PROVE y \in S
    <3>1. y \in visited /\ x \in Preds(succ, y) \cap visited
      BY <1>1, <2>3 DEF Preds
    <3>2. ASSUME a \in Above(idom, y) PROVE FALSE
      <4>1. y # Entry
        BY <2>1, <2>3, <3>2
      <4>2. a \in Above(idom, idom[y])
        BY <1>1, <2>3, <3>1, <3>2, AboveCases
      <4>3. a \in Above(idom, x)
        BY <1>1, <3>1, <4>1, <4>2, AboveTransitive
      <4> QED
        BY <2>3, <4>3
    <3> QED
      BY <3>1, <3>2
  <2>4. S \in SUBSET Block /\ b \notin S
    BY <1>1, <1>3
  <2>5. \A x \in S : Succs(succ, x) \ {a} \subseteq S
    BY <2>3
  <2> HIDE DEF S
  <2>6. ReachableAvoiding(succ, {a}) \subseteq S
    BY <2>2, <2>4, <2>5, AvoidingLeast
  <2> QED
    BY <2>4, <2>6
<1> QED
  BY <1>2, <1>3 DEF Dominates

LEMMA IdomIsImmediate ==
  ASSUME IInv, Iterated, NEW b \in visited \ {Entry}
  PROVE  IsImmediateDominator(succ, idom[b], b)
<1>1. /\ IsTree(idom, node, visited) /\ Guided(idom, succ, visited)
      /\ visited \subseteq Block /\ Null \notin Block
      /\ idom[b] \in visited /\ node[b] \in Nat /\ node[idom[b]] > node[b]
  BY FixedPoint
<1>2. Dominates(succ, idom[b], b)
  BY <1>1, AboveNext, AboveIsDominance
<1>3. idom[b] # b
  BY <1>1
<1>4. \A c \in Block : StrictlyDominates(succ, c, b) => Dominates(succ, c, idom[b])
  BY <1>1 DEF Guided
<1>5. Reachable(succ) \subseteq Block
  BY DEF Reachable, ReachableAvoiding
<1> QED
  BY <1>2, <1>3, <1>4, <1>5 DEF IsImmediateDominator, StrictlyDominates

LEMMA ImmediateIsUnique ==
  ASSUME IInv, Iterated, NEW b \in visited \ {Entry}, NEW d \in visited,
         IsImmediateDominator(succ, d, b)
  PROVE  d = idom[b]
<1>1. /\ IsTree(idom, node, visited) /\ visited \subseteq Block /\ idom[b] \in visited
      /\ visited = Reachable(succ)
  BY FixedPoint, VisitedIsReachable
<1>2. IsImmediateDominator(succ, idom[b], b)
  BY IdomIsImmediate
<1>3. Dominates(succ, d, idom[b]) /\ Dominates(succ, idom[b], d)
  BY <1>1, <1>2 DEF IsImmediateDominator
<1>4. d \in Above(idom, idom[b]) /\ idom[b] \in Above(idom, d)
  BY <1>1, <1>3, AboveIsDominance
<1> QED
  BY <1>1, <1>4, AboveAntisymmetric

LEMMA IInvIdomCorrect == IInv => IdomCorrect
<1> SUFFICES ASSUME IInv PROVE IdomCorrect
  OBVIOUS
<1>1. ASSUME pc \in {"frontier", "runners", "climb", "tree", "done"},
             NEW b \in Reachable(succ) \ {Entry}
      PROVE  IsImmediateDominator(succ, idom[b], b)
  BY <1>1, VisitedIsReachable, IdomIsImmediate DEF Iterated
<1>2. ASSUME pc = "done", NEW b \in Reachable(succ) \ {Entry}, NEW d \in Reachable(succ)
      PROVE  b \in dom_tree_succ[d] <=> IsImmediateDominator(succ, d, b)
  <2>1. Iterated
    BY <1>2 DEF Iterated
  <2>2. visited = Reachable(succ) /\ visited \subseteq Block /\ Block \subseteq Pointer
    BY <2>1, VisitedIsReachable, FixedPoint
  <2>3. b \in dom_tree_succ[d] <=> idom[b] = d /\ b # d
    BY <1>2, <2>2 DEF IInv, TreeBuilt
  <2>4. IsImmediateDominator(succ, d, b) <=> idom[b] = d
    BY <2>1, <2>2, IdomIsImmediate, ImmediateIsUnique
  <2>5. IsImmediateDominator(succ, d, b) => b # d
    BY DEF IsImmediateDominator, StrictlyDominates
  <2> QED
    BY <2>3, <2>4, <2>5
<1> QED
  BY <1>1, <1>2 DEF IdomCorrect, TreeCorrect

\* create_idom computes the immediate dominators of every reachable block of every
\* graph, irreducible or not, and create_dom_tree_succ makes the dominator tree of them.
THEOREM IdomIsCorrect == Spec => []IdomCorrect
<1> QED
  BY InductiveInvariant, IInvIdomCorrect, PTL

\* A block with one predecessor is in no frontier that create_dominance_frontier could
\* miss: the predecessor is the block above it.
LEMMA ClimbedIsMany ==
  ASSUME IInv, Iterated, NEW x \in visited, NEW y \in visited, Climbed(x, y)
  PROVE  Many(y)
<1>1. /\ visited \subseteq Block /\ Block \subseteq Pointer /\ idom \in [Pointer -> Pointer]
      /\ Entry \in visited /\ visited = Reachable(succ)
  BY FixedPoint, VisitedIsReachable
<1>2. PICK p \in Preds(succ, y) : x \in Above(idom, p) /\ x \notin Above(idom, idom[y])
  BY DEF Climbed
<1>3. p \in Block /\ y # Entry /\ y \in Succs(succ, p)
  BY <1>2, NoPredsOfEntry DEF Preds
<1>4. ASSUME \A q \in Preds(succ, y) : q = p PROVE FALSE
  <2> DEFINE S == Block \ {y, p}
  <2>1. \A q \in S : Succs(succ, q) \cap Block \subseteq Block \ {y}
    BY <1>4 DEF Preds
  <2>2. succ \in [Block -> Seq(Block)]
    BY DEF IInv, TypeOK
  <2>3. \A q \in Block : Succs(succ, q) \subseteq Block
    BY <2>2 DEF Succs
  <2>4. \A q \in S : Succs(succ, q) \ {p} \subseteq S
    BY <2>1, <2>3
  <2>5. S \in SUBSET Block /\ (Entry \notin {p} => Entry \in S) /\ y \notin S
    BY <1>1, <1>3
  <2> HIDE DEF S
  <2>6. y \notin ReachableAvoiding(succ, {p})
    BY <2>4, <2>5, AvoidingLeast
  <2>7. p # y
    <3> SUFFICES ASSUME p = y PROVE FALSE
      OBVIOUS
    <3> DEFINE R == Block \ {y}
    <3>1. \A q \in R : Succs(succ, q) \ {} \subseteq R
      BY <1>4, <2>3 DEF Preds
    <3>2. R \in SUBSET Block /\ Entry \in R /\ y \notin R
      BY <1>1, <1>3
    <3> HIDE DEF R
    <3>3. ReachableAvoiding(succ, {}) \subseteq R
      BY <3>1, <3>2, AvoidingLeast
    <3> QED
      BY <1>1, <3>2, <3>3 DEF Reachable
  <2>8. p \in Above(idom, y)
    BY <1>3, <2>6, AboveIsDominance DEF Dominates
  <2>9. p \in Above(idom, idom[y])
    BY <1>1, <2>7, <2>8, AboveCases
  <2> QED
    BY <1>2, <2>9, AboveTransitive
<1>5. PICK q \in Preds(succ, y) : q # p
  BY <1>4
<1>6. IsFiniteSet(Preds(succ, y))
  <2>1. IsFiniteSet(Block)
    BY NAssumption, FS_Interval DEF Block
  <2>2. Preds(succ, y) \subseteq Block
    BY DEF Preds
  <2> QED
    BY <2>1, <2>2, FS_Subset
<1>7. Cardinality({p, q}) = 2
  <2>1. IsFiniteSet({p}) /\ Cardinality({p}) = 1
    BY FS_Singleton
  <2>2. Cardinality({p} \cup {q}) = Cardinality({p}) + 1
    BY <1>5, <2>1, FS_AddElement
  <2>3. {p, q} = {p} \cup {q}
    OBVIOUS
  <2> QED
    BY <2>1, <2>2, <2>3
<1>8. {p, q} \subseteq Preds(succ, y)
  BY <1>2, <1>5
<1>9. Cardinality({p, q}) <= Cardinality(Preds(succ, y))
  BY <1>6, <1>8, FS_Subset
<1>10. Cardinality(Preds(succ, y)) \in Nat
  BY <1>6, FS_CardinalityType
<1> QED
  BY <1>7, <1>9, <1>10 DEF Many

\* What a runner comes by is the dominance frontier.
LEMMA ClimbedIsFrontier ==
  ASSUME IInv, Iterated, NEW x \in visited, NEW y \in visited
  PROVE  y \in Frontier(succ, x) <=> Climbed(x, y)
<1>1. /\ IsTree(idom, node, visited) /\ idom \in [Pointer -> Pointer]
      /\ visited \subseteq Block /\ Block \subseteq Pointer /\ Null \notin Block
      /\ \A b \in visited : idom[b] \in visited /\ node[b] \in Nat
      /\ \A b \in visited \ {Entry} : node[idom[b]] > node[b]
      /\ \A b \in Pointer \ visited : idom[b] = Null
      /\ visited = Reachable(succ)
  BY FixedPoint, VisitedIsReachable
\* x is not above what was not visited.
<1>2. \A p \in Block : x \in Above(idom, p) => p \in visited
  <2> SUFFICES ASSUME NEW p \in Block, x \in Above(idom, p), p \notin visited PROVE FALSE
    OBVIOUS
  <2>1. idom[p] = Null /\ x # p
    BY <1>1
  <2> QED
    BY <1>1, <2>1, AboveCases
<1>3. (\E p \in Preds(succ, y) \cap Reachable(succ) : Dominates(succ, x, p))
        <=> \E p \in Preds(succ, y) : x \in Above(idom, p)
  <2>1. \A p \in visited : x \in Above(idom, p) <=> Dominates(succ, x, p)
    BY <1>1, AboveIsDominance
  <2>2. Preds(succ, y) \subseteq Block
    BY DEF Preds
  <2> QED
    BY <1>1, <1>2, <2>1, <2>2
<1>4. ASSUME y # Entry
      PROVE  StrictlyDominates(succ, x, y) <=> x \in Above(idom, idom[y])
  <2>1. ASSUME StrictlyDominates(succ, x, y) PROVE x \in Above(idom, idom[y])
    <3>1. x # y /\ x \in Above(idom, y)
      BY <1>1, <2>1, AboveIsDominance DEF StrictlyDominates
    <3> QED
      BY <1>1, <3>1, AboveCases
  <2>2. ASSUME x \in Above(idom, idom[y]) PROVE StrictlyDominates(succ, x, y)
    <3>1. idom[y] \in Above(idom, y)
      BY <1>1, AboveNext
    <3>2. x \in Above(idom, y)
      BY <2>2, <3>1, AboveTransitive
    <3>3. node[x] >= node[idom[y]] /\ node[idom[y]] > node[y]
      BY <1>1, <1>4, <2>2, AboveHigher
    <3>4. x # y
      BY <1>1, <3>3
    <3>5. Dominates(succ, x, y)
      BY <1>1, <3>2, AboveIsDominance
    <3> QED
      BY <3>4, <3>5 DEF StrictlyDominates
  <2> QED
    BY <2>1, <2>2
<1>5. CASE y = Entry
  BY <1>3, <1>5, NoPredsOfEntry DEF Frontier, Climbed
<1>6. CASE y # Entry
  BY <1>1, <1>3, <1>4, <1>6 DEF Frontier, Climbed
<1> QED
  BY <1>5, <1>6

LEMMA IInvFrontierCorrect == IInv => FrontierCorrect
<1> SUFFICES ASSUME IInv, pc = "done", NEW x \in Reachable(succ)
             PROVE  dom_frontier[x] = Frontier(succ, x)
  BY DEF FrontierCorrect
<1>1. Iterated /\ FrontierInv /\ block = N + 1
  BY DEF Iterated, IInv, FrontierInv
<1>2. visited = Reachable(succ) /\ visited \subseteq Block
  BY <1>1, VisitedIsReachable, FixedPoint
<1>3. \A y \in visited : y < N + 1
  BY <1>2, NAssumption DEF Block
<1>4. /\ \A y \in dom_frontier[x] : y \in visited /\ Climbed(x, y)
      /\ \A y \in visited : y < block /\ Many(y) /\ Climbed(x, y) => y \in dom_frontier[x]
  BY <1>1, <1>2 DEF FrontierInv
<1>5. \A y \in visited : Climbed(x, y) => Many(y)
  BY <1>1, <1>2, ClimbedIsMany
<1>6. \A y \in visited : y \in Frontier(succ, x) <=> Climbed(x, y)
  BY <1>1, <1>2, ClimbedIsFrontier
<1>7. Frontier(succ, x) \subseteq visited
  BY <1>2 DEF Frontier
<1> QED
  BY <1>1, <1>3, <1>4, <1>5, <1>6, <1>7

\* create_dominance_frontier computes the dominance frontier of every reachable block.
THEOREM FrontierIsCorrect == Spec => []FrontierCorrect
<1> QED
  BY InductiveInvariant, IInvFrontierCorrect, PTL
=============================================================================
