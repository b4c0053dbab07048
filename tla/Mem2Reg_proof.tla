---------------------------- MODULE Mem2Reg_proof ----------------------------
(***************************************************************************)
(* Proofs about Mem2Reg, for any number of blocks and any functions that   *)
(* rename can handle (Handled: a store comes first for every load), which  *)
(* is a hypothesis of each theorem.                                        *)
(*                                                                         *)
(* The argument has four parts.  Of the definitions of a variable that     *)
(* dominate a point of the function there is a last one, and it is the one *)
(* behind a branch too unless the block that is entered has a phi: a block *)
(* where two definitions meet is in the dominance frontier of one of them. *)
(* generate_phi closes the phis under that frontier.  The calls of rename  *)
(* in progress are a path of the dominator tree, and the part of a stack   *)
(* that a call found ends with the last definition above its block, so     *)
(* that a replaced load and an operand of a phi get that definition.  And  *)
(* in a run what memory has in a variable is the value of that definition. *)
(***************************************************************************)
EXTENDS Mem2Reg, FiniteSetTheorems, WellFoundedInduction, TLAPS

----------------------------------------------------------------------------
(* Dominance is an order, and what dominates a block is a chain. *)

IsGraph(g) == \A b \in Block : Succs(g, b) \subseteq Block

LEMMA EntryIsBlock == Entry \in Block /\ 0 \notin Block
BY NAssumption DEF Entry, Block

LEMMA AvoidingEntry ==
  ASSUME NEW g, NEW A, Entry \notin A
  PROVE  Entry \in ReachableAvoiding(g, A)
BY EntryIsBlock DEF ReachableAvoiding

LEMMA AvoidingStep ==
  ASSUME NEW g, NEW A, NEW x \in ReachableAvoiding(g, A), NEW y \in Block,
         y \in Succs(g, x), y \notin A
  PROVE  y \in ReachableAvoiding(g, A)
BY DEF ReachableAvoiding

\* Induction over the length of a path.
LEMMA AvoidingLeast ==
  ASSUME NEW g, NEW A, NEW S \in SUBSET Block,
         Entry \notin A => Entry \in S,
         \A x \in S : Succs(g, x) \ A \subseteq S
  PROVE  ReachableAvoiding(g, A) \subseteq S
BY DEF ReachableAvoiding

LEMMA AvoidingType ==
  ASSUME NEW g, NEW A, IsGraph(g)
  PROVE  /\ ReachableAvoiding(g, A) \subseteq Reachable(g)
         /\ Reachable(g) \subseteq Block
         /\ ReachableAvoiding(g, A) \cap A = {}
<1> DEFINE S == {b \in Reachable(g) : b \notin A}
<1>1. Reachable(g) \subseteq Block
  BY DEF Reachable, ReachableAvoiding
<1>2. Entry \notin A => Entry \in S
  BY AvoidingEntry DEF Reachable
<1>3. \A x \in S : Succs(g, x) \ A \subseteq S
  BY <1>1, AvoidingStep DEF Reachable, IsGraph
<1> HIDE DEF S
<1>4. S \in SUBSET Block
  BY <1>1 DEF S
<1>5. ReachableAvoiding(g, A) \subseteq S
  BY <1>2, <1>3, <1>4, AvoidingLeast
<1> QED
  BY <1>1, <1>5 DEF S

LEMMA ReachableStep ==
  ASSUME NEW g, IsGraph(g), NEW x \in Reachable(g), NEW y \in Succs(g, x)
  PROVE  y \in Reachable(g)
<1>1. x \in Block /\ y \in Block
  BY AvoidingType DEF IsGraph
<1> QED
  BY <1>1, AvoidingStep DEF Reachable

\* What dominates a block that control can get to is such a block.
LEMMA DominatorReachable ==
  ASSUME NEW g, IsGraph(g), NEW b \in Reachable(g), NEW a, Dominates(g, a, b)
  PROVE  a \in Reachable(g)
<1>1. SUFFICES ASSUME a \notin Reachable(g), b \notin ReachableAvoiding(g, {a}) PROVE FALSE
  BY DEF Dominates
<1> DEFINE S == ReachableAvoiding(g, {a})
<1>2. S \subseteq Reachable(g) /\ Reachable(g) \subseteq Block
  BY AvoidingType
<1>3. Entry \in S
  BY <1>1, AvoidingEntry DEF Reachable
<1>4. \A x \in S : Succs(g, x) \ {} \subseteq S
  <2>1. ASSUME NEW x \in S, NEW y \in Succs(g, x) PROVE y \in S
    <3>1. y \in Reachable(g) /\ y \in Block
      BY <1>2, ReachableStep
    <3> QED
      BY <1>1, <3>1, AvoidingStep
  <2> QED
    BY <2>1
<1> HIDE DEF S
<1>5. Reachable(g) \subseteq S
  BY <1>2, <1>3, <1>4, AvoidingLeast DEF Reachable
<1> QED
  BY <1>1, <1>5 DEF S

LEMMA DominatesTransitive ==
  ASSUME NEW g, IsGraph(g), NEW a, NEW b, NEW c, Dominates(g, a, b), Dominates(g, b, c)
  PROVE  Dominates(g, a, c)
<1>1. SUFFICES ASSUME a # b, b # c, a # c, b \notin ReachableAvoiding(g, {a}),
                      c \notin ReachableAvoiding(g, {b}), c \in ReachableAvoiding(g, {a})
               PROVE  FALSE
  BY DEF Dominates
<1> DEFINE S == ReachableAvoiding(g, {a}) \cap ReachableAvoiding(g, {b})
<1>2. S \in SUBSET Block
  BY DEF ReachableAvoiding
<1>3. Entry \notin {a} => Entry \in S
  BY <1>1, AvoidingEntry
<1>4. ASSUME NEW x \in S, NEW y \in Succs(g, x) \ {a} PROVE y \in S
  <2>1. y \in Block
    BY <1>2 DEF IsGraph
  <2>2. y \in ReachableAvoiding(g, {a})
    BY <2>1, AvoidingStep
  <2>3. y \notin {b}
    BY <1>1, <2>2
  <2> QED
    BY <2>1, <2>2, <2>3, AvoidingStep
<1> HIDE DEF S
<1>5. ReachableAvoiding(g, {a}) \subseteq S
  BY <1>2, <1>3, <1>4, AvoidingLeast
<1> QED
  BY <1>1, <1>5 DEF S

LEMMA DominatesAntisymmetric ==
  ASSUME NEW g, IsGraph(g), NEW a \in Reachable(g), NEW b,
         Dominates(g, a, b), Dominates(g, b, a)
  PROVE  a = b
<1>1. SUFFICES ASSUME a # b, b \notin ReachableAvoiding(g, {a}), a \notin ReachableAvoiding(g, {b})
               PROVE  FALSE
  BY DEF Dominates
<1> DEFINE S == ReachableAvoiding(g, {a}) \cap ReachableAvoiding(g, {b})
<1>2. S \in SUBSET Block
  BY DEF ReachableAvoiding
<1>3. Entry \in S
  BY <1>1, AvoidingEntry
<1>4. ASSUME NEW x \in S, NEW y \in Succs(g, x) \ {} PROVE y \in S
  <2>1. y \in Block
    BY <1>2 DEF IsGraph
  <2>2. y \notin {a} /\ y \notin {b}
    BY <1>1, <2>1, AvoidingStep
  <2> QED
    BY <2>1, <2>2, AvoidingStep
<1> HIDE DEF S
<1>5. Reachable(g) \subseteq S
  BY <1>2, <1>3, <1>4, AvoidingLeast DEF Reachable
<1> QED
  BY <1>5, AvoidingType DEF S

\* Two dominators of a block are ordered.
LEMMA DominatorsOrdered ==
  ASSUME NEW g, IsGraph(g), NEW c \in Reachable(g), NEW a, NEW b,
         Dominates(g, a, c), Dominates(g, b, c)
  PROVE  Dominates(g, a, b) \/ Dominates(g, b, a)
<1>1. SUFFICES ASSUME a # b, b \in ReachableAvoiding(g, {a}), a \in ReachableAvoiding(g, {b}),
                      c \notin ReachableAvoiding(g, {a}), c \notin ReachableAvoiding(g, {b})
               PROVE  FALSE
  BY DEF Dominates
<1> DEFINE S == ReachableAvoiding(g, {a}) \cup ReachableAvoiding(g, {b})
<1>2. S \in SUBSET Block
  BY DEF ReachableAvoiding
<1>3. Entry \in S
  BY <1>1, AvoidingEntry
<1>4. ASSUME NEW x \in S, NEW y \in Succs(g, x) \ {} PROVE y \in S
  <2>1. y \in Block
    BY <1>2 DEF IsGraph
  <2>2. CASE x \in ReachableAvoiding(g, {a})
    BY <1>1, <2>1, <2>2, AvoidingStep
  <2>3. CASE x \in ReachableAvoiding(g, {b})
    BY <1>1, <2>1, <2>3, AvoidingStep
  <2> QED
    BY <2>2, <2>3
<1> HIDE DEF S
<1>5. Reachable(g) \subseteq S
  BY <1>2, <1>3, <1>4, AvoidingLeast DEF Reachable
<1> QED
  BY <1>1, <1>5 DEF S

\* What strictly dominates a block dominates its predecessors.
LEMMA DominatesPred ==
  ASSUME NEW g, NEW b \in Block, NEW p \in Preds(g, b), NEW d, StrictlyDominates(g, d, b)
  PROVE  Dominates(g, d, p)
<1>1. b \in Succs(g, p) /\ b \notin {d} /\ b \notin ReachableAvoiding(g, {d})
  BY DEF Preds, StrictlyDominates, Dominates
<1>2. p \notin ReachableAvoiding(g, {d})
  BY <1>1, AvoidingStep
<1> QED
  BY <1>2 DEF Dominates

\* The entry dominates everything, and nothing else dominates it.
LEMMA EntryDominates ==
  ASSUME NEW g, NEW b
  PROVE  Dominates(g, Entry, b) /\ (Dominates(g, b, Entry) => b = Entry)
<1>1. ReachableAvoiding(g, {Entry}) \subseteq {}
  <2> DEFINE S == {}
  <2>1. S \in SUBSET Block /\ (Entry \notin {Entry} => Entry \in S)
        /\ \A x \in S : Succs(g, x) \ {Entry} \subseteq S
    OBVIOUS
  <2> HIDE DEF S
  <2>2. ReachableAvoiding(g, {Entry}) \subseteq S
    BY <2>1, AvoidingLeast
  <2> QED
    BY <2>2 DEF S
<1>2. b # Entry => Entry \in ReachableAvoiding(g, {b})
  BY AvoidingEntry
<1> QED
  BY <1>1, <1>2 DEF Dominates

\* Below its immediate dominator nothing strictly dominates a block.
LEMMA DominatorsOfChild ==
  ASSUME NEW g, IsGraph(g), NEW b \in Reachable(g), NEW a, IsImmediateDominator(g, a, b), NEW d
  PROVE  StrictlyDominates(g, d, b) <=> Dominates(g, d, a)
<1>1. StrictlyDominates(g, a, b)
  BY DEF IsImmediateDominator
<1>2. ASSUME StrictlyDominates(g, d, b) PROVE Dominates(g, d, a)
  <2>1. d \in Reachable(g)
    BY <1>2, DominatorReachable DEF StrictlyDominates
  <2> QED
    BY <1>2, <2>1 DEF IsImmediateDominator
<1>3. ASSUME Dominates(g, d, a) PROVE StrictlyDominates(g, d, b)
  <2>1. Dominates(g, d, b)
    BY <1>1, <1>3, DominatesTransitive DEF StrictlyDominates
  <2>2. d # b
    BY <1>1, <1>3, DominatesAntisymmetric DEF StrictlyDominates
  <2> QED
    BY <2>1, <2>2 DEF StrictlyDominates
<1> QED
  BY <1>2, <1>3

\* A set of numbers has a least one.
LEMMA LeastNumber ==
  ASSUME NEW T, T \subseteq Nat, T # {}
  PROVE  \E m \in T : \A n \in T : m <= n
<1> DEFINE R == OpToRel(<, Nat)
<1>1. IsWellFoundedOn(R, Nat)
  BY NatLessThanWellFounded
<1>2. ASSUME NEW x \in Nat, NEW y \in Nat, x < y PROVE <<x, y>> \in R
  BY <1>2 DEF OpToRel
<1> HIDE DEF R
<1>3. PICK m \in T : \A y \in T : ~ (<<y, m>> \in R)
  BY <1>1, WFMin
<1>4. ASSUME NEW n \in T, ~ (m <= n) PROVE FALSE
  <2>1. m \in Nat /\ n \in Nat /\ n < m
    BY <1>4
  <2> QED
    BY <1>2, <1>3, <2>1
<1> QED
  BY <1>3, <1>4

\* Whatever a block strictly dominates is dominated by one of its children.
LEMMA ChildAbove ==
  ASSUME NEW g, IsGraph(g), NEW d \in Reachable(g), NEW c, StrictlyDominates(g, c, d)
  PROVE  \E e \in Reachable(g) \ {Entry} : IsImmediateDominator(g, c, e) /\ Dominates(g, e, d)
<1> DEFINE Doms(x) == {y \in Block : Dominates(g, y, x)}
           T == {x \in Reachable(g) : StrictlyDominates(g, c, x) /\ Dominates(g, x, d)}
           H == {Cardinality(Doms(x)) : x \in T}
<1>1. \A x : IsFiniteSet(Doms(x))
  <2>1. IsFiniteSet(Block)
    BY NAssumption, FS_Interval DEF Block
  <2> QED
    BY <2>1, FS_Subset
<1>2. H \subseteq Nat
  BY <1>1, FS_CardinalityType
<1>3. d \in T
  BY DEF Dominates
<1>4. PICK m \in H : \A n \in H : m <= n
  <2>1. H # {}
    BY <1>3
  <2> HIDE DEF H
  <2> QED
    BY <1>2, <2>1, LeastNumber
<1>5. PICK e \in T : m = Cardinality(Doms(e))
  OBVIOUS
<1>6. ASSUME NEW z \in Reachable(g), StrictlyDominates(g, z, e), ~ Dominates(g, z, c) PROVE FALSE
  <2>1. Dominates(g, c, z) /\ c # z
    BY <1>6, DominatorsOrdered DEF StrictlyDominates, Dominates
  <2>2. Dominates(g, z, d)
    BY <1>6, DominatesTransitive DEF StrictlyDominates
  <2>3. z \in T
    BY <2>1, <2>2 DEF StrictlyDominates
  <2>4. Doms(z) \subseteq Doms(e)
    BY <1>6, DominatesTransitive DEF StrictlyDominates
  <2>5. e \in Doms(e) /\ e \notin Doms(z)
    <3>1. e \in Block
      BY AvoidingType
    <3>2. ~ Dominates(g, e, z)
      BY <1>6, DominatesAntisymmetric DEF StrictlyDominates
    <3> QED
      BY <3>1, <3>2 DEF Dominates
  <2> HIDE DEF Doms
  <2>6. Cardinality(Doms(z)) < Cardinality(Doms(e))
    BY <1>1, <2>4, <2>5, FS_Subset, FS_CardinalityType
  <2>7. Cardinality(Doms(z)) \in H /\ Cardinality(Doms(z)) \in Nat /\ m \in Nat
    BY <1>2, <2>3
  <2> QED
    BY <1>4, <1>5, <2>6, <2>7
<1>7. IsImmediateDominator(g, c, e)
  BY <1>6 DEF IsImmediateDominator
<1>8. e # Entry
  BY EntryDominates DEF StrictlyDominates
<1> QED
  BY <1>7, <1>8
----------------------------------------------------------------------------
(* Definitions of a variable and the points of a function that they reach. *)

\* Point i of block b is before its instruction i, point 0 before its phis too.
End(b) == Len(code[b]) + 1

\* The definition of v at point j of d: a phi is the one at point 0.
IsDef(d, j, v) ==
  \/ j = 0 /\ <<d, v>> \in phis
  \/ j \in DOMAIN code[d] /\ code[d][j].op = "store" /\ code[d][j].var = v
SiteVal(d, j, v) == IF j = 0 THEN Phi(d, v) ELSE Stored(<<d, j>>)

\* Every path to point i of b goes through point j of d.
Before(d, j, b, i) == Dominates(succ, d, b) /\ (d = b => j < i)

\* Of the definitions that every path to the point goes through, the last one.
TopSite(b, i, v, d, j) ==
  /\ IsDef(d, j, v) /\ Before(d, j, b, i)
  /\ \A e \in Block, k \in Nat : IsDef(e, k, v) /\ Before(e, k, b, i) =>
       Dominates(succ, e, d) /\ (e = d => k <= j)
NoSite(b, i, v) == \A e \in Block, k \in Nat : IsDef(e, k, v) => ~ Before(e, k, b, i)

\* The values that can be used at the end of b: constants, and phis above b.
ConstOrPhi == {Const(s) : s \in Site} \cup {Phi(b, v) : b \in Block, v \in Key}
Good(x, b) == x \in ConstOrPhi /\ Dominates(succ, x[2], b)

----------------------------------------------------------------------------
(* The invariant. *)

\* What Dominators has found, and a program that rename can handle.
ProgramInv ==
  /\ succ \in [Block -> Seq(Block)]
  /\ code \in [Block -> Seq(Access)]
  /\ \A b \in Block : \A i \in DOMAIN code[b] : code[b][i].op = "store" /\ code[b][i].from # 0 =>
       code[b][i].from \in 1..(i - 1) /\ code[b][code[b][i].from].op = "load"
  /\ dom_frontier = [b \in Block |-> Frontier(succ, b)]
  /\ dom_tree_succ = [b \in Block |->
       {c \in Reachable(succ) \ {Entry} : IsImmediateDominator(succ, b, c)}]
  /\ \A b \in Reachable(succ) : \A i \in DOMAIN code[b] :
       code[b][i].op = "load" => StoreFirst(succ, code, b, i, code[b][i].var)
  /\ phis \subseteq Block \X Key

\* Many blocks store to the variable, so that it gets phis.
Many(v) == Cardinality(StoreBlocks(v)) > 1

\* The definitions of v in block X have their phis.
Placed(X, v) == \A y \in Frontier(succ, X) : <<y, v>> \in phis
HasDef(X, v) == \E j \in Nat : IsDef(X, j, v)

\* generate_phi: blocks with a definition whose phis are not placed are in W.
PlaceInv ==
  /\ vals \subseteq Var /\ var \in Key /\ W \subseteq Block /\ F \subseteq Block
  /\ W # {} => var \in Var /\ Many(var)
  /\ var \in Var => var \notin vals /\ F = {y \in Block : <<y, var>> \in phis}
  /\ \A v \in Var : StoreBlocks(v) # {} /\ v \notin vals /\ Many(v) =>
       \A X \in Block : HasDef(X, v) => (v = var /\ X \in W) \/ Placed(X, v)
  /\ \A v \in Var : v \in vals \/ ~ Many(v) => \A y \in Block : <<y, v>> \notin phis

PhisClosed ==
  \A v \in Var : IF Many(v) THEN \A X \in Block : HasDef(X, v) => Placed(X, v)
                 ELSE \A y \in Block : <<y, v>> \notin phis

\* A load that has been replaced got the last definition above it.
LoadRight(s) ==
  \/ latest[s] = LoadOf(s)
  \/ /\ s[1] \in Reachable(succ) /\ Good(latest[s], s[1])
     /\ \E d \in Block, j \in Nat :
          TopSite(s[1], s[2], Instr(s).var, d, j) /\ latest[s] = SiteVal(d, j, Instr(s).var)
LatestInv == \A s \in Loads : LoadRight(s)

\* A phi has only operands that are last definitions at the end of a predecessor.
OperandRight(p, o) ==
  /\ p \in phis /\ o \in ConstOrPhi \X Reachable(succ) /\ p[1] \in Succs(succ, o[2])
  /\ \E d \in Block, j \in Nat :
       /\ TopSite(o[2], End(o[2]), p[2], d, j)
       /\ o[1] = SiteVal(d, j, p[2]) /\ Good(o[1], d)
OperandInv == \A p \in Block \X Key : \A o \in operandsOf[p] : OperandRight(p, o)

TypeInv ==
  /\ pc \in {"place", "instr", "children", "enter", "run"}
  /\ stack \in [Key -> Seq(ConstOrPhi)]
  /\ latest \in [Loads -> ConstOrPhi \cup {LoadOf(s) : s \in Loads}]
  /\ operandsOf \in [Block \X Key -> SUBSET (ConstOrPhi \X Block)]
  /\ erased \subseteq Site
  /\ vals \subseteq Var /\ var \in Key /\ W \subseteq Block /\ F \subseteq Block
  /\ frames \in Seq([bb : Reachable(succ), left : SUBSET Block])

\* Where the walk is in its block.
Pos == IF pc = "instr" THEN at ELSE End(Frame.bb)

\* How many definitions block b has pushed before point i.
PushedBefore(b, i, v) ==
  Cardinality({j \in DOMAIN code[b] : j < i /\ code[b][j].op = "store" /\ code[b][j].var = v})
    + (IF <<b, v>> \in phis THEN 1 ELSE 0)

\* The first n elements of the stack of v are right for point i of b.
Holds(v, n, b, i) ==
  \/ n = 0 /\ NoSite(b, i, v)
  \/ /\ n \in 1..Len(stack[v])
     /\ \E d \in Block, j \in Nat :
          TopSite(b, i, v, d, j) /\ stack[v][n] = SiteVal(d, j, v) /\ Good(stack[v][n], d)

\* h[m] is the height of the stack when frame m was entered.
Heights(h, v) ==
  /\ h \in [1..Len(frames) -> Nat] /\ h[1] = 0
  /\ \A m \in 1..Len(frames) : Holds(v, h[m], frames[m].bb, 0)
  /\ \A m \in 1..(Len(frames) - 1) : h[m + 1] = h[m] + Pushed(frames[m].bb, v)
  /\ \A m, n \in 1..Len(frames) : m <= n => h[m] <= h[n]
  /\ Len(stack[v]) = h[Len(frames)] + PushedBefore(Frame.bb, Pos, v)
  /\ Holds(v, Len(stack[v]), Frame.bb, Pos)

\* The phis behind b have the definitions that leave b.
Filled(b) ==
  \A S \in Succs(succ, b), v \in Key : <<S, v>> \in phis =>
    \A d \in Block, j \in Nat : TopSite(b, End(b), v, d, j) =>
      Good(SiteVal(d, j, v), d) /\ <<SiteVal(d, j, v), b>> \in operandsOf[<<S, v>>]

\* The loads of b up to point i have been replaced.
Replaced(b, i) == \A k \in DOMAIN code[b] : k < i /\ code[b][k].op = "load" => latest[<<b, k>>] # LoadOf(<<b, k>>)
Complete(b) ==
  /\ Replaced(b, End(b)) /\ Filled(b)
  /\ \A k \in DOMAIN code[b] : code[b][k].op = "load" => <<b, k>> \in erased

\* The calls of rename in progress are a path of the dominator tree.
PathInv ==
  /\ Len(frames) >= 1 /\ frames[1].bb = Entry
  /\ \A m \in 1..Len(frames) : frames[m].left \subseteq dom_tree_succ[frames[m].bb]
  /\ \A m \in 1..(Len(frames) - 1) : frames[m + 1].bb \in dom_tree_succ[frames[m].bb]
  /\ pc = "instr" => at \in 1..End(Frame.bb)

\* What they have done to their blocks.
DoneInv ==
  /\ \A m \in 1..(Len(frames) - 1) : Replaced(frames[m].bb, End(frames[m].bb)) /\ Filled(frames[m].bb)
  /\ Replaced(Frame.bb, Pos) /\ (pc = "children" => Filled(Frame.bb))

\* A block they have not come to is below a child that is left to one of them.
Covered(b) ==
  \/ \E m \in 1..Len(frames) : frames[m].bb = b
  \/ \E m \in 1..Len(frames) : \E e \in frames[m].left : Dominates(succ, e, b)
  \/ Complete(b)

StackInv == \A v \in Key : (stack[v] # <<>> => v \in known) /\ \E h : Heights(h, v)

WalkInv == PathInv /\ DoneInv /\ (\A b \in Reachable(succ) : Covered(b)) /\ StackInv

\* The old function and the new one agree at point i of b.
Agree(b, i) ==
  \A v \in Var : mem[v] # Undefined =>
    /\ \A d \in Block, j \in Nat : TopSite(b, i, v, d, j) => Eval(SiteVal(d, j, v)) = mem[v]
    /\ Many(v) => \E d \in Block, j \in Nat : TopSite(b, i, v, d, j)

RunInv ==
  /\ DOMAIN mem = Var /\ DOMAIN loaded = Loads /\ DOMAIN result = Block \X Key
  /\ mem = [v \in Var |-> mem[v]] /\ loaded = [s \in Loads |-> loaded[s]]
  /\ ~ Done => (block = Entry /\ prev = 0 /\ \A v \in Var : mem[v] = Undefined)
  /\ block \in Reachable(succ)
  /\ Done => \A b \in Reachable(succ) : Complete(b)
  /\ pc = "enter" =>
       \/ prev = 0 /\ \A v \in Var : mem[v] = Undefined
       \/ prev \in Reachable(succ) /\ block \in Succs(succ, prev) /\ Agree(prev, End(prev))
  /\ pc = "run" =>
       /\ next \in 1..End(block) /\ Agree(block, next)
       /\ \A k \in DOMAIN code[block] :
            /\ k < next /\ code[block][k].op = "load" /\ loaded[<<block, k>>] # Undefined
            => Eval(latest[<<block, k>>]) = loaded[<<block, k>>]

IInv ==
  /\ ProgramInv /\ TypeInv /\ LatestInv /\ OperandInv /\ RunInv
  /\ pc = "place" => /\ PlaceInv /\ frames = <<>>
                     /\ \A v \in Key : stack[v] = <<>>
                     /\ \A s \in Loads : latest[s] = LoadOf(s)
                     /\ \A p \in Block \X Key : operandsOf[p] = {}
  /\ pc # "place" => PhisClosed
  /\ pc \in {"instr", "children"} => WalkInv
----------------------------------------------------------------------------
(* Definitions and points. *)

LEMMA GraphFacts ==
  ASSUME ProgramInv
  PROVE  /\ IsGraph(succ)
         /\ Reachable(succ) \subseteq Block
         /\ \A b \in Block : Len(code[b]) \in Nat /\ DOMAIN code[b] = 1..Len(code[b]) /\ End(b) \in Nat \ {0}
<1>1. ASSUME NEW b \in Block PROVE Succs(succ, b) \subseteq Block
  <2>1. succ[b] \in Seq(Block)
    BY DEF ProgramInv
  <2> QED
    BY <2>1 DEF Succs
<1>2. IsGraph(succ)
  BY <1>1 DEF IsGraph
<1>3. ASSUME NEW b \in Block PROVE Len(code[b]) \in Nat /\ DOMAIN code[b] = 1..Len(code[b]) /\ End(b) \in Nat \ {0}
  <2>1. code[b] \in Seq(Access)
    BY DEF ProgramInv
  <2>2. Len(code[b]) \in Nat /\ DOMAIN code[b] = 1..Len(code[b])
    BY <2>1
  <2> QED
    BY <2>2 DEF End
<1> QED
  BY <1>2, <1>3, AvoidingType

\* Definitions are at points of their block.
LEMMA DefPoint ==
  ASSUME ProgramInv, NEW d \in Block, NEW j, NEW v, IsDef(d, j, v)
  PROVE  j \in 0..Len(code[d]) /\ j < End(d) /\ j \in Nat
<1>1. Len(code[d]) \in Nat /\ DOMAIN code[d] = 1..Len(code[d])
  BY GraphFacts
<1> QED
  BY <1>1 DEF IsDef, End

\* Points that the same definitions are above have the same last definition.
LEMMA SameAbove ==
  ASSUME NEW b, NEW i, NEW c, NEW k, NEW v,
         \A e \in Block, l \in Nat : IsDef(e, l, v) => (Before(e, l, b, i) <=> Before(e, l, c, k))
  PROVE  /\ \A d \in Block, j \in Nat : TopSite(b, i, v, d, j) <=> TopSite(c, k, v, d, j)
         /\ NoSite(b, i, v) <=> NoSite(c, k, v)
BY DEF TopSite, NoSite

\* The last definition is one definition.
LEMMA TopUnique ==
  ASSUME ProgramInv, NEW b \in Reachable(succ), NEW i, NEW v,
         NEW d \in Block, NEW j \in Nat, TopSite(b, i, v, d, j),
         NEW e \in Block, NEW k \in Nat, TopSite(b, i, v, e, k)
  PROVE  d = e /\ j = k
<1>1. Dominates(succ, d, e) /\ Dominates(succ, e, d) /\ Dominates(succ, d, b)
  BY DEF TopSite, Before
<1>2. d \in Reachable(succ)
  BY <1>1, DominatorReachable, GraphFacts
<1>3. d = e
  BY <1>1, <1>2, DominatesAntisymmetric, GraphFacts
<1> QED
  BY <1>3 DEF TopSite

\* Behind a store its value is the last definition.
LEMMA AfterStore ==
  ASSUME ProgramInv, NEW b \in Block, NEW i \in DOMAIN code[b], code[b][i].op = "store"
  PROVE  TopSite(b, i + 1, code[b][i].var, b, i)
<1>1. i \in Nat
  BY GraphFacts
<1>2. IsDef(b, i, code[b][i].var) /\ Before(b, i, b, i + 1)
  BY <1>1 DEF IsDef, Before, Dominates
<1>3. \A e \in Block, k \in Nat : Before(e, k, b, i + 1) => Dominates(succ, e, b) /\ (e = b => k <= i)
  BY <1>1 DEF Before
<1> QED
  BY <1>2, <1>3 DEF TopSite

\* An instruction that is no store of v makes no difference to it.
LEMMA AfterOther ==
  ASSUME ProgramInv, NEW b \in Block, NEW i \in DOMAIN code[b], NEW v,
         ~ (code[b][i].op = "store" /\ code[b][i].var = v)
  PROVE  /\ \A d \in Block, j \in Nat : TopSite(b, i + 1, v, d, j) <=> TopSite(b, i, v, d, j)
         /\ NoSite(b, i + 1, v) <=> NoSite(b, i, v)
<1>1. i \in Nat \ {0}
  BY GraphFacts
<1>2. ASSUME NEW e \in Block, NEW l \in Nat, IsDef(e, l, v)
      PROVE  Before(e, l, b, i + 1) <=> Before(e, l, b, i)
  <2>1. e = b => l # i
    BY <1>1, <1>2 DEF IsDef
  <2> QED
    BY <1>1, <2>1 DEF Before
<1> QED
  BY <1>2, SameAbove

\* A phi is the last definition behind the phis of its block.
LEMMA AfterPhi ==
  ASSUME ProgramInv, NEW b \in Block, NEW v, <<b, v>> \in phis
  PROVE  TopSite(b, 1, v, b, 0)
<1>1. IsDef(b, 0, v) /\ Before(b, 0, b, 1)
  BY DEF IsDef, Before, Dominates
<1>2. \A e \in Block, k \in Nat : Before(e, k, b, 1) => Dominates(succ, e, b) /\ (e = b => k <= 0)
  BY DEF Before
<1> QED
  BY <1>1, <1>2 DEF TopSite

LEMMA AfterNoPhi ==
  ASSUME ProgramInv, NEW b \in Block, NEW v, <<b, v>> \notin phis
  PROVE  /\ \A d \in Block, j \in Nat : TopSite(b, 1, v, d, j) <=> TopSite(b, 0, v, d, j)
         /\ NoSite(b, 1, v) <=> NoSite(b, 0, v)
<1>1. ASSUME NEW e \in Block, NEW l \in Nat, IsDef(e, l, v)
      PROVE  Before(e, l, b, 1) <=> Before(e, l, b, 0)
  <2>1. e = b => l # 0
    BY <1>1, GraphFacts DEF IsDef
  <2> QED
    BY <2>1 DEF Before
<1> QED
  BY <1>1, SameAbove

\* A block has above it what is above the end of its immediate dominator.
LEMMA IntoChild ==
  ASSUME ProgramInv, NEW a \in Block, NEW c \in dom_tree_succ[a], NEW v
  PROVE  /\ c \in Reachable(succ) /\ c # Entry
         /\ \A d \in Block, j \in Nat : TopSite(c, 0, v, d, j) <=> TopSite(a, End(a), v, d, j)
         /\ NoSite(c, 0, v) <=> NoSite(a, End(a), v)
<1>1. c \in Reachable(succ) /\ c # Entry /\ IsImmediateDominator(succ, a, c)
  BY DEF ProgramInv
<1>2. ASSUME NEW e \in Block, NEW l \in Nat, IsDef(e, l, v)
      PROVE  Before(e, l, c, 0) <=> Before(e, l, a, End(a))
  <2>1. StrictlyDominates(succ, e, c) <=> Dominates(succ, e, a)
    BY <1>1, DominatorsOfChild, GraphFacts
  <2>2. l < End(e) /\ ~ (l < 0)
    BY <1>2, DefPoint
  <2> QED
    BY <2>1, <2>2 DEF Before, StrictlyDominates
<1>3. (\A d \in Block, j \in Nat : TopSite(c, 0, v, d, j) <=> TopSite(a, End(a), v, d, j))
      /\ (NoSite(c, 0, v) <=> NoSite(a, End(a), v))
  BY <1>2, SameAbove
<1> QED
  BY <1>1, <1>3

\* Nothing is above the beginning of the entry.
LEMMA NothingAboveEntry == ASSUME ProgramInv, NEW v PROVE NoSite(Entry, 0, v)
BY EntryDominates, EntryIsBlock DEF NoSite, Before

\* Without a phi, the last definition at the beginning of a block is the last one
\* at the end of each predecessor; the other way round for a variable with phis.
LEMMA NoPhiSame ==
  ASSUME ProgramInv, PhisClosed, NEW b \in Reachable(succ), NEW p \in Reachable(succ),
         b \in Succs(succ, p), NEW v \in Var, <<b, v>> \notin phis, NEW d \in Block, NEW j \in Nat
  PROVE  /\ TopSite(b, 1, v, d, j) => TopSite(p, End(p), v, d, j)
         /\ Many(v) /\ TopSite(p, End(p), v, d, j) => TopSite(b, 1, v, d, j)
<1>1. b \in Block /\ p \in Block /\ p \in Preds(succ, b) /\ \A e : StrictlyDominates(succ, e, b) => Dominates(succ, e, p)
  BY GraphFacts, DominatesPred DEF Preds
<1>2. ASSUME NEW e \in Block, NEW l \in Nat, IsDef(e, l, v), Before(e, l, b, 1)
      PROVE  StrictlyDominates(succ, e, b) /\ Before(e, l, p, End(p))
  <2>1. e # b
    <3>1. e = b => l = 0
      BY <1>2 DEF Before
    <3> QED
      BY <1>1, <1>2, <3>1, GraphFacts DEF IsDef
  <2> QED
    BY <1>1, <1>2, <2>1, DefPoint DEF Before, StrictlyDominates
<1>3. ASSUME NEW e \in Block, NEW l \in Nat, IsDef(e, l, v), Dominates(succ, e, p), ~ StrictlyDominates(succ, e, b)
      PROVE  ~ Many(v)
  <2>1. b \in Frontier(succ, e)
    BY <1>1, <1>3 DEF Frontier
  <2> QED
    BY <1>3, <2>1 DEF PhisClosed, HasDef, Placed
<1>4. ASSUME TopSite(b, 1, v, d, j) PROVE TopSite(p, End(p), v, d, j)
  <2>1. IsDef(d, j, v) /\ Before(d, j, p, End(p)) /\ StrictlyDominates(succ, d, b)
    BY <1>2, <1>4 DEF TopSite
  <2>2. ASSUME NEW e \in Block, NEW l \in Nat, IsDef(e, l, v), Before(e, l, p, End(p))
        PROVE  Dominates(succ, e, d) /\ (e = d => l <= j)
    <3>1. CASE StrictlyDominates(succ, e, b)
      <4>1. Before(e, l, b, 1)
        BY <3>1 DEF Before, StrictlyDominates
      <4> QED
        BY <1>4, <2>2, <4>1 DEF TopSite
    <3>2. CASE ~ StrictlyDominates(succ, e, b)
      <4>1. ~ Many(v) /\ \A y \in Block : <<y, v>> \notin phis
        BY <1>3, <2>2, <3>2 DEF PhisClosed, Before
      <4>2. e \in StoreBlocks(v) /\ d \in StoreBlocks(v)
        BY <2>1, <2>2, <4>1 DEF IsDef, StoreBlocks
      <4>3. e = d
        <5>1. IsFiniteSet(StoreBlocks(v)) /\ Cardinality(StoreBlocks(v)) \in Nat
          <6>1. IsFiniteSet(Block)
            BY NAssumption, FS_Interval DEF Block
          <6>2. IsFiniteSet(StoreBlocks(v))
            BY <6>1, FS_Subset DEF StoreBlocks
          <6> QED
            BY <6>2, FS_CardinalityType
        <5>2. ASSUME e # d PROVE FALSE
          <6> DEFINE E == {e}
          <6>1. IsFiniteSet(E) /\ Cardinality(E) = 1 /\ d \notin E /\ E \cup {d} \subseteq StoreBlocks(v)
            BY <4>2, <5>2, FS_Singleton
          <6> HIDE DEF E
          <6>2. Cardinality(E \cup {d}) = Cardinality(E) + 1
            BY <6>1, FS_AddElement
          <6>3. Cardinality(E \cup {d}) = 2
            BY <6>1, <6>2
          <6>4. Cardinality(E \cup {d}) <= Cardinality(StoreBlocks(v))
            BY <5>1, <6>1, FS_Subset
          <6> QED
            BY <4>1, <5>1, <6>3, <6>4 DEF Many
        <5> QED
          BY <5>2
      <4> QED
        BY <2>1, <3>2, <4>3
    <3> QED
      BY <3>1, <3>2
  <2> QED
    BY <2>1, <2>2 DEF TopSite
<1>5. ASSUME Many(v), TopSite(p, End(p), v, d, j) PROVE TopSite(b, 1, v, d, j)
  <2>1. IsDef(d, j, v) /\ StrictlyDominates(succ, d, b)
    BY <1>3, <1>5 DEF TopSite, Before
  <2>2. Before(d, j, b, 1)
    BY <2>1 DEF Before, StrictlyDominates
  <2> QED
    BY <1>2, <1>5, <2>1, <2>2 DEF TopSite
<1> QED
  BY <1>4, <1>5

\* Every load of a handled program has a definition above it.
LEMMA LoadHasDefinition ==
  ASSUME ProgramInv, PhisClosed, NEW b \in Reachable(succ), NEW i \in DOMAIN code[b],
         code[b][i].op = "load"
  PROVE  ~ NoSite(b, i, code[b][i].var)
<1> DEFINE v == code[b][i].var
           stores == StoreBlocks(v)
<1>1. b \in Block /\ i \in Nat \ {0} /\ v \in Var
  <2>1. code[b] \in Seq(Access) /\ b \in Block
    BY GraphFacts DEF ProgramInv
  <2>2. code[b][i] \in Access
    BY <2>1
  <2> QED
    BY <2>1, <2>2, GraphFacts DEF Access
<1>2. \/ \E j \in 1..(i - 1) : IsStore(code, b, j, v)
      \/ \E s \in stores : Cardinality(stores) = 1 /\ StrictlyDominates(succ, s, b)
      \/ \E s \in stores \cap Reachable(succ) :
           Cardinality(stores) > 1 /\ b \in ReachableFrom(succ, s)
  <2>1. StoresOf(code, v) = stores
    BY DEF StoresOf, StoreBlocks, IsStore
  <2>2. StoreFirst(succ, code, b, i, v)
    BY DEF ProgramInv
  <2> QED
    BY <2>1, <2>2 DEF StoreFirst
<1>3. ASSUME NEW j \in 1..(i - 1), IsStore(code, b, j, v) PROVE ~ NoSite(b, i, v)
  <2>1. j \in Nat /\ j \in DOMAIN code[b] /\ j < i
    BY <1>1, GraphFacts
  <2>2. IsDef(b, j, v) /\ Before(b, j, b, i)
    BY <1>3, <2>1 DEF IsDef, IsStore, Before, Dominates
  <2> QED
    BY <1>1, <2>1, <2>2 DEF NoSite
<1>4. ASSUME NEW s \in stores, StrictlyDominates(succ, s, b) PROVE ~ NoSite(b, i, v)
  <2>1. PICK j \in DOMAIN code[s] : code[s][j].op = "store" /\ code[s][j].var = v
    BY DEF StoreBlocks
  <2>2. s \in Block /\ IsDef(s, j, v) /\ Before(s, j, b, i) /\ j \in Nat
    BY <1>4, <2>1, GraphFacts DEF IsDef, Before, StrictlyDominates, StoreBlocks
  <2> QED
    BY <2>2 DEF NoSite
<1>5. ASSUME NEW s \in stores \cap Reachable(succ), Cardinality(stores) > 1, b \in ReachableFrom(succ, s)
      PROVE  ~ NoSite(b, i, v)
  <2> DEFINE S == {c \in Reachable(succ) : \E d \in Block :
                     HasDef(d, v) /\ Dominates(succ, d, c) /\ (d = c => <<c, v>> \in phis)}
  <2>1. ASSUME NEW c \in Reachable(succ), NEW d \in Block, HasDef(d, v), Dominates(succ, d, c),
               NEW y \in Succs(succ, c)
        PROVE  y \in S
    <3>1. y \in Reachable(succ) /\ c \in Preds(succ, y) \cap Reachable(succ)
      BY <2>1, ReachableStep, GraphFacts DEF Preds
    <3>2. CASE StrictlyDominates(succ, d, y)
      BY <2>1, <3>1, <3>2 DEF StrictlyDominates
    <3>3. CASE ~ StrictlyDominates(succ, d, y)
      <4>1. y \in Frontier(succ, d)
        BY <2>1, <3>1, <3>3 DEF Frontier
      <4>2. <<y, v>> \in phis
        BY <1>1, <1>5, <2>1, <4>1 DEF PhisClosed, Many, Placed
      <4>3. HasDef(y, v) /\ Dominates(succ, y, y) /\ y \in Block
        BY <3>1, <4>2, GraphFacts DEF HasDef, IsDef, Dominates
      <4> QED
        BY <3>1, <4>2, <4>3
    <3> QED
      BY <3>2, <3>3
  <2>2. Succs(succ, s) \subseteq S
    <3>1. HasDef(s, v) /\ Dominates(succ, s, s) /\ s \in Block
      BY GraphFacts DEF HasDef, IsDef, Dominates, StoreBlocks
    <3> QED
      BY <2>1, <3>1
  <2>3. \A a \in S : Succs(succ, a) \subseteq S
    BY <2>1
  <2>4. S \in SUBSET Block
    BY GraphFacts
  <2>5. b \in S
    <3> HIDE DEF S
    <3> QED
      BY <1>5, <2>2, <2>3, <2>4 DEF ReachableFrom
  <2>6. PICK d \in Block : HasDef(d, v) /\ Dominates(succ, d, b) /\ (d = b => <<b, v>> \in phis)
    BY <2>5
  <2>7. CASE d = b
    <3>1. IsDef(b, 0, v) /\ Before(b, 0, b, i)
      BY <1>1, <2>6, <2>7 DEF IsDef, Before
    <3> QED
      BY <1>1, <3>1 DEF NoSite
  <2>8. CASE d # b
    BY <2>6, <2>8 DEF HasDef, Before, NoSite
  <2> QED
    BY <2>7, <2>8
<1> QED
  BY <1>2, <1>3, <1>4, <1>5
----------------------------------------------------------------------------
(* What the steps of rename leave as it is. *)

Fixed == UNCHANGED <<program, phis>>

\* A load is replaced at most once.
Settled == \A s \in Loads : latest'[s] = latest[s] \/ latest[s] = LoadOf(s)

LEMMA FixedSets ==
  ASSUME Fixed
  PROVE  Site' = Site /\ Loads' = Loads /\ ConstOrPhi' = ConstOrPhi
BY DEF Fixed, program, Site, Loads, Instr, ConstOrPhi, Const, Phi

LEMMA FixedPoints ==
  ASSUME Fixed
  PROVE  /\ \A d, j, v : IsDef(d, j, v)' <=> IsDef(d, j, v)
         /\ \A b, i, d, j : Before(d, j, b, i)' <=> Before(d, j, b, i)
         /\ \A b, i, v, d, j : TopSite(b, i, v, d, j)' <=> TopSite(b, i, v, d, j)
         /\ \A b, i, v : NoSite(b, i, v)' <=> NoSite(b, i, v)
         /\ \A b : End(b)' = End(b)
         /\ \A b, v : Pushed(b, v)' = Pushed(b, v)
         /\ \A b, i, v : PushedBefore(b, i, v)' = PushedBefore(b, i, v)
<1>1. succ' = succ /\ code' = code /\ phis' = phis
  BY DEF Fixed, program
<1>2. \A d, j, v : IsDef(d, j, v)' <=> IsDef(d, j, v)
  BY <1>1 DEF IsDef
<1>3. \A b, i, d, j : Before(d, j, b, i)' <=> Before(d, j, b, i)
  BY <1>1 DEF Before
<1>4. \A b, i, v, d, j : TopSite(b, i, v, d, j)' <=> TopSite(b, i, v, d, j)
  BY <1>1, <1>2, <1>3 DEF TopSite
<1>5. \A b, i, v : NoSite(b, i, v)' <=> NoSite(b, i, v)
  BY <1>2, <1>3 DEF NoSite
<1>6. \A b : End(b)' = End(b)
  BY <1>1 DEF End
<1>7. \A b, v : Pushed(b, v)' = Pushed(b, v)
  BY <1>1 DEF Pushed
<1>8. \A b, i, v : PushedBefore(b, i, v)' = PushedBefore(b, i, v)
  BY <1>1 DEF PushedBefore
<1> QED
  BY <1>2, <1>3, <1>4, <1>5, <1>6, <1>7, <1>8

LEMMA FixedProgram ==
  ASSUME Fixed
  PROVE  /\ ProgramInv => ProgramInv'
         /\ PhisClosed => PhisClosed'
         /\ \A v : Many(v)' <=> Many(v)
<1>1. succ' = succ /\ code' = code /\ phis' = phis
      /\ dom_frontier' = dom_frontier /\ dom_tree_succ' = dom_tree_succ
  BY DEF Fixed, program
<1>2. ProgramInv => ProgramInv'
  BY <1>1 DEF ProgramInv
<1>3. \A v : Many(v)' <=> Many(v)
  BY <1>1 DEF Many, StoreBlocks
<1>4. \A X, v : HasDef(X, v)' <=> HasDef(X, v)
  BY FixedPoints DEF HasDef
<1>5. PhisClosed => PhisClosed'
  BY <1>1, <1>3, <1>4 DEF PhisClosed, Placed
<1> QED
  BY <1>2, <1>3, <1>5

\* A load of a block is a load of the function.
LEMMA LoadSite ==
  ASSUME NEW b \in Block, NEW k \in DOMAIN code[b], code[b][k].op = "load"
  PROVE  <<b, k>> \in Loads /\ <<b, k>> \in Site /\ Instr(<<b, k>>) = code[b][k]
BY DEF Loads, Site, Instr

\* No constant and no phi is a load.
LEMMA Apart == \A s : LoadOf(s) \notin ConstOrPhi /\ Garbage \notin ConstOrPhi
BY DEF LoadOf, ConstOrPhi, Const, Phi, Garbage

\* The value of a definition that is a constant or a phi stays so.
LEMMA Stable ==
  ASSUME ProgramInv, Fixed, Settled, NEW d \in Block, NEW j, NEW v, IsDef(d, j, v),
         SiteVal(d, j, v) \in ConstOrPhi
  PROVE  SiteVal(d, j, v)' = SiteVal(d, j, v)
<1>1. CASE j = 0
  BY <1>1 DEF SiteVal, Phi
<1>2. CASE j # 0
  <2>1. j \in DOMAIN code[d] /\ code[d][j].op = "store"
    BY <1>2 DEF IsDef
  <2>2. CASE code[d][j].from = 0
    BY <1>2, <2>2 DEF SiteVal, Stored, Instr, Const, Fixed, program
  <2>3. CASE code[d][j].from # 0
    <3> DEFINE k == code[d][j].from
    <3>1. k \in DOMAIN code[d] /\ code[d][k].op = "load"
      <4>1. k \in 1..(j - 1) /\ code[d][k].op = "load"
        BY <2>1, <2>3 DEF ProgramInv
      <4> QED
        BY <2>1, <4>1, GraphFacts
    <3>2. <<d, k>> \in Loads
      BY <3>1, LoadSite
    <3>3. SiteVal(d, j, v) = latest[<<d, k>>] /\ SiteVal(d, j, v)' = latest'[<<d, k>>]
      BY <1>2, <2>3 DEF SiteVal, Stored, Instr, Fixed, program
    <3> QED
      BY <3>2, <3>3, Apart DEF Settled
  <2> QED
    BY <2>2, <2>3
<1> QED
  BY <1>1, <1>2

\* In a block whose loads are replaced a definition is a constant or a phi.
LEMMA SiteGood ==
  ASSUME ProgramInv, LatestInv, NEW d \in Block, NEW j \in Nat, NEW v \in Key, IsDef(d, j, v), Replaced(d, j)
  PROVE  Good(SiteVal(d, j, v), d)
<1>1. CASE j = 0
  <2>1. SiteVal(d, j, v) = <<"phi", d, v>>
    BY <1>1 DEF SiteVal, Phi
  <2> QED
    BY <2>1 DEF Good, ConstOrPhi, Phi, Dominates
<1>2. CASE j # 0
  <2>1. j \in DOMAIN code[d] /\ code[d][j].op = "store" /\ <<d, j>> \in Site
    BY <1>2 DEF IsDef, Site
  <2>2. CASE code[d][j].from = 0
    <3>1. SiteVal(d, j, v) = Const(<<d, j>>) /\ SiteVal(d, j, v)[2] = d
      BY <1>2, <2>2 DEF SiteVal, Stored, Instr, Const
    <3> QED
      BY <2>1, <3>1 DEF Good, ConstOrPhi, Dominates
  <2>3. CASE code[d][j].from # 0
    <3> DEFINE k == code[d][j].from
    <3>1. k \in DOMAIN code[d] /\ code[d][k].op = "load" /\ k < j
      <4>1. k \in 1..(j - 1) /\ code[d][k].op = "load"
        BY <2>1, <2>3 DEF ProgramInv
      <4> QED
        BY <2>1, <4>1, GraphFacts
    <3>2. <<d, k>> \in Loads /\ latest[<<d, k>>] # LoadOf(<<d, k>>)
      BY <3>1, LoadSite DEF Replaced
    <3>3. SiteVal(d, j, v) = latest[<<d, k>>]
      BY <1>2, <2>3 DEF SiteVal, Stored, Instr
    <3>4. Good(latest[<<d, k>>], <<d, k>>[1])
      BY <3>2 DEF LatestInv, LoadRight
    <3> QED
      BY <3>3, <3>4
  <2> QED
    BY <2>2, <2>3
<1> QED
  BY <1>1, <1>2

\* So what has been done to the loads and phis of a block is not undone.
LEMMA DoneStays ==
  ASSUME ProgramInv, Fixed, Settled, \A p \in Block \X Key : operandsOf[p] \subseteq operandsOf'[p],
         erased \subseteq erased', NEW b \in Block
  PROVE  /\ \A i : Replaced(b, i) => Replaced(b, i)'
         /\ Filled(b) => Filled(b)'
         /\ Complete(b) => Complete(b)'
<1>1. code' = code /\ phis' = phis /\ succ' = succ
  BY DEF Fixed, program
<1>2. ASSUME NEW i, Replaced(b, i) PROVE Replaced(b, i)'
  <2>1. ASSUME NEW k \in DOMAIN code[b], k < i, code[b][k].op = "load" PROVE latest'[<<b, k>>] # LoadOf(<<b, k>>)
    <3>1. latest[<<b, k>>] # LoadOf(<<b, k>>) /\ <<b, k>> \in Loads
      BY <1>2, <2>1, LoadSite DEF Replaced
    <3> QED
      BY <3>1 DEF Settled
  <2> QED
    BY <1>1, <2>1 DEF Replaced, LoadOf
<1>3. ASSUME Filled(b) PROVE Filled(b)'
  <2>1. ASSUME NEW S \in Succs(succ, b), NEW v \in Key, <<S, v>> \in phis,
               NEW d \in Block, NEW j \in Nat, TopSite(b, End(b), v, d, j)
        PROVE  Good(SiteVal(d, j, v), d)' /\ <<SiteVal(d, j, v)', b>> \in operandsOf'[<<S, v>>]
    <3>1. Good(SiteVal(d, j, v), d) /\ <<SiteVal(d, j, v), b>> \in operandsOf[<<S, v>>]
      BY <1>3, <2>1 DEF Filled
    <3>2. SiteVal(d, j, v)' = SiteVal(d, j, v)
      BY <2>1, <3>1, Stable DEF Good, TopSite
    <3>3. <<S, v>> \in Block \X Key
      BY <2>1, GraphFacts DEF IsGraph
    <3>4. Good(SiteVal(d, j, v), d)' <=> Good(SiteVal(d, j, v), d)
      BY <1>1, <3>2, FixedSets DEF Good
    <3> QED
      BY <3>1, <3>2, <3>3, <3>4
  <2> QED
    BY <1>1, <2>1, FixedPoints DEF Filled
<1>4. Complete(b) => Complete(b)'
  BY <1>1, <1>2, <1>3, FixedPoints DEF Complete
<1> QED
  BY <1>2, <1>3, <1>4
LEMMA LoadStays ==
  ASSUME ProgramInv, Fixed, Settled, NEW s \in Loads, LoadRight(s), latest'[s] = latest[s]
  PROVE  LoadRight(s)'
<1>1. code' = code /\ phis' = phis /\ succ' = succ
  BY DEF Fixed, program
<1>2. CASE latest[s] = LoadOf(s)
  BY <1>2 DEF LoadRight, LoadOf
<1>3. CASE latest[s] # LoadOf(s)
  <2>1. PICK d \in Block, j \in Nat :
          TopSite(s[1], s[2], Instr(s).var, d, j) /\ latest[s] = SiteVal(d, j, Instr(s).var)
    BY <1>3 DEF LoadRight
  <2>2. s[1] \in Reachable(succ) /\ Good(latest[s], s[1])
    BY <1>3 DEF LoadRight
  <2>3. SiteVal(d, j, Instr(s).var)' = latest[s]
    <3>1. PICK w : w = Instr(s).var
      OBVIOUS
    <3>2. IsDef(d, j, w) /\ SiteVal(d, j, w) \in ConstOrPhi
      BY <2>1, <2>2, <3>1 DEF Good, TopSite
    <3>3. SiteVal(d, j, w)' = SiteVal(d, j, w)
      BY <3>2, Stable
    <3>4. Instr(s)' = Instr(s)
      BY <1>1 DEF Instr
    <3> QED
      BY <2>1, <3>1, <3>3, <3>4
  <2>4. TopSite(s[1], s[2], Instr(s).var, d, j)'
    BY <1>1, <2>1, FixedPoints DEF Instr
  <2>5. s[1] \in Reachable(succ') /\ Good(latest[s], s[1])'
    BY <1>1, <2>2, FixedSets DEF Good
  <2> QED
    BY <2>3, <2>4, <2>5 DEF LoadRight
<1> QED
  BY <1>2, <1>3

LEMMA OperandStays ==
  ASSUME ProgramInv, Fixed, Settled, NEW p, NEW o, OperandRight(p, o)
  PROVE  OperandRight(p, o)'
<1>1. code' = code /\ phis' = phis /\ succ' = succ
  BY DEF Fixed, program
<1>2. PICK d \in Block, j \in Nat : /\ TopSite(o[2], End(o[2]), p[2], d, j)
                                    /\ o[1] = SiteVal(d, j, p[2]) /\ Good(o[1], d)
  BY DEF OperandRight
<1>3. SiteVal(d, j, p[2])' = SiteVal(d, j, p[2])
  BY <1>2, Stable DEF Good, TopSite
<1>4. TopSite(o[2], End(o[2]), p[2], d, j)'
  <2>1. PICK k : k = End(o[2]) /\ k = End(o[2])'
    BY <1>1 DEF End
  <2>2. \A b, i, v, e, l : TopSite(b, i, v, e, l)' <=> TopSite(b, i, v, e, l)
    BY FixedPoints
  <2> QED
    BY <1>2, <2>1, <2>2
<1>5. Good(o[1], d)' /\ (p \in phis /\ o \in ConstOrPhi \X Reachable(succ) /\ p[1] \in Succs(succ, o[2]))'
  BY <1>1, <1>2, FixedSets DEF Good, OperandRight
<1> QED
  BY <1>2, <1>3, <1>4, <1>5 DEF OperandRight

----------------------------------------------------------------------------
(* The stack. *)

\* What holds of n elements of the stack goes on to hold while they are there.
LEMMA HoldsStays ==
  ASSUME ProgramInv, Fixed, Settled, NEW v, NEW n, NEW b, NEW i, Holds(v, n, b, i),
         n # 0 => n \in 1..Len(stack'[v]) /\ stack'[v][n] = stack[v][n]
  PROVE  Holds(v, n, b, i)'
<1>1. CASE n = 0 /\ NoSite(b, i, v)
  BY <1>1, FixedPoints DEF Holds
<1>2. CASE /\ n \in 1..Len(stack[v])
           /\ \E d \in Block, j \in Nat :
                TopSite(b, i, v, d, j) /\ stack[v][n] = SiteVal(d, j, v) /\ Good(stack[v][n], d)
  <2>1. PICK d \in Block, j \in Nat :
          TopSite(b, i, v, d, j) /\ stack[v][n] = SiteVal(d, j, v) /\ Good(stack[v][n], d)
    BY <1>2
  <2>2. SiteVal(d, j, v)' = SiteVal(d, j, v)
    BY <2>1, Stable DEF Good, TopSite
  <2>3. TopSite(b, i, v, d, j)'
    BY <2>1, FixedPoints
  <2>4. n # 0
    BY <1>2
  <2>5. n \in 1..Len(stack'[v]) /\ stack'[v][n] = stack[v][n]
    BY <2>4
  <2>6. Good(stack[v][n], d)'
    <3> DEFINE x == stack[v][n]
    <3>1. Good(x, d) <=> x \in ConstOrPhi /\ Dominates(succ, x[2], d)
      BY DEF Good
    <3>2. x \in ConstOrPhi' /\ Dominates(succ', x[2], d)
      BY <2>1, <3>1, FixedSets DEF Fixed, program
    <3> QED
      BY <2>5, <3>2 DEF Good
  <2> QED
    BY <2>1, <2>2, <2>3, <2>5, <2>6 DEF Holds
<1> QED
  BY <1>1, <1>2 DEF Holds

\* It holds at each point with the same last definition.
LEMMA HoldsMoves ==
  ASSUME NEW v, NEW n, NEW b, NEW i, NEW c, NEW k, Holds(v, n, b, i),
         \A d \in Block, j \in Nat : TopSite(c, k, v, d, j) <=> TopSite(b, i, v, d, j),
         NoSite(c, k, v) <=> NoSite(b, i, v)
  PROVE  Holds(v, n, c, k)
BY DEF Holds

\* How many definitions a block has pushed.
LEMMA PushedCount ==
  ASSUME ProgramInv, NEW b \in Block, NEW v
  PROVE  /\ Pushed(b, v) \in Nat
         /\ \A i \in Nat : PushedBefore(b, i, v) \in Nat
         /\ PushedBefore(b, 1, v) = (IF <<b, v>> \in phis THEN 1 ELSE 0)
         /\ PushedBefore(b, End(b), v) = Pushed(b, v)
         /\ \A i \in DOMAIN code[b] :
              PushedBefore(b, i + 1, v) =
                PushedBefore(b, i, v) + (IF code[b][i].op = "store" /\ code[b][i].var = v THEN 1 ELSE 0)
<1> DEFINE Stores(i) == {j \in DOMAIN code[b] : j < i /\ code[b][j].op = "store" /\ code[b][j].var = v}
           All == {j \in DOMAIN code[b] : code[b][j].op = "store" /\ code[b][j].var = v}
           phi == IF <<b, v>> \in phis THEN 1 ELSE 0
<1>1. Len(code[b]) \in Nat /\ DOMAIN code[b] = 1..Len(code[b]) /\ End(b) = Len(code[b]) + 1
  BY GraphFacts DEF End
<1>2. \A i : IsFiniteSet(Stores(i)) /\ Cardinality(Stores(i)) \in Nat
  <2>1. IsFiniteSet(DOMAIN code[b])
    BY <1>1, FS_Interval
  <2>2. \A i : IsFiniteSet(Stores(i))
    BY <2>1, FS_Subset
  <2> HIDE DEF Stores
  <2> QED
    BY <2>2, FS_CardinalityType
<1>3. phi \in {0, 1}
  OBVIOUS
<1>4. \A i : PushedBefore(b, i, v) = Cardinality(Stores(i)) + phi
  BY DEF PushedBefore
<1>5. Pushed(b, v) = Cardinality(All) + phi
  BY DEF Pushed
<1>6. Stores(End(b)) = All
  BY <1>1
<1>7. Stores(1) = {}
  BY <1>1
<1>8. ASSUME NEW i \in DOMAIN code[b]
      PROVE  Cardinality(Stores(i + 1)) =
               Cardinality(Stores(i)) + (IF code[b][i].op = "store" /\ code[b][i].var = v THEN 1 ELSE 0)
  <2>1. CASE code[b][i].op = "store" /\ code[b][i].var = v
    <3>1. Stores(i + 1) = Stores(i) \cup {i} /\ i \notin Stores(i)
      BY <1>1, <2>1
    <3> HIDE DEF Stores
    <3>2. Cardinality(Stores(i) \cup {i}) = Cardinality(Stores(i)) + 1
      BY <1>2, <3>1, FS_AddElement
    <3> QED
      BY <2>1, <3>1, <3>2
  <2>2. CASE ~ (code[b][i].op = "store" /\ code[b][i].var = v)
    <3>1. Stores(i + 1) = Stores(i)
      BY <1>1, <2>2
    <3> HIDE DEF Stores
    <3> QED
      BY <1>2, <2>2, <3>1
  <2> QED
    BY <2>1, <2>2
<1>9. Cardinality(Stores(1)) = 0
  BY <1>7, FS_EmptySet
<1> HIDE DEF Stores, All
<1>10. \A i : PushedBefore(b, i, v) \in Nat
  BY <1>2, <1>3, <1>4
<1>11. PushedBefore(b, 1, v) = phi
  BY <1>3, <1>4, <1>9
<1>12. PushedBefore(b, End(b), v) = Pushed(b, v)
  BY <1>4, <1>5, <1>6
<1>13. Pushed(b, v) \in Nat
  BY <1>10, <1>12
<1>14. ASSUME NEW i \in DOMAIN code[b]
       PROVE  PushedBefore(b, i + 1, v) =
                PushedBefore(b, i, v) + (IF code[b][i].op = "store" /\ code[b][i].var = v THEN 1 ELSE 0)
  <2> DEFINE one == IF code[b][i].op = "store" /\ code[b][i].var = v THEN 1 ELSE 0
  <2>1. one \in {0, 1}
    OBVIOUS
  <2>2. Cardinality(Stores(i + 1)) = Cardinality(Stores(i)) + one
    BY <1>8
  <2> HIDE DEF one, phi
  <2>3. PushedBefore(b, i + 1, v) = PushedBefore(b, i, v) + one
    BY <1>2, <1>3, <1>4, <2>1, <2>2
  <2> QED
    BY <2>3 DEF one
<1> QED
  BY <1>10, <1>11, <1>12, <1>13, <1>14
----------------------------------------------------------------------------
(* The steps of generate_phi. *)

LEMMA InitInv ==
  ASSUME Init, \A p \in Programs : Handled(p)
  PROVE  IInv
<1>1. PICK p \in Programs : succ = p.succ /\ code = p.code
  BY DEF Init
<1>2. ProgramInv
  <2>1. Handled(p)
    OBVIOUS
  <2>2. /\ succ \in [Block -> Seq(Block)]
        /\ code \in [Block -> Seq(Access)]
        /\ \A b \in Block : \A i \in DOMAIN code[b] : code[b][i].op = "store" /\ code[b][i].from # 0 =>
             code[b][i].from \in 1..(i - 1) /\ code[b][code[b][i].from].op = "load"
    BY <1>1, ProgramsAssumption
  <2>3. \A b \in Reachable(succ) : \A i \in DOMAIN code[b] :
          code[b][i].op = "load" => StoreFirst(succ, code, b, i, code[b][i].var)
    BY <1>1, <2>1 DEF Handled
  <2>4. phis \subseteq Block \X Key
    BY DEF Init, Key
  <2> QED
    BY <2>2, <2>3, <2>4 DEF Init, ProgramInv
<1>3. TypeInv
  <2>1. stack \in [Key -> Seq(ConstOrPhi)]
    BY DEF Init
  <2>2. frames \in Seq([bb : Reachable(succ), left : SUBSET Block])
    BY DEF Init
  <2> QED
    BY <2>1, <2>2 DEF Init, TypeInv, Key
<1>4. LatestInv
  BY DEF Init, LatestInv, LoadRight
<1>5. OperandInv
  BY DEF Init, OperandInv
<1>6. RunInv
  <2>1. Entry \in Reachable(succ)
    BY AvoidingEntry DEF Reachable
  <2> QED
    BY <2>1 DEF Init, RunInv, Done
<1>7. PlaceInv
  <2>1. \A v \in Var : \A y : <<y, v>> \notin phis
    BY ProgramsAssumption DEF Init
  <2>2. var \notin Var
    BY ProgramsAssumption DEF Init
  <2>3. \A v \in Var : v \notin vals => StoreBlocks(v) = {}
    BY DEF Init
  <2> QED
    BY <2>1, <2>2, <2>3 DEF Init, PlaceInv, Key
<1> QED
  BY <1>2, <1>3, <1>4, <1>5, <1>6, <1>7 DEF IInv, Init

LEMMA PlacingKeeps ==
  ASSUME IInv, pc = "place", UNCHANGED <<program, renameState, runState, pc>>,
         PlaceInv', phis' \subseteq Block \X Key
  PROVE  IInv'
<1> USE DEF program, renameState, runState
<1>1. ProgramInv'
  BY DEF IInv, ProgramInv
<1>2. Site' = Site /\ Loads' = Loads /\ ConstOrPhi' = ConstOrPhi
  BY DEF Site, Loads, Instr, ConstOrPhi, Const, Phi
<1>3. TypeInv'
  BY <1>2 DEF IInv, TypeInv, PlaceInv, LoadOf
<1>4. LatestInv'
  BY <1>2 DEF IInv, LatestInv, LoadRight, LoadOf
<1>5. OperandInv'
  BY DEF IInv, OperandInv
<1>6. RunInv'
  <2>1. pc' = "place" /\ ~ Done /\ ~ Done'
    BY DEF Done
  <2> QED
    BY <1>2, <2>1 DEF IInv, RunInv
<1> QED
  BY <1>1, <1>2, <1>3, <1>4, <1>5, <1>6 DEF IInv, LoadOf

LEMMA NextValInv ==
  ASSUME IInv, NEW w \in Var, NextVal(w)
  PROVE  IInv'
<1>1. PlaceInv /\ phis \subseteq Block \X Key
  BY DEF IInv, NextVal, ProgramInv
<1>2. /\ W = {} /\ w \in vals /\ vals' = vals \ {w} /\ var' = w /\ F' = {}
      /\ W' = (IF Cardinality(StoreBlocks(w)) > 1 THEN StoreBlocks(w) ELSE {})
      /\ succ' = succ /\ code' = code /\ phis' = phis
  BY DEF NextVal, program
<1>3. \A v : StoreBlocks(v)' = StoreBlocks(v) /\ (Many(v)' <=> Many(v))
  BY <1>2 DEF StoreBlocks, Many
<1>4. \A X, v : (HasDef(X, v)' <=> HasDef(X, v)) /\ (Placed(X, v)' <=> Placed(X, v))
  BY <1>2 DEF HasDef, IsDef, Placed
<1>5. \A y \in Block : <<y, w>> \notin phis
  BY <1>1, <1>2 DEF PlaceInv
<1>6. ASSUME NEW X \in Block, HasDef(X, w) PROVE X \in StoreBlocks(w)
  BY <1>5, <1>6 DEF HasDef, IsDef, StoreBlocks
<1>7. StoreBlocks(w) \subseteq Block
  BY DEF StoreBlocks
<1>8. ASSUME NEW v \in Var, StoreBlocks(v) # {}, v \notin vals', Many(v), NEW X \in Block, HasDef(X, v)
      PROVE  (v = var' /\ X \in W') \/ Placed(X, v)
  <2>1. CASE v = w
    BY <1>2, <1>6, <1>8, <2>1 DEF Many
  <2>2. CASE v # w
    BY <1>1, <1>2, <1>8, <2>2 DEF PlaceInv
  <2> QED
    BY <2>1, <2>2
<1>9. PlaceInv'
  <2>1. vals' \subseteq Var /\ var' \in Key /\ W' \subseteq Block /\ F' \subseteq Block
    BY <1>1, <1>2, <1>7 DEF PlaceInv, Key
  <2>2. (W # {} => var \in Var /\ Many(var))'
    <3>1. W' # {} => Many(w)
      BY <1>2 DEF Many
    <3>2. Many(var)' <=> Many(w)
      BY <1>2 DEF Many, StoreBlocks
    <3> QED
      BY <1>2, <3>1, <3>2
  <2>3. var' \notin vals' /\ F' = {y \in Block : <<y, var'>> \in phis'}
    BY <1>2, <1>5
  <2>4. \A v \in Var : v \in vals' \/ ~ Many(v) => \A y \in Block : <<y, v>> \notin phis'
    BY <1>1, <1>2 DEF PlaceInv
  <2>5. (\A v \in Var : StoreBlocks(v) # {} /\ v \notin vals /\ Many(v) =>
           \A X \in Block : HasDef(X, v) => (v = var /\ X \in W) \/ Placed(X, v))'
    BY <1>3, <1>4, <1>8
  <2>6. (\A v \in Var : v \in vals \/ ~ Many(v) => \A y \in Block : <<y, v>> \notin phis)'
    BY <1>3, <2>4
  <2> QED
    BY <2>1, <2>2, <2>3, <2>5, <2>6 DEF PlaceInv
<1>10. pc = "place" /\ UNCHANGED <<program, renameState, runState, pc>>
  BY DEF NextVal
<1> QED
  BY <1>1, <1>2, <1>9, <1>10, PlacingKeeps

LEMMA PlacePhisInv ==
  ASSUME IInv, NEW X \in Block, PlacePhis(X)
  PROVE  IInv'
<1> DEFINE fresh == Frontier(succ, X) \ F
<1>1. PlaceInv /\ ProgramInv
  BY DEF IInv, PlacePhis
<1>2. /\ X \in W /\ phis' = phis \cup {<<Y, var>> : Y \in fresh}
      /\ F' = F \cup fresh /\ W' = (W \ {X}) \cup fresh
      /\ succ' = succ /\ code' = code /\ vals' = vals /\ var' = var
  BY <1>1 DEF PlacePhis, program, ProgramInv
<1>3. var \in Var /\ Many(var) /\ var \notin vals /\ F = {y \in Block : <<y, var>> \in phis}
  BY <1>1, <1>2 DEF PlaceInv
<1>4. fresh \subseteq Block
  BY <1>1, GraphFacts DEF Frontier
<1> HIDE DEF fresh
<1>5. \A v : StoreBlocks(v)' = StoreBlocks(v) /\ (Many(v)' <=> Many(v))
  BY <1>2 DEF StoreBlocks, Many
<1>6. \A Y, v : <<Y, v>> \in phis' <=> <<Y, v>> \in phis \/ (v = var /\ Y \in fresh)
  BY <1>2
<1>7. ASSUME NEW Y, NEW v, HasDef(Y, v)' PROVE HasDef(Y, v) \/ (v = var /\ Y \in fresh)
  <2>1. PICK j \in Nat : IsDef(Y, j, v)'
    BY <1>7 DEF HasDef
  <2>2. IsDef(Y, j, v) \/ (v = var /\ Y \in fresh)
    BY <1>2, <1>6, <2>1 DEF IsDef
  <2> QED
    BY <2>2 DEF HasDef
<1>8. ASSUME NEW Y, NEW v, Placed(Y, v) PROVE Placed(Y, v)'
  BY <1>2, <1>6, <1>8 DEF Placed
<1>9. Placed(X, var)'
  <2>1. ASSUME NEW y \in Frontier(succ, X) PROVE <<y, var>> \in phis'
    <3>1. y \in Block
      BY <1>1, GraphFacts DEF Frontier
    <3>2. y \in fresh \/ y \in F
      BY DEF fresh
    <3> QED
      BY <1>3, <1>6, <3>2
  <2> QED
    BY <1>2, <2>1 DEF Placed
<1>10. ASSUME NEW v \in Var, StoreBlocks(v) # {}, v \notin vals, Many(v), NEW Y \in Block, HasDef(Y, v)'
       PROVE  (v = var /\ Y \in W') \/ Placed(Y, v)'
  <2>1. CASE v = var /\ Y \in fresh
    BY <1>2, <2>1
  <2>2. CASE HasDef(Y, v)
    <3>1. (v = var /\ Y \in W) \/ Placed(Y, v)
      BY <1>1, <1>10, <2>2 DEF PlaceInv
    <3> QED
      BY <1>2, <1>8, <1>9, <3>1
  <2> QED
    BY <1>7, <1>10, <2>1, <2>2
<1>11. PlaceInv'
  <2>1. vals' \subseteq Var /\ var' \in Key /\ W' \subseteq Block /\ F' \subseteq Block
    BY <1>1, <1>2, <1>4 DEF PlaceInv
  <2>2. (W # {} => var \in Var /\ Many(var))'
    <3>1. Many(var)' <=> Many(var)
      BY <1>2 DEF Many, StoreBlocks
    <3> QED
      BY <1>2, <1>3, <3>1
  <2>3. var' \notin vals' /\ F' = {y \in Block : <<y, var'>> \in phis'}
    BY <1>2, <1>3, <1>4, <1>6
  <2>4. (\A v \in Var : StoreBlocks(v) # {} /\ v \notin vals /\ Many(v) =>
           \A Y \in Block : HasDef(Y, v) => (v = var /\ Y \in W) \/ Placed(Y, v))'
    BY <1>2, <1>5, <1>10
  <2>5. (\A v \in Var : v \in vals \/ ~ Many(v) => \A y \in Block : <<y, v>> \notin phis)'
    BY <1>1, <1>2, <1>3, <1>5, <1>6 DEF PlaceInv
  <2> QED
    BY <2>1, <2>2, <2>3, <2>4, <2>5 DEF PlaceInv
<1>12. phis' \subseteq Block \X Key
  BY <1>1, <1>2, <1>3, <1>4 DEF ProgramInv, Key
<1>13. pc = "place" /\ UNCHANGED <<program, renameState, runState, pc>>
  BY DEF PlacePhis
<1> QED
  BY <1>11, <1>12, <1>13, PlacingKeeps
----------------------------------------------------------------------------
(* The steps of rename. *)

Walking == pc \in {"instr", "children"}

LEMMA WalkFacts ==
  ASSUME IInv, Walking
  PROVE  /\ ProgramInv /\ TypeInv /\ LatestInv /\ OperandInv /\ PhisClosed /\ WalkInv
         /\ Len(frames) \in Nat \ {0}
         /\ \A m \in 1..Len(frames) : /\ frames[m].bb \in Reachable(succ) /\ frames[m].bb \in Block
                                      /\ frames[m].left \subseteq Block
         /\ Frame.bb \in Reachable(succ) /\ Frame.bb \in Block
         /\ Pos \in 1..End(Frame.bb) /\ Pos \in Nat
         /\ \A v \in Key : stack[v] \in Seq(ConstOrPhi) /\ Len(stack[v]) \in Nat
<1>1. ProgramInv /\ TypeInv /\ LatestInv /\ OperandInv /\ PhisClosed /\ WalkInv
  BY DEF IInv, Walking
<1>2. Reachable(succ) \subseteq Block /\ \A b \in Block : End(b) \in Nat \ {0}
  BY <1>1, GraphFacts
<1> DEFINE R == [bb : Reachable(succ), left : SUBSET Block]
<1>3. frames \in Seq(R)
  BY <1>1 DEF TypeInv
<1>4. Len(frames) \in Nat \ {0}
  BY <1>1, <1>3 DEF WalkInv, PathInv
<1>5. \A m \in 1..Len(frames) : /\ frames[m].bb \in Reachable(succ) /\ frames[m].bb \in Block
                                /\ frames[m].left \subseteq Block
  <2>1. ASSUME NEW m \in 1..Len(frames) PROVE frames[m] \in R
    <3> HIDE DEF R
    <3> QED
      BY <1>3
  <2> QED
    BY <1>2, <2>1
<1>6. Frame.bb \in Reachable(succ) /\ Frame.bb \in Block
  BY <1>4, <1>5 DEF Frame
<1>7. Pos \in 1..End(Frame.bb) /\ Pos \in Nat
  BY <1>1, <1>2, <1>6 DEF WalkInv, PathInv, Pos
<1>8. \A v \in Key : stack[v] \in Seq(ConstOrPhi) /\ Len(stack[v]) \in Nat
  BY <1>1 DEF TypeInv
<1> QED
  BY <1>1, <1>4, <1>5, <1>6, <1>7, <1>8

\* A step of rename keeps what is known of the function if what it adds is right.
LEMMA FunctionKeeps ==
  ASSUME IInv, Fixed, Settled, PhisClosed, UNCHANGED <<vals, W, F, var>>,
         pc' \in {"place", "instr", "children", "enter", "run"},
         stack' \in [Key -> Seq(ConstOrPhi)],
         frames' \in Seq([bb : Reachable(succ), left : SUBSET Block]),
         latest' \in [Loads -> ConstOrPhi \cup {LoadOf(s) : s \in Loads}],
         \A s \in Loads : latest'[s] = latest[s] \/ LoadRight(s)',
         operandsOf' \in [Block \X Key -> SUBSET (ConstOrPhi \X Block)],
         \A p \in Block \X Key : \A o \in operandsOf'[p] : o \in operandsOf[p] \/ OperandRight(p, o)',
         erased' \subseteq Site
  PROVE  ProgramInv' /\ TypeInv' /\ LatestInv' /\ OperandInv' /\ PhisClosed'
<1>1. ProgramInv /\ TypeInv /\ LatestInv /\ OperandInv
  BY DEF IInv
<1>2. ProgramInv' /\ PhisClosed'
  BY <1>1, FixedProgram
<1>3. TypeInv'
  BY <1>1, FixedSets DEF TypeInv, Fixed, program, LoadOf
<1>4. LatestInv'
  <2>1. ASSUME NEW s \in Loads PROVE LoadRight(s)'
    <3>1. LoadRight(s)
      BY <1>1 DEF LatestInv
    <3> QED
      BY <1>1, <3>1, LoadStays
  <2> QED
    BY <2>1, FixedSets DEF LatestInv
<1>5. OperandInv'
  <2>1. ASSUME NEW p \in Block \X Key, NEW o \in operandsOf'[p] PROVE OperandRight(p, o)'
    <3>1. CASE o \in operandsOf[p]
      <4>1. OperandRight(p, o)
        BY <1>1, <3>1 DEF OperandInv
      <4> QED
        BY <1>1, <4>1, OperandStays
    <3> QED
      BY <3>1
  <2> QED
    BY <2>1 DEF OperandInv
<1> QED
  BY <1>2, <1>3, <1>4, <1>5

LEMMA WalkingKeeps ==
  ASSUME IInv, ~ Done, ProgramInv', TypeInv', LatestInv', OperandInv', PhisClosed', WalkInv',
         Fixed, UNCHANGED runState, Walking'
  PROVE  IInv'
<1>1. ~ Done'
  BY DEF Done, Walking
<1>2. RunInv'
  BY <1>1, FixedSets DEF IInv, RunInv, Done, runState, Fixed, program
<1> QED
  BY <1>1, <1>2 DEF IInv, Walking

LEMMA HeightsBelow ==
  ASSUME IInv, Walking, NEW v \in Key, NEW h, Heights(h, v)
  PROVE  \A m \in 1..Len(frames) : h[m] \in Nat /\ h[m] <= h[Len(frames)] /\ h[m] <= Len(stack[v])
<1>1. Len(frames) \in 1..Len(frames)
  BY WalkFacts
<1>2. \A m \in 1..Len(frames) : h[m] \in Nat /\ h[m] <= h[Len(frames)]
  BY <1>1 DEF Heights
<1>3. PushedBefore(Frame.bb, Pos, v) \in Nat
  BY WalkFacts, PushedCount
<1>4. Len(stack[v]) = h[Len(frames)] + PushedBefore(Frame.bb, Pos, v)
  BY DEF Heights
<1> QED
  BY <1>1, <1>2, <1>3, <1>4

\* A step within a block: the calls are the same, the stacks of the callers too.
LEMMA WithinBlock ==
  ASSUME IInv, Walking, Fixed, Settled, frames' = frames,
         \A p \in Block \X Key : operandsOf[p] \subseteq operandsOf'[p], erased' = erased,
         pc' = "instr" => at' \in 1..End(Frame.bb),
         Replaced(Frame.bb, Pos)', pc' = "children" => Filled(Frame.bb)',
         \A v \in Key :
           /\ stack'[v] # <<>> => v \in known'
           /\ \A n \in 1..Len(stack[v]) : n \in 1..Len(stack'[v]) /\ stack'[v][n] = stack[v][n]
           /\ Len(stack'[v]) + PushedBefore(Frame.bb, Pos, v) = Len(stack[v]) + PushedBefore(Frame.bb, Pos, v)'
           /\ Len(stack'[v]) \in Nat /\ PushedBefore(Frame.bb, Pos, v)' \in Nat
           /\ Holds(v, Len(stack[v]), Frame.bb, Pos)'
  PROVE  WalkInv'
<1>1. ProgramInv /\ WalkInv /\ Len(frames) \in Nat \ {0} /\ Frame' = Frame
  BY WalkFacts DEF Frame
<1>2. succ' = succ /\ code' = code /\ dom_tree_succ' = dom_tree_succ
  BY DEF Fixed, program
<1>3. \A b \in Block : /\ (Complete(b) => Complete(b)') /\ (Filled(b) => Filled(b)')
                       /\ \A i : Replaced(b, i) => Replaced(b, i)'
  BY <1>1, DoneStays
<1>4. PathInv'
  BY <1>1, <1>2, FixedPoints DEF WalkInv, PathInv
<1>5. DoneInv'
  <2>1. ASSUME NEW m \in 1..(Len(frames) - 1)
        PROVE  Replaced(frames[m].bb, End(frames[m].bb))' /\ Filled(frames[m].bb)'
    <3>1. Replaced(frames[m].bb, End(frames[m].bb)) /\ Filled(frames[m].bb)
      BY <1>1, <2>1 DEF WalkInv, DoneInv
    <3>2. frames[m].bb \in Block
      BY WalkFacts
    <3> QED
      BY <1>3, <3>1, <3>2, FixedPoints
  <2> QED
    BY <2>1 DEF DoneInv
<1>6. ASSUME NEW b \in Reachable(succ) PROVE Covered(b)'
  <2>1. Covered(b) /\ b \in Block
    BY <1>1, GraphFacts DEF WalkInv
  <2> QED
    BY <1>2, <1>3, <2>1 DEF Covered
<1>7. ASSUME NEW v \in Key PROVE \E h : Heights(h, v)'
  <2>1. PICK h : Heights(h, v)
    BY <1>1 DEF WalkInv, StackInv
  <2>2. ASSUME NEW m \in 1..Len(frames) PROVE Holds(v, h[m], frames[m].bb, 0)'
    <3>1. Holds(v, h[m], frames[m].bb, 0)
      BY <2>1, <2>2 DEF Heights
    <3>2. h[m] # 0 => h[m] \in 1..Len(stack[v])
      BY <2>1, WalkFacts, HeightsBelow
    <3>3. PICK b : b = frames[m].bb
      OBVIOUS
    <3>4. Holds(v, h[m], b, 0)'
      BY <1>1, <3>1, <3>2, <3>3, HoldsStays
    <3> QED
      BY <3>3, <3>4
  <2>3. ASSUME NEW m \in 1..(Len(frames) - 1) PROVE h[m + 1] = h[m] + Pushed(frames[m].bb, v)'
    BY <2>1, FixedPoints DEF Heights
  <2>4. Len(stack'[v]) = h[Len(frames)] + PushedBefore(Frame.bb, Pos, v)'
    <3>1. Len(stack[v]) = h[Len(frames)] + PushedBefore(Frame.bb, Pos, v)
      BY <2>1 DEF Heights
    <3>2. PushedBefore(Frame.bb, Pos, v) \in Nat
      BY WalkFacts, PushedCount
    <3>3. h[Len(frames)] \in Nat
      BY <1>1, <2>1, HeightsBelow
    <3>4. Len(stack'[v]) + PushedBefore(Frame.bb, Pos, v) = Len(stack[v]) + PushedBefore(Frame.bb, Pos, v)'
      OBVIOUS
    <3>5. Len(stack'[v]) \in Nat /\ PushedBefore(Frame.bb, Pos, v)' \in Nat /\ Len(stack[v]) \in Nat
      BY WalkFacts
    <3>6. PICK a, b, c, d, e : /\ a = Len(stack[v]) /\ b = PushedBefore(Frame.bb, Pos, v) /\ c = Len(stack'[v])
                               /\ d = PushedBefore(Frame.bb, Pos, v)' /\ e = h[Len(frames)]
      OBVIOUS
    <3>7. c = e + d
      <4>1. a \in Nat /\ b \in Nat /\ c \in Nat /\ d \in Nat /\ e \in Nat /\ a = e + b /\ c + b = a + d
        BY <3>1, <3>2, <3>3, <3>4, <3>5, <3>6
      <4> QED
        BY <4>1
    <3> QED
      BY <3>6, <3>7
  <2> QED
    BY <2>1, <2>2, <2>3, <2>4 DEF Heights
<1>8. StackInv'
  BY <1>7 DEF StackInv
<1> QED
  BY <1>2, <1>4, <1>5, <1>6, <1>8 DEF WalkInv
LEMMA RenameStoreInv ==
  ASSUME IInv, RenameStore
  PROVE  IInv'
<1>1. Walking /\ pc = "instr" /\ pc' = "instr" /\ ~ Done
  BY DEF RenameStore, InBlock, Walking, Done
<1>2. /\ ProgramInv /\ TypeInv /\ LatestInv /\ OperandInv /\ PhisClosed /\ WalkInv
      /\ Frame.bb \in Reachable(succ) /\ Frame.bb \in Block
      /\ \A v \in Key : stack[v] \in Seq(ConstOrPhi) /\ Len(stack[v]) \in Nat
  BY <1>1, WalkFacts
<1>3. PICK b \in Block, i \in Nat : b = Frame.bb /\ i = at /\ i \in DOMAIN code[b]
  BY <1>1, <1>2, GraphFacts DEF RenameStore, InBlock
<1>4. Instr(Here) = code[b][i] /\ Here = <<b, i>> /\ code[b][i].op = "store"
  BY <1>3 DEF RenameStore, Instr, Here
<1>5. PICK u : u = code[b][i].var
  OBVIOUS
<1>6. u \in Key /\ i \in Nat \ {0} /\ i + 1 \in 1..End(b)
  <2>1. code[b] \in Seq(Access) /\ DOMAIN code[b] = 1..Len(code[b]) /\ Len(code[b]) \in Nat
    BY <1>2, GraphFacts DEF ProgramInv
  <2>2. code[b][i] \in Access
    BY <1>3, <2>1
  <2> QED
    BY <1>3, <1>5, <2>1, <2>2 DEF Access, Key, End
<1>7. Pos = i /\ Pos' = i + 1 /\ Frame' = Frame /\ frames' = frames
  BY <1>1, <1>3 DEF RenameStore, Pos, Frame
<1>8. Fixed /\ Settled /\ latest' = latest /\ operandsOf' = operandsOf /\ erased' = erased
  BY DEF RenameStore, Fixed, Settled, phiState
<1>9. PICK x : x = SiteVal(b, i, u)
  OBVIOUS
<1>10. IsDef(b, i, u) /\ TopSite(b, i + 1, u, b, i)
  BY <1>2, <1>3, <1>4, <1>5, AfterStore DEF IsDef
<1>11. Replaced(b, i)
  BY <1>2, <1>3, <1>7 DEF WalkInv, DoneInv
<1>12. Good(x, b) /\ x \in ConstOrPhi
  BY <1>2, <1>6, <1>9, <1>10, <1>11, SiteGood DEF Good
<1>13. stack' = [stack EXCEPT ![u] = Append(@, x)]
  <2>1. Stored(Here) = x
    BY <1>4, <1>6, <1>9 DEF SiteVal
  <2> QED
    BY <1>4, <1>5, <2>1 DEF RenameStore
<1>14. stack' \in [Key -> Seq(ConstOrPhi)]
  BY <1>2, <1>6, <1>12, <1>13 DEF TypeInv
<1>15. ProgramInv' /\ TypeInv' /\ LatestInv' /\ OperandInv' /\ PhisClosed'
  BY <1>1, <1>2, <1>7, <1>8, <1>14, FunctionKeeps DEF RenameStore, TypeInv, phiState
<1>16. Replaced(Frame.bb, Pos)'
  <2>1. Replaced(b, i + 1)
    <3>1. \A k \in DOMAIN code[b] : k < i + 1 /\ code[b][k].op = "load" => k < i
      BY <1>2, <1>4, <1>6, GraphFacts
    <3> QED
      BY <1>11, <3>1 DEF Replaced
  <2>2. \A k : Replaced(b, k) => Replaced(b, k)'
    BY <1>2, <1>8, DoneStays
  <2>3. PICK k : k = i + 1
    OBVIOUS
  <2> QED
    BY <1>3, <1>7, <2>1, <2>2, <2>3
<1>17. ASSUME NEW v \in Key
       PROVE  /\ stack'[v] # <<>> => v \in known'
              /\ \A n \in 1..Len(stack[v]) : n \in 1..Len(stack'[v]) /\ stack'[v][n] = stack[v][n]
              /\ Len(stack'[v]) + PushedBefore(Frame.bb, Pos, v) = Len(stack[v]) + PushedBefore(Frame.bb, Pos, v)'
              /\ Len(stack'[v]) \in Nat /\ PushedBefore(Frame.bb, Pos, v)' \in Nat
              /\ Holds(v, Len(stack[v]), Frame.bb, Pos)'
  <2>1. /\ PushedBefore(Frame.bb, Pos, v) = PushedBefore(b, i, v)
        /\ PushedBefore(Frame.bb, Pos, v)' = PushedBefore(b, i + 1, v)
    <3>1. PICK k : k = i + 1
      OBVIOUS
    <3>2. PushedBefore(b, k, v)' = PushedBefore(b, k, v)
      BY <1>8, FixedPoints
    <3> QED
      BY <1>3, <1>7, <3>1, <3>2
  <2>2. /\ PushedBefore(b, i, v) \in Nat
        /\ PushedBefore(b, i + 1, v) = PushedBefore(b, i, v) + (IF u = v THEN 1 ELSE 0)
    <3>1. i \in DOMAIN code[b] /\ b \in Block /\ i \in Nat
      BY <1>3
    <3>2. code[b][i].op = "store" /\ code[b][i].var = u
      BY <1>4, <1>5
    <3>3. PushedBefore(b, i + 1, v)
            = PushedBefore(b, i, v) + (IF code[b][i].op = "store" /\ code[b][i].var = v THEN 1 ELSE 0)
      BY <1>2, <3>1, PushedCount
    <3>4. PushedBefore(b, i, v) \in Nat
      BY <1>2, <3>1, PushedCount
    <3> QED
      BY <3>2, <3>3, <3>4
  <2>3. stack[v] # <<>> => v \in known
    BY <1>2 DEF WalkInv, StackInv
  <2>4. known' = known \cup {u}
    BY <1>4, <1>5 DEF RenameStore
  <2>5. Holds(v, Len(stack[v]), b, i)
    BY <1>2, <1>3, <1>7 DEF WalkInv, StackInv, Heights
  <2>6. CASE v = u
    <3>1. stack'[v] = Append(stack[v], x)
      BY <1>2, <1>13, <2>6 DEF TypeInv
    <3>2. Len(stack'[v]) = Len(stack[v]) + 1 /\ stack'[v][Len(stack[v]) + 1] = x
          /\ \A n \in 1..Len(stack[v]) : stack'[v][n] = stack[v][n]
      BY <1>2, <3>1
    <3>3. SiteVal(b, i, v)' = x
      BY <1>2, <1>8, <1>9, <1>10, <1>12, <2>6, Stable
    <3>4. PICK k, n : k = i + 1 /\ n = Len(stack[v]) + 1
      OBVIOUS
    <3>5. TopSite(b, k, v, b, i)' /\ Good(x, b)' /\ i \in Nat
      BY <1>6, <1>8, <1>10, <1>12, <2>6, <3>4, FixedPoints, FixedSets DEF Good, Fixed, program
    <3>6. Good(stack[v][n], b)'
      <4>1. stack'[v][n] = x
        BY <3>2, <3>4
      <4> QED
        BY <3>5, <4>1 DEF Good
    <3>7. Holds(v, n, b, k)'
      <4>1. n \in 1..Len(stack'[v]) /\ stack'[v][n] = x
        BY <1>2, <3>2, <3>4
      <4> QED
        BY <3>3, <3>5, <3>6, <4>1 DEF Holds
    <3>8. Holds(v, Len(stack[v]), Frame.bb, Pos)'
      BY <1>3, <1>7, <3>2, <3>4, <3>7
    <3>9. stack'[v] # <<>> => v \in known'
      BY <2>4, <2>6
    <3>10. \A m \in 1..Len(stack[v]) : m \in 1..Len(stack'[v]) /\ stack'[v][m] = stack[v][m]
      BY <1>2, <3>2
    <3>11. /\ Len(stack'[v]) + PushedBefore(b, i, v) = Len(stack[v]) + PushedBefore(b, i + 1, v)
           /\ Len(stack'[v]) \in Nat /\ PushedBefore(b, i + 1, v) \in Nat
      <4>1. PushedBefore(b, i + 1, v) = PushedBefore(b, i, v) + 1
        BY <2>2, <2>6
      <4>2. PICK m, n1, p, q : m = Len(stack[v]) /\ n1 = Len(stack'[v])
                              /\ p = PushedBefore(b, i, v) /\ q = PushedBefore(b, i + 1, v)
        OBVIOUS
      <4>3. m \in Nat /\ p \in Nat /\ n1 = m + 1 /\ q = p + 1
        BY <1>2, <2>2, <3>2, <4>1, <4>2
      <4>4. n1 + p = m + q /\ n1 \in Nat /\ q \in Nat
        BY <4>3
      <4> QED
        BY <4>2, <4>4
    <3> QED
      BY <2>1, <3>8, <3>9, <3>10, <3>11
  <2>7. CASE v # u
    <3>1. stack'[v] = stack[v]
      BY <1>2, <1>13, <2>7 DEF TypeInv
    <3>2. PICK k, n : k = i + 1 /\ n = Len(stack[v])
      OBVIOUS
    <3>3. Holds(v, n, b, k)
      BY <1>2, <1>3, <1>4, <1>5, <2>5, <2>7, <3>2, AfterOther, HoldsMoves
    <3>4. Holds(v, n, b, k)'
      BY <1>2, <1>8, <3>1, <3>2, <3>3, HoldsStays
    <3>5. Holds(v, Len(stack[v]), Frame.bb, Pos)'
      BY <1>3, <1>7, <3>1, <3>2, <3>4
    <3> QED
      BY <1>2, <2>1, <2>2, <2>3, <2>4, <2>7, <3>1, <3>5
  <2> QED
    BY <2>6, <2>7
<1>18. WalkInv'
  BY <1>1, <1>3, <1>6, <1>7, <1>8, <1>16, <1>17, WithinBlock DEF RenameStore
<1> QED
  BY <1>1, <1>8, <1>15, <1>18, WalkingKeeps DEF RenameStore, Walking
\* The value that a load is replaced with is the last definition above it; the
\* stack is not empty, since the program can be handled.
LEMMA RenameLoadInv ==
  ASSUME IInv, RenameLoad
  PROVE  IInv'
<1>1. Walking /\ pc = "instr" /\ pc' = "instr" /\ ~ Done
  BY DEF RenameLoad, InBlock, Walking, Done
<1>2. /\ ProgramInv /\ TypeInv /\ LatestInv /\ OperandInv /\ PhisClosed /\ WalkInv
      /\ Frame.bb \in Reachable(succ) /\ Frame.bb \in Block
      /\ \A v \in Key : stack[v] \in Seq(ConstOrPhi) /\ Len(stack[v]) \in Nat
  BY <1>1, WalkFacts
<1>3. PICK b \in Block, i \in Nat : b = Frame.bb /\ i = at /\ i \in DOMAIN code[b] /\ b \in Reachable(succ)
  BY <1>1, <1>2, GraphFacts DEF RenameLoad, InBlock
<1>4. Instr(Here) = code[b][i] /\ Here = <<b, i>> /\ code[b][i].op = "load" /\ <<b, i>> \in Loads
  BY <1>3 DEF RenameLoad, Instr, Here, Loads, Site
<1>5. PICK u : u = code[b][i].var
  OBVIOUS
<1>6. u \in Key /\ i \in Nat \ {0} /\ i + 1 \in 1..End(b)
  <2>1. code[b] \in Seq(Access) /\ DOMAIN code[b] = 1..Len(code[b]) /\ Len(code[b]) \in Nat
    BY <1>2, GraphFacts DEF ProgramInv
  <2>2. code[b][i] \in Access
    BY <1>3, <2>1
  <2> QED
    BY <1>3, <1>5, <2>1, <2>2 DEF Access, Key, End
<1>7. Pos = i /\ Pos' = i + 1 /\ Frame' = Frame /\ frames' = frames
  BY <1>1, <1>3 DEF RenameLoad, Pos, Frame
<1>8. Fixed /\ operandsOf' = operandsOf /\ erased' = erased /\ stack' = stack /\ known' = known
  BY DEF RenameLoad, Fixed, phiState
<1>9. \A v \in Key : Holds(v, Len(stack[v]), b, i)
  BY <1>2, <1>3, <1>7 DEF WalkInv, StackInv, Heights
<1>10. PICK x : x = Last(stack[u])
  OBVIOUS
<1>11. PICK d \in Block, j \in Nat :
         TopSite(b, i, u, d, j) /\ x = SiteVal(d, j, u) /\ Good(x, d) /\ stack[u] # <<>>
  <2>1. ~ NoSite(b, i, u)
    BY <1>2, <1>3, <1>4, <1>5, LoadHasDefinition
  <2>2. Holds(u, Len(stack[u]), b, i)
    BY <1>6, <1>9
  <2>3. Len(stack[u]) \in 1..Len(stack[u])
    BY <2>1, <2>2 DEF Holds
  <2>4. stack[u] # <<>>
    BY <2>3
  <2> QED
    BY <1>10, <2>1, <2>2, <2>4 DEF Holds, Last
<1>12. latest' = [latest EXCEPT ![<<b, i>>] = x]
  <2>1. u \in known
    BY <1>2, <1>6, <1>11 DEF WalkInv, StackInv
  <2> QED
    BY <1>4, <1>5, <1>10, <1>11, <2>1 DEF RenameLoad
<1>13. x \in ConstOrPhi /\ Good(x, b)
  <2>1. Dominates(succ, x[2], d) /\ Dominates(succ, d, b)
    BY <1>11 DEF Good, TopSite, Before
  <2>2. Dominates(succ, x[2], b)
    BY <1>2, <2>1, GraphFacts, DominatesTransitive
  <2> QED
    BY <1>11, <2>2 DEF Good
<1>14. latest[<<b, i>>] = LoadOf(<<b, i>>) \/ latest[<<b, i>>] = x
  <2>1. LoadRight(<<b, i>>)
    BY <1>2, <1>4 DEF LatestInv
  <2>2. SUFFICES ASSUME latest[<<b, i>>] # LoadOf(<<b, i>>) PROVE latest[<<b, i>>] = x
    OBVIOUS
  <2>3. PICK e \in Block, k \in Nat : TopSite(b, i, u, e, k) /\ latest[<<b, i>>] = SiteVal(e, k, u)
    BY <1>4, <1>5, <2>1, <2>2 DEF LoadRight
  <2>4. e = d /\ k = j
    BY <1>2, <1>3, <1>11, <2>3, TopUnique
  <2> QED
    BY <1>11, <2>3, <2>4
<1>15. DOMAIN latest = Loads /\ latest' \in [Loads -> ConstOrPhi \cup {LoadOf(s) : s \in Loads}]
  BY <1>2, <1>4, <1>12, <1>13 DEF TypeInv
<1>16. latest'[<<b, i>>] = x /\ \A s \in Loads \ {<<b, i>>} : latest'[s] = latest[s]
  BY <1>4, <1>12, <1>15
<1>17. Settled
  BY <1>14, <1>16 DEF Settled
<1>18. LoadRight(<<b, i>>)'
  <2>1. SiteVal(d, j, u)' = x
    BY <1>2, <1>8, <1>11, <1>13, <1>17, Stable DEF TopSite
  <2>2. TopSite(b, i, u, d, j)'
    BY <1>8, <1>11, FixedPoints
  <2>3. succ' = succ /\ code' = code
    BY <1>8 DEF Fixed, program
  <2>4. b \in Reachable(succ') /\ Good(x, b)'
    BY <1>3, <1>8, <1>13, <2>3, FixedSets DEF Good
  <2>5. Instr(<<b, i>>)'.var = u
    BY <1>5, <2>3 DEF Instr
  <2>6. Good(latest[<<b, i>>], b)'
    BY <1>16, <2>4 DEF Good
  <2>7. <<b, i>>[1] = b /\ <<b, i>>[2] = i
    OBVIOUS
  <2> QED
    BY <1>16, <2>1, <2>2, <2>4, <2>5, <2>6, <2>7 DEF LoadRight
<1>19. ProgramInv' /\ TypeInv' /\ LatestInv' /\ OperandInv' /\ PhisClosed'
  BY <1>1, <1>2, <1>7, <1>8, <1>15, <1>16, <1>17, <1>18, FunctionKeeps DEF RenameLoad, TypeInv, phiState
<1>20. Replaced(Frame.bb, Pos)'
  <2>1. \A k : Replaced(b, k) => Replaced(b, k)'
    BY <1>2, <1>8, <1>17, DoneStays
  <2>2. Replaced(b, i)
    BY <1>2, <1>3, <1>7 DEF WalkInv, DoneInv
  <2>3. Replaced(b, i)'
    BY <2>1, <2>2
  <2>4. latest'[<<b, i>>] # LoadOf(<<b, i>>)
    BY <1>13, <1>16, Apart
  <2>5. PICK l : l = i + 1
    OBVIOUS
  <2>6. code' = code
    BY <1>8 DEF Fixed, program
  <2>7. \A k \in DOMAIN code[b] : k < l => k < i \/ k = i
    BY <1>2, <1>6, <2>5, GraphFacts
  <2>8. Replaced(b, l)'
    BY <2>3, <2>4, <2>6, <2>7 DEF Replaced, LoadOf
  <2> QED
    BY <1>3, <1>7, <2>5, <2>8
<1>21. ASSUME NEW v \in Key
       PROVE  /\ stack'[v] # <<>> => v \in known'
              /\ \A n \in 1..Len(stack[v]) : n \in 1..Len(stack'[v]) /\ stack'[v][n] = stack[v][n]
              /\ Len(stack'[v]) + PushedBefore(Frame.bb, Pos, v) = Len(stack[v]) + PushedBefore(Frame.bb, Pos, v)'
              /\ Len(stack'[v]) \in Nat /\ PushedBefore(Frame.bb, Pos, v)' \in Nat
              /\ Holds(v, Len(stack[v]), Frame.bb, Pos)'
  <2>1. PICK k, n : k = i + 1 /\ n = Len(stack[v])
    OBVIOUS
  <2>2. PushedBefore(b, i, v) \in Nat /\ PushedBefore(b, k, v) = PushedBefore(b, i, v)
    <3>1. PushedBefore(b, i + 1, v) =
            PushedBefore(b, i, v) + (IF code[b][i].op = "store" /\ code[b][i].var = v THEN 1 ELSE 0)
      BY <1>2, <1>3, PushedCount
    <3>2. code[b][i].op # "store"
      BY <1>4
    <3>3. PushedBefore(b, i, v) \in Nat
      BY <1>2, <1>6, PushedCount
    <3> QED
      BY <2>1, <3>1, <3>2, <3>3
  <2>3. PushedBefore(Frame.bb, Pos, v) = PushedBefore(b, i, v)
        /\ PushedBefore(Frame.bb, Pos, v)' = PushedBefore(b, i, v)
    <3>1. PushedBefore(b, k, v)' = PushedBefore(b, k, v)
      BY <1>8, FixedPoints
    <3> QED
      BY <1>3, <1>7, <2>1, <2>2, <3>1
  <2>4. Holds(v, n, b, k)
    BY <1>2, <1>3, <1>4, <1>9, <2>1, AfterOther, HoldsMoves
  <2>5. n # 0 => n \in 1..Len(stack'[v])
    BY <1>2, <1>8, <2>1
  <2>6. Holds(v, n, b, k)'
    BY <1>2, <1>8, <1>17, <2>4, <2>5, HoldsStays
  <2>7. Holds(v, Len(stack[v]), Frame.bb, Pos)'
    BY <1>3, <1>7, <1>8, <2>1, <2>6
  <2>8. stack[v] # <<>> => v \in known
    BY <1>2 DEF WalkInv, StackInv
  <2> QED
    BY <1>2, <1>8, <2>2, <2>3, <2>7, <2>8
<1>22. WalkInv'
  BY <1>1, <1>3, <1>6, <1>7, <1>8, <1>17, <1>20, <1>21, WithinBlock DEF RenameLoad
<1> QED
  BY <1>1, <1>8, <1>19, <1>22, WalkingKeeps DEF RenameLoad, Walking

\* The phis get the last definitions that leave the block.
LEMMA FillPhisInv ==
  ASSUME IInv, FillPhis
  PROVE  IInv'
<1>1. Walking /\ pc = "instr" /\ pc' = "children" /\ ~ Done
  BY DEF FillPhis, Walking, Done
<1>2. /\ ProgramInv /\ TypeInv /\ LatestInv /\ OperandInv /\ PhisClosed /\ WalkInv
      /\ Frame.bb \in Reachable(succ) /\ Frame.bb \in Block
      /\ Pos \in 1..End(Frame.bb)
      /\ \A v \in Key : stack[v] \in Seq(ConstOrPhi) /\ Len(stack[v]) \in Nat
  BY <1>1, WalkFacts
<1>3. PICK b \in Block : b = Frame.bb /\ b \in Reachable(succ)
  BY <1>2
<1>4. Fixed /\ Settled /\ latest' = latest /\ erased' = erased /\ stack' = stack /\ known' = known
      /\ frames' = frames /\ Frame' = Frame
  BY DEF FillPhis, Fixed, phiState, Settled, Frame
<1>5. Pos = End(b) /\ Pos' = End(b)
  <2>1. End(b)' = End(b)
    BY <1>4, FixedPoints
  <2>2. Pos = at /\ at \in 1..End(b) /\ at \notin DOMAIN code[b]
    BY <1>1, <1>2, <1>3 DEF Pos, FillPhis
  <2>3. DOMAIN code[b] = 1..Len(code[b]) /\ Len(code[b]) \in Nat /\ End(b) = Len(code[b]) + 1
    BY <1>2, GraphFacts DEF End
  <2>4. at = End(b)
    BY <2>2, <2>3
  <2>5. Pos' = End(b)'
    BY <1>1, <1>3, <1>4 DEF Pos
  <2> QED
    BY <2>1, <2>2, <2>4, <2>5
<1>6. \A v \in Key : Holds(v, Len(stack[v]), b, End(b))
  BY <1>2, <1>3, <1>5 DEF WalkInv, StackInv, Heights
<1>7. DOMAIN operandsOf = Block \X Key
  BY <1>2 DEF TypeInv
<1>8. \A p \in Block \X Key : operandsOf'[p] =
        (IF p \in phis /\ p[1] \in Succs(succ, b) /\ stack[p[2]] # <<>>
           THEN operandsOf[p] \cup {<<Last(stack[p[2]]), b>>} ELSE operandsOf[p])
  BY <1>3, <1>7 DEF FillPhis
<1>9. \A p \in Block \X Key : operandsOf[p] \subseteq operandsOf'[p]
  BY <1>8
<1>10. ASSUME NEW v \in Key, stack[v] # <<>>
       PROVE  \E d \in Block, j \in Nat :
                TopSite(b, End(b), v, d, j) /\ Last(stack[v]) = SiteVal(d, j, v) /\ Good(Last(stack[v]), d)
  <2>1. Len(stack[v]) # 0
    BY <1>2, <1>10
  <2> QED
    BY <1>6, <2>1 DEF Holds, Last
<1>11. ASSUME NEW p \in Block \X Key, NEW o \in operandsOf'[p], o \notin operandsOf[p]
       PROVE  OperandRight(p, o)' /\ o \in ConstOrPhi \X Block
  <2>1. p \in phis /\ p[1] \in Succs(succ, b) /\ stack[p[2]] # <<>> /\ o = <<Last(stack[p[2]]), b>> /\ p[2] \in Key
    BY <1>8, <1>11
  <2>2. PICK d \in Block, j \in Nat : TopSite(b, End(b), p[2], d, j) /\ o[1] = SiteVal(d, j, p[2]) /\ Good(o[1], d)
    BY <1>10, <2>1
  <2>3. o[2] = b /\ o[1] \in ConstOrPhi /\ o \in ConstOrPhi \X Block /\ o \in ConstOrPhi \X Reachable(succ)
    BY <1>3, <2>1, <2>2 DEF Good
  <2>4. OperandRight(p, o)
    BY <2>1, <2>2, <2>3 DEF OperandRight
  <2> QED
    BY <1>2, <1>4, <2>3, <2>4, OperandStays
<1>12. operandsOf' \in [Block \X Key -> SUBSET (ConstOrPhi \X Block)]
  <2>1. DOMAIN operandsOf' = Block \X Key /\ operandsOf' = [p \in Block \X Key |-> operandsOf'[p]]
    BY <1>7 DEF FillPhis
  <2>2. \A p \in Block \X Key : operandsOf'[p] \subseteq ConstOrPhi \X Block
    BY <1>2, <1>11 DEF TypeInv
  <2> QED
    BY <2>1, <2>2
<1>13. ProgramInv' /\ TypeInv' /\ LatestInv' /\ OperandInv' /\ PhisClosed'
  BY <1>1, <1>2, <1>4, <1>11, <1>12, FunctionKeeps DEF FillPhis, TypeInv, phiState
<1>14. Replaced(Frame.bb, Pos)'
  <2>1. Replaced(b, End(b))
    BY <1>2, <1>3, <1>5 DEF WalkInv, DoneInv
  <2>2. \A k : Replaced(b, k) => Replaced(b, k)'
    BY <1>2, <1>4, <1>9, DoneStays
  <2>3. PICK k : k = End(b)
    OBVIOUS
  <2> QED
    BY <1>3, <1>4, <1>5, <2>1, <2>2, <2>3
<1>15. Filled(Frame.bb)'
  <2>1. ASSUME NEW S \in Succs(succ, b), NEW v \in Key, <<S, v>> \in phis,
               NEW d \in Block, NEW j \in Nat, TopSite(b, End(b), v, d, j)
        PROVE  Good(SiteVal(d, j, v), d)' /\ <<SiteVal(d, j, v)', b>> \in operandsOf'[<<S, v>>]
    <3>1. stack[v] # <<>>
      <4>1. ~ NoSite(b, End(b), v)
        BY <2>1 DEF TopSite, NoSite
      <4> QED
        BY <1>2, <1>6, <4>1 DEF Holds
    <3>2. PICK e \in Block, k \in Nat : TopSite(b, End(b), v, e, k) /\ Last(stack[v]) = SiteVal(e, k, v)
                                        /\ Good(Last(stack[v]), e)
      BY <1>10, <3>1
    <3>3. e = d /\ k = j
      BY <1>2, <1>3, <2>1, <3>2, TopUnique
    <3>4. PICK x : x = SiteVal(d, j, v)
      OBVIOUS
    <3>5. x = Last(stack[v]) /\ Good(x, d) /\ x \in ConstOrPhi
      BY <3>2, <3>3, <3>4 DEF Good
    <3>6. SiteVal(d, j, v)' = x
      BY <1>2, <1>4, <2>1, <3>4, <3>5, Stable DEF TopSite
    <3>7. Good(x, d)'
      BY <1>4, <3>5, FixedSets DEF Good, Fixed, program
    <3>8. <<S, v>> \in Block \X Key
      BY <1>2, <2>1, GraphFacts DEF IsGraph
    <3>9. <<x, b>> \in operandsOf'[<<S, v>>]
      BY <1>8, <2>1, <3>1, <3>5, <3>8
    <3> QED
      BY <3>6, <3>7, <3>9 DEF Good
  <2>2. (\A S \in Succs(succ, b), v \in Key : <<S, v>> \in phis =>
           \A d \in Block, j \in Nat : TopSite(b, End(b), v, d, j) =>
             Good(SiteVal(d, j, v), d) /\ <<SiteVal(d, j, v), b>> \in operandsOf[<<S, v>>])'
    BY <1>4, <2>1, FixedPoints DEF Fixed, program
  <2>3. Filled(b)'
    BY <2>2 DEF Filled
  <2> QED
    BY <1>3, <1>4, <2>3
<1>16. ASSUME NEW v \in Key
       PROVE  /\ stack'[v] # <<>> => v \in known'
              /\ \A n \in 1..Len(stack[v]) : n \in 1..Len(stack'[v]) /\ stack'[v][n] = stack[v][n]
              /\ Len(stack'[v]) + PushedBefore(Frame.bb, Pos, v) = Len(stack[v]) + PushedBefore(Frame.bb, Pos, v)'
              /\ Len(stack'[v]) \in Nat /\ PushedBefore(Frame.bb, Pos, v)' \in Nat
              /\ Holds(v, Len(stack[v]), Frame.bb, Pos)'
  <2>1. PICK k, n : k = End(b) /\ n = Len(stack[v])
    OBVIOUS
  <2>2. PushedBefore(b, k, v) \in Nat
    BY <1>2, <2>1, GraphFacts, PushedCount
  <2>3. PushedBefore(Frame.bb, Pos, v) = PushedBefore(b, k, v)
        /\ PushedBefore(Frame.bb, Pos, v)' = PushedBefore(b, k, v)
    <3>1. PushedBefore(b, k, v)' = PushedBefore(b, k, v)
      BY <1>4, FixedPoints
    <3> QED
      BY <1>3, <1>4, <1>5, <2>1, <3>1
  <2>4. Holds(v, n, b, k)
    BY <1>6, <2>1
  <2>5. n # 0 => n \in 1..Len(stack'[v])
    BY <1>2, <1>4, <2>1
  <2>6. Holds(v, n, b, k)'
    BY <1>2, <1>4, <2>4, <2>5, HoldsStays
  <2>7. Holds(v, Len(stack[v]), Frame.bb, Pos)'
    BY <1>3, <1>4, <1>5, <2>1, <2>6
  <2>8. stack[v] # <<>> => v \in known
    BY <1>2 DEF WalkInv, StackInv
  <2> QED
    BY <1>2, <1>4, <2>2, <2>3, <2>7, <2>8
<1>17. WalkInv'
  BY <1>1, <1>4, <1>9, <1>14, <1>15, <1>16, WithinBlock
<1> QED
  BY <1>1, <1>4, <1>13, <1>17, WalkingKeeps DEF FillPhis, Walking
\* rename pushes the phis of the block that it is called on.
LEMMA Entered ==
  ASSUME ProgramInv, Fixed, Settled, NEW b \in Block, NEW v \in Key, stack[v] \in Seq(ConstOrPhi),
         stack'[v] = (IF <<b, v>> \in phis THEN Append(stack[v], Phi(b, v)) ELSE stack[v]),
         Holds(v, Len(stack[v]), b, 0)
  PROVE  /\ stack'[v] \in Seq(ConstOrPhi)
         /\ Len(stack'[v]) \in Nat /\ Len(stack'[v]) = Len(stack[v]) + PushedBefore(b, 1, v)
         /\ \A n \in 1..Len(stack[v]) : n \in 1..Len(stack'[v]) /\ stack'[v][n] = stack[v][n]
         /\ Holds(v, Len(stack[v]), b, 1)'
         /\ stack'[v] # <<>> => stack[v] # <<>> \/ <<b, v>> \in phis
<1>1. Len(stack[v]) \in Nat
  OBVIOUS
<1>2. PushedBefore(b, 1, v) = (IF <<b, v>> \in phis THEN 1 ELSE 0)
  BY PushedCount
<1>3. CASE <<b, v>> \in phis
  <2>1. PICK x : x = Phi(b, v)
    OBVIOUS
  <2>2. x \in ConstOrPhi /\ x[2] = b
    BY <2>1 DEF ConstOrPhi, Phi
  <2>3. stack'[v] = Append(stack[v], x)
    BY <1>3, <2>1
  <2>4. /\ stack'[v] \in Seq(ConstOrPhi) /\ Len(stack'[v]) = Len(stack[v]) + 1
        /\ stack'[v][Len(stack[v]) + 1] = x
        /\ \A n \in 1..Len(stack[v]) : stack'[v][n] = stack[v][n]
    <3>1. PICK s, t : s = stack[v] /\ t = stack'[v]
      OBVIOUS
    <3>2. s \in Seq(ConstOrPhi) /\ t = Append(s, x) /\ Len(s) \in Nat
      BY <2>3, <3>1
    <3>3. t \in Seq(ConstOrPhi) /\ Len(t) = Len(s) + 1
      BY <2>2, <3>2
    <3>4. t[Len(s) + 1] = x /\ \A n \in 1..Len(s) : t[n] = s[n]
      BY <3>2
    <3> QED
      BY <3>1, <3>3, <3>4
  <2>5. PICK n : n = Len(stack[v]) + 1
    OBVIOUS
  <2>6. SiteVal(b, 0, v)' = x
    BY <2>1 DEF SiteVal, Phi
  <2>7. TopSite(b, 1, v, b, 0)'
    BY <1>3, AfterPhi, FixedPoints
  <2>8. Good(stack[v][n], b)'
    <3>1. Good(x, b)'
      BY <2>2, FixedSets DEF Good, Dominates
    <3>2. stack'[v][n] = x
      BY <2>4, <2>5
    <3> QED
      BY <3>1, <3>2 DEF Good
  <2>9. Holds(v, n, b, 1)'
    <3>1. n \in 1..Len(stack'[v]) /\ stack'[v][n] = x /\ 0 \in Nat
      BY <1>1, <2>4, <2>5
    <3> QED
      BY <2>6, <2>7, <2>8, <3>1 DEF Holds
  <2>10. Holds(v, Len(stack[v]), b, 1)'
    BY <2>4, <2>5, <2>9
  <2> QED
    BY <1>1, <1>2, <1>3, <2>4, <2>10
<1>4. CASE <<b, v>> \notin phis
  <2>1. PICK n : n = Len(stack[v])
    OBVIOUS
  <2>2. Holds(v, n, b, 1)
    BY <1>4, <2>1, AfterNoPhi, HoldsMoves
  <2>3. n # 0 => n \in 1..Len(stack'[v])
    BY <1>1, <1>4, <2>1
  <2>4. Holds(v, n, b, 1)'
    BY <1>4, <2>2, <2>3, HoldsStays
  <2>5. Holds(v, Len(stack[v]), b, 1)'
    BY <1>4, <2>1, <2>4
  <2> QED
    BY <1>1, <1>2, <1>4, <2>5
<1> QED
  BY <1>3, <1>4

LEMMA StartRenameInv ==
  ASSUME IInv, StartRename
  PROVE  IInv'
<1>1. /\ ProgramInv /\ TypeInv /\ LatestInv /\ OperandInv /\ PlaceInv /\ pc = "place" /\ W = {} /\ vals = {}
      /\ \A v \in Key : stack[v] = <<>>
  BY DEF IInv, StartRename
<1>2. Fixed /\ Settled /\ UNCHANGED <<vals, W, F, var, runState, latest, operandsOf, erased>>
  BY DEF StartRename, Fixed, Settled, phiState
<1>3. /\ frames' = <<[bb |-> Entry, left |-> dom_tree_succ[Entry]]>>
      /\ pc' = "instr" /\ at' = 1
      /\ known' = known \cup {v \in Key : <<Entry, v>> \in phis}
      /\ stack' = [v \in Key |-> IF v \in {w \in Key : <<Entry, w>> \in phis}
                                   THEN Append(stack[v], Phi(Entry, v)) ELSE stack[v]]
  BY DEF StartRename, Enter
<1>4. PhisClosed
  <2>1. ASSUME NEW v \in Var, Many(v) PROVE StoreBlocks(v) # {}
    BY <2>1, FS_EmptySet DEF Many
  <2> QED
    BY <1>1, <2>1 DEF PhisClosed, PlaceInv
<1>5. Entry \in Block /\ Entry \in Reachable(succ) /\ dom_tree_succ[Entry] \subseteq Block
      /\ dom_tree_succ[Entry] \subseteq Reachable(succ)
  BY <1>1, EntryIsBlock, AvoidingEntry, GraphFacts DEF Reachable, ProgramInv
<1>6. frames' \in Seq([bb : Reachable(succ), left : SUBSET Block]) /\ Len(frames') = 1
      /\ frames'[1].bb = Entry /\ frames'[1].left = dom_tree_succ[Entry] /\ Frame'.bb = Entry
  BY <1>3, <1>5 DEF Frame
<1>7. ASSUME NEW v \in Key
      PROVE  /\ stack'[v] \in Seq(ConstOrPhi)
             /\ Len(stack'[v]) \in Nat /\ Len(stack'[v]) = PushedBefore(Entry, 1, v)
             /\ Holds(v, Len(stack[v]), Entry, 1)'
             /\ stack'[v] # <<>> => <<Entry, v>> \in phis
  <2>1. stack[v] = <<>> /\ stack[v] \in Seq(ConstOrPhi) /\ Len(stack[v]) = 0
    BY <1>1 DEF TypeInv
  <2>2. Holds(v, Len(stack[v]), Entry, 0)
    BY <1>1, <2>1, NothingAboveEntry DEF Holds
  <2>3. stack'[v] = (IF <<Entry, v>> \in phis THEN Append(stack[v], Phi(Entry, v)) ELSE stack[v])
    BY <1>3
  <2>4. PushedBefore(Entry, 1, v) \in Nat
    BY <1>1, <1>5, PushedCount
  <2>5. /\ stack'[v] \in Seq(ConstOrPhi)
        /\ Len(stack'[v]) = Len(stack[v]) + PushedBefore(Entry, 1, v)
        /\ Holds(v, Len(stack[v]), Entry, 1)'
        /\ stack'[v] # <<>> => stack[v] # <<>> \/ <<Entry, v>> \in phis
    BY <1>1, <1>2, <1>5, <2>1, <2>2, <2>3, Entered
  <2>6. Len(stack'[v]) = PushedBefore(Entry, 1, v)
    BY <2>1, <2>4, <2>5
  <2> QED
    BY <2>1, <2>4, <2>5, <2>6
<1>8. stack' \in [Key -> Seq(ConstOrPhi)]
  BY <1>3, <1>7
<1>9. ProgramInv' /\ TypeInv' /\ LatestInv' /\ OperandInv' /\ PhisClosed'
  BY <1>1, <1>2, <1>3, <1>4, <1>6, <1>8, FunctionKeeps DEF TypeInv
<1>10. succ' = succ /\ code' = code /\ dom_tree_succ' = dom_tree_succ /\ phis' = phis
  BY <1>2 DEF Fixed, program
<1>11. Pos' = 1
  BY <1>3 DEF Pos
<1>12. PathInv'
  <2>1. 1 \in 1..End(Entry)'
    BY <1>1, <1>2, <1>5, GraphFacts, FixedPoints
  <2> QED
    BY <1>3, <1>6, <1>10, <2>1 DEF PathInv
<1>13. DoneInv'
  <2>1. Replaced(Entry, 1)'
    <3>1. \A k \in DOMAIN code[Entry] : ~ (k < 1)
      BY <1>1, <1>5, GraphFacts
    <3> QED
      BY <1>10, <3>1 DEF Replaced
  <2> QED
    BY <1>3, <1>6, <1>11, <2>1 DEF DoneInv
<1>14. ASSUME NEW b \in Reachable(succ) PROVE Covered(b)'
  <2>1. CASE b = Entry
    BY <1>6, <2>1 DEF Covered
  <2>2. CASE b # Entry
    <3>1. StrictlyDominates(succ, Entry, b)
      BY <2>2, EntryDominates DEF StrictlyDominates
    <3>2. PICK e \in Reachable(succ) \ {Entry} : IsImmediateDominator(succ, Entry, e) /\ Dominates(succ, e, b)
      BY <1>1, <3>1, ChildAbove, GraphFacts
    <3>3. e \in dom_tree_succ[Entry]
      BY <1>1, <1>5, <3>2 DEF ProgramInv
    <3>4. e \in frames'[1].left /\ 1 \in 1..Len(frames')
      BY <1>6, <3>3
    <3> QED
      BY <1>10, <3>2, <3>4 DEF Covered
  <2> QED
    BY <2>1, <2>2
<1>15. ASSUME NEW v \in Key PROVE (stack'[v] # <<>> => v \in known') /\ \E h : Heights(h, v)'
  <2>1. PICK h : h = [m \in 1..1 |-> 0]
    OBVIOUS
  <2>2. h \in [1..1 -> Nat] /\ h[1] = 0
    BY <2>1
  <2>3. Holds(v, h[1], Entry, 0)'
    <3>1. NoSite(Entry, 0, v)'
      BY <1>1, <1>2, NothingAboveEntry, FixedPoints
    <3> QED
      BY <2>2, <3>1 DEF Holds
  <2>4. PushedBefore(Entry, 1, v)' = PushedBefore(Entry, 1, v)
    BY <1>2, FixedPoints
  <2>5. Holds(v, Len(stack[v]), Frame.bb, Pos)'
    BY <1>6, <1>7, <1>11
  <2>6. Len(stack'[v]) = h[Len(frames')] + PushedBefore(Frame.bb, Pos, v)'
    <3>1. PushedBefore(Frame.bb, Pos, v)' = PushedBefore(Entry, 1, v)
      BY <1>6, <1>11, <2>4
    <3>2. h[Len(frames')] = 0
      BY <1>6, <2>2
    <3>3. PICK k \in Nat : k = Len(stack'[v])
      BY <1>7
    <3>4. PushedBefore(Frame.bb, Pos, v)' = k
      BY <1>7, <3>1, <3>3
    <3>5. 0 + k = k
      OBVIOUS
    <3> QED
      BY <3>2, <3>3, <3>4, <3>5
  <2>7. \A m \in 1..Len(frames') : m = 1
    BY <1>6
  <2>8. \A m \in 1..Len(frames') : Holds(v, h[m], frames[m].bb, 0)'
    BY <1>6, <2>3, <2>7
  <2>9. Heights(h, v)'
    BY <1>6, <2>2, <2>5, <2>6, <2>7, <2>8 DEF Heights
  <2> QED
    BY <1>3, <1>7, <2>9
<1>16. WalkInv'
  BY <1>10, <1>12, <1>13, <1>14, <1>15 DEF WalkInv, StackInv
<1> QED
  BY <1>1, <1>2, <1>3, <1>9, <1>16, WalkingKeeps DEF Walking, Done
LEMMA DescendInv ==
  ASSUME IInv, NEW c \in Block, Descend(c)
  PROVE  IInv'
<1>1. Walking /\ pc = "children" /\ pc' = "instr" /\ ~ Done
  BY DEF Descend, Enter, Walking, Done
<1>2. /\ ProgramInv /\ TypeInv /\ LatestInv /\ OperandInv /\ PhisClosed /\ WalkInv
      /\ Frame.bb \in Reachable(succ) /\ Frame.bb \in Block
      /\ \A v \in Key : stack[v] \in Seq(ConstOrPhi) /\ Len(stack[v]) \in Nat
  BY <1>1, WalkFacts
<1>3. PICK L \in Nat \ {0} : L = Len(frames)
  BY <1>1, WalkFacts
<1>4. PICK b \in Block : b = Frame.bb /\ b = frames[L].bb
  BY <1>2, <1>3 DEF Frame
<1>5. Fixed /\ Settled /\ UNCHANGED <<vals, W, F, var, runState, latest, operandsOf, erased>>
  BY DEF Descend, Fixed, Settled, phiState
<1>6. succ' = succ /\ code' = code /\ dom_tree_succ' = dom_tree_succ /\ phis' = phis
  BY <1>5 DEF Fixed, program
<1>7. /\ frames' = Append([frames EXCEPT ![L].left = @ \ {c}], [bb |-> c, left |-> dom_tree_succ[c]])
      /\ at' = 1 /\ c \in frames[L].left
      /\ known' = known \cup {v \in Key : <<c, v>> \in phis}
      /\ stack' = [v \in Key |-> IF v \in {w \in Key : <<c, w>> \in phis}
                                   THEN Append(stack[v], Phi(c, v)) ELSE stack[v]]
  BY <1>3 DEF Descend, Enter, Frame
<1>8. c \in dom_tree_succ[b] /\ c \in Reachable(succ)
  <2>1. L \in 1..Len(frames)
    BY <1>3
  <2>2. c \in dom_tree_succ[b]
    BY <1>2, <1>4, <1>7, <2>1 DEF WalkInv, PathInv
  <2> QED
    BY <1>2, <2>2, IntoChild
<1>9. dom_tree_succ[c] \subseteq Block /\ dom_tree_succ[c] \subseteq Reachable(succ)
  BY <1>2, GraphFacts DEF ProgramInv
<1>10. /\ frames' \in Seq([bb : Reachable(succ), left : SUBSET Block]) /\ Len(frames') = L + 1
       /\ \A m \in 1..L : /\ frames'[m].bb = frames[m].bb
                          /\ frames'[m].left = (IF m = L THEN frames[m].left \ {c} ELSE frames[m].left)
       /\ frames'[L + 1] = [bb |-> c, left |-> dom_tree_succ[c]]
  <2> DEFINE R == [bb : Reachable(succ), left : SUBSET Block]
  <2>1. PICK f, g, r : /\ f = frames /\ r = [bb |-> c, left |-> dom_tree_succ[c]]
                       /\ g = [frames EXCEPT ![L].left = @ \ {c}]
    OBVIOUS
  <2>2. r \in R
    BY <1>8, <1>9, <2>1
  <2>3. f \in Seq(R) /\ Len(f) = L
    BY <1>2, <1>3, <2>1 DEF TypeInv
  <2>4. \A m \in 1..L : f[m] \in R
    <3> HIDE DEF R
    <3> QED
      BY <2>3
  <2>5. DOMAIN f = 1..L
    <3> HIDE DEF R
    <3> QED
      BY <2>3
  <2>6. /\ DOMAIN g = 1..L
        /\ \A m \in 1..L : m # L => g[m] = f[m]
        /\ g[L] = [f[L] EXCEPT !.left = @ \ {c}]
    <3>1. g = [f EXCEPT ![L] = [f[L] EXCEPT !.left = @ \ {c}]]
      BY <2>1
    <3>2. L \in 1..L
      BY <1>3
    <3> QED
      BY <2>5, <3>1, <3>2
  <2>7. g[L] \in R /\ g[L].bb = f[L].bb /\ g[L].left = f[L].left \ {c}
    BY <2>4, <2>6
  <2>8. \A m \in 1..L : g[m] \in R
    <3> HIDE DEF R
    <3> QED
      BY <2>4, <2>6, <2>7
  <2>9. g \in Seq(R) /\ Len(g) = L
    <3> HIDE DEF R
    <3>1. g = [m \in 1..L |-> g[m]]
      BY <2>1, <2>6
    <3> QED
      BY <2>8, <3>1
  <2>10. frames' = Append(g, r)
    BY <1>7, <2>1
  <2>11. frames' \in Seq(R) /\ Len(frames') = L + 1 /\ frames'[L + 1] = r
         /\ \A m \in 1..L : frames'[m] = g[m]
    <3> HIDE DEF R
    <3> QED
      BY <2>2, <2>9, <2>10
  <2>12. \A m \in 1..L : /\ g[m].bb = f[m].bb
                         /\ g[m].left = (IF m = L THEN f[m].left \ {c} ELSE f[m].left)
    BY <2>6, <2>7
  <2> QED
    BY <2>1, <2>11, <2>12
<1>11. Frame'.bb = c /\ Frame' = frames'[L + 1] /\ Pos' = 1
  BY <1>1, <1>7, <1>10 DEF Frame, Pos
<1>12. Pos = End(b) /\ Filled(b) /\ Replaced(b, End(b))
  BY <1>1, <1>2, <1>4 DEF Pos, WalkInv, DoneInv
<1>13. \A d \in Block : /\ (Complete(d) => Complete(d)') /\ (Filled(d) => Filled(d)')
                        /\ \A i : Replaced(d, i) => Replaced(d, i)'
  BY <1>2, <1>5, DoneStays
<1>14. ASSUME NEW v \in Key
       PROVE  /\ Holds(v, Len(stack[v]), c, 0)
              /\ stack'[v] \in Seq(ConstOrPhi)
              /\ Len(stack'[v]) \in Nat /\ Len(stack'[v]) = Len(stack[v]) + PushedBefore(c, 1, v)
              /\ \A n \in 1..Len(stack[v]) : n \in 1..Len(stack'[v]) /\ stack'[v][n] = stack[v][n]
              /\ Holds(v, Len(stack[v]), c, 1)'
              /\ stack'[v] # <<>> => stack[v] # <<>> \/ <<c, v>> \in phis
  <2>1. Holds(v, Len(stack[v]), b, End(b))
    BY <1>2, <1>4, <1>12 DEF WalkInv, StackInv, Heights
  <2>2. Holds(v, Len(stack[v]), c, 0)
    BY <1>2, <1>8, <2>1, IntoChild, HoldsMoves
  <2>3. stack'[v] = (IF <<c, v>> \in phis THEN Append(stack[v], Phi(c, v)) ELSE stack[v])
    BY <1>7
  <2>4. stack[v] \in Seq(ConstOrPhi)
    BY <1>2
  <2> QED
    BY <1>2, <1>5, <2>2, <2>3, <2>4, Entered
<1>15. stack' \in [Key -> Seq(ConstOrPhi)]
  BY <1>7, <1>14
<1>16. ProgramInv' /\ TypeInv' /\ LatestInv' /\ OperandInv' /\ PhisClosed'
  BY <1>1, <1>2, <1>5, <1>10, <1>15, FunctionKeeps DEF TypeInv
<1>17. PathInv'
  <2>1. 1 \in 1..End(c)'
    BY <1>2, <1>5, GraphFacts, FixedPoints
  <2>2. \A m \in 1..(L + 1) : m \in 1..L \/ m = L + 1
    BY <1>3
  <2>3. \A m \in 1..L : frames[m].left \subseteq dom_tree_succ[frames[m].bb]
    BY <1>2, <1>3 DEF WalkInv, PathInv
  <2>4. \A m \in 1..(L + 1) : frames'[m].left \subseteq dom_tree_succ[frames'[m].bb]
    <3>1. ASSUME NEW m \in 1..L PROVE frames'[m].left \subseteq dom_tree_succ[frames'[m].bb]
      <4>1. frames'[m].left \subseteq frames[m].left /\ frames'[m].bb = frames[m].bb
        BY <1>10
      <4> QED
        BY <2>3, <4>1
    <3>2. frames'[L + 1].left \subseteq dom_tree_succ[frames'[L + 1].bb]
      BY <1>10
    <3> QED
      BY <2>2, <3>1, <3>2
  <2>5. ASSUME NEW m \in 1..L PROVE frames'[m + 1].bb \in dom_tree_succ[frames'[m].bb]
    <3>1. CASE m = L
      <4>1. frames'[m + 1].bb = c
        BY <1>10, <3>1
      <4>2. frames'[m].bb = b
        BY <1>4, <1>10, <3>1
      <4> QED
        BY <1>8, <4>1, <4>2
    <3>2. CASE m # L
      <4>1. m + 1 \in 1..L /\ m \in 1..(L - 1)
        BY <1>3, <3>2
      <4>2. frames[m + 1].bb \in dom_tree_succ[frames[m].bb]
        BY <1>2, <1>3, <4>1 DEF WalkInv, PathInv
      <4> QED
        BY <1>10, <4>1, <4>2
    <3> QED
      BY <3>1, <3>2
  <2>6. Len(frames') >= 1 /\ frames'[1].bb = Entry /\ Len(frames') - 1 = L
    <3>1. 1 \in 1..L /\ L + 1 >= 1 /\ (L + 1) - 1 = L
      BY <1>3
    <3>2. frames[1].bb = Entry
      BY <1>2 DEF WalkInv, PathInv
    <3> QED
      BY <1>10, <3>1, <3>2
  <2>7. at' \in 1..End(Frame.bb)'
    BY <1>7, <1>11, <2>1
  <2> QED
    BY <1>6, <1>10, <2>4, <2>5, <2>6, <2>7 DEF PathInv
<1>18. DoneInv'
  <2>1. Replaced(c, 1)'
    <3>1. \A k \in DOMAIN code[c] : ~ (k < 1)
      BY <1>2, GraphFacts
    <3> QED
      BY <1>6, <3>1 DEF Replaced
  <2>2. ASSUME NEW m \in 1..L PROVE Replaced(frames[m].bb, End(frames[m].bb)) /\ Filled(frames[m].bb)
    <3>1. CASE m = L
      BY <1>4, <1>12, <3>1
    <3>2. CASE m # L
      <4>1. m \in 1..(L - 1)
        BY <1>3, <3>2
      <4> QED
        BY <1>2, <1>3, <4>1 DEF WalkInv, DoneInv
    <3> QED
      BY <3>1, <3>2
  <2>3. ASSUME NEW m \in 1..L PROVE (Replaced(frames[m].bb, End(frames[m].bb)) /\ Filled(frames[m].bb))'
    <3>1. PICK d \in Block : d = frames[m].bb
      BY <1>1, <1>3, WalkFacts
    <3>2. PICK e : e = End(d)
      OBVIOUS
    <3>3. Replaced(d, e)' /\ Filled(d)' /\ End(d)' = e
      BY <1>5, <1>13, <2>2, <3>1, <3>2, FixedPoints
    <3> QED
      BY <1>10, <3>1, <3>3
  <2>4. Len(frames') - 1 = L
    BY <1>3, <1>10
  <2> QED
    BY <1>1, <1>11, <2>1, <2>3, <2>4 DEF DoneInv
<1>19. ASSUME NEW d \in Reachable(succ) PROVE Covered(d)'
  <2>1. Covered(d) /\ d \in Block
    BY <1>2, GraphFacts DEF WalkInv
  <2>2. L + 1 \in 1..Len(frames') /\ 1..Len(frames) \subseteq 1..Len(frames')
    BY <1>3, <1>10
  <2>3. CASE \E m \in 1..Len(frames) : frames[m].bb = d
    BY <1>3, <1>10, <2>2, <2>3 DEF Covered
  <2>4. CASE \E m \in 1..Len(frames) : \E e \in frames[m].left : Dominates(succ, e, d)
    <3>1. PICK m \in 1..Len(frames) : \E e \in frames[m].left : Dominates(succ, e, d)
      BY <2>4
    <3>2. PICK e \in frames[m].left : Dominates(succ, e, d)
      BY <3>1
    <3>3. CASE e \in frames'[m].left
      <4>1. m \in 1..Len(frames') /\ Dominates(succ', e, d)
        BY <1>6, <2>2, <3>2
      <4> QED
        BY <3>3, <4>1 DEF Covered
    <3>4. CASE e \notin frames'[m].left
      <4>1. e = c
        BY <1>3, <1>10, <3>4
      <4>2. CASE d = c
        BY <1>10, <2>2, <4>2 DEF Covered
      <4>3. CASE d # c
        <5>1. StrictlyDominates(succ, c, d)
          BY <3>2, <4>1, <4>3 DEF StrictlyDominates
        <5>2. PICK a \in Reachable(succ) \ {Entry} : IsImmediateDominator(succ, c, a) /\ Dominates(succ, a, d)
          BY <1>2, <5>1, ChildAbove, GraphFacts
        <5>3. a \in dom_tree_succ[c]
          BY <1>2, <5>2 DEF ProgramInv
        <5>4. a \in frames'[L + 1].left /\ Dominates(succ', a, d)
          BY <1>6, <1>10, <5>2, <5>3
        <5> QED
          BY <2>2, <5>4 DEF Covered
      <4> QED
        BY <4>2, <4>3
    <3> QED
      BY <3>3, <3>4
  <2>5. CASE Complete(d)
    BY <1>13, <2>1, <2>5 DEF Covered
  <2> QED
    BY <2>1, <2>3, <2>4, <2>5 DEF Covered
<1>20. ASSUME NEW v \in Key PROVE (stack'[v] # <<>> => v \in known') /\ \E h : Heights(h, v)'
  <2>1. PICK g : Heights(g, v)
    BY <1>2 DEF WalkInv, StackInv
  <2>2. PICK n \in Nat : n = Len(stack[v])
    BY <1>2
  <2>3. PICK h : h = [m \in 1..(L + 1) |-> IF m = L + 1 THEN n ELSE g[m]]
    OBVIOUS
  <2>4. \A m \in 1..L : g[m] \in Nat /\ g[m] <= n
    BY <1>1, <1>3, <2>1, <2>2, HeightsBelow
  <2>5. h[L + 1] = n /\ L + 1 \in 1..(L + 1) /\ \A m \in 1..L : h[m] = g[m] /\ m # L + 1 /\ m \in 1..(L + 1)
    BY <1>3, <2>3
  <2>6. \A m \in 1..(L + 1) : m \in 1..L \/ m = L + 1
    BY <1>3
  <2>7. h \in [1..Len(frames') -> Nat] /\ h[1] = 0
    <3>1. h[1] = 0
      BY <1>3, <2>1, <2>5 DEF Heights
    <3> QED
      BY <1>10, <2>3, <2>4, <2>5, <2>6, <3>1
  <2>8. ASSUME NEW m \in 1..Len(frames') PROVE Holds(v, h[m], frames[m].bb, 0)'
    <3>1. CASE m = L + 1
      <4>1. Holds(v, n, c, 0)
        BY <1>14, <2>2
      <4>2. n # 0 => n \in 1..Len(stack'[v]) /\ stack'[v][n] = stack[v][n]
        <5>1. n # 0 => n \in 1..Len(stack[v])
          BY <2>2
        <5> QED
          BY <1>14, <5>1
      <4>3. Holds(v, n, c, 0)'
        BY <1>2, <1>5, <4>1, <4>2, HoldsStays
      <4> QED
        BY <1>10, <2>5, <3>1, <4>3
    <3>2. CASE m \in 1..L
      <4>1. Holds(v, g[m], frames[m].bb, 0)
        BY <1>3, <2>1, <3>2 DEF Heights
      <4>2. PICK d, k : d = frames[m].bb /\ k = g[m]
        OBVIOUS
      <4>3. k # 0 => k \in 1..Len(stack[v])
        BY <2>2, <2>4, <3>2, <4>2
      <4>4. k # 0 => k \in 1..Len(stack'[v]) /\ stack'[v][k] = stack[v][k]
        BY <1>14, <4>3
      <4>5. Holds(v, k, d, 0)'
        BY <1>2, <1>5, <4>1, <4>2, <4>4, HoldsStays
      <4> QED
        BY <1>10, <2>5, <3>2, <4>2, <4>5
    <3> QED
      BY <1>10, <2>6, <3>1, <3>2
  <2>9. ASSUME NEW m \in 1..L PROVE h[m + 1] = h[m] + Pushed(frames[m].bb, v)'
    <3>1. PICK d \in Block : d = frames[m].bb /\ frames'[m].bb = d
      BY <1>1, <1>3, <1>10, WalkFacts
    <3>2. Pushed(d, v)' = Pushed(d, v)
      BY <1>5, FixedPoints
    <3>3. CASE m = L
      <4>1. n = g[L] + PushedBefore(b, End(b), v)
        BY <1>3, <1>4, <1>12, <2>1, <2>2 DEF Heights
      <4>2. PushedBefore(b, End(b), v) = Pushed(b, v)
        BY <1>2, PushedCount
      <4> QED
        BY <1>4, <2>5, <3>1, <3>2, <3>3, <4>1, <4>2
    <3>4. CASE m # L
      <4>1. m \in 1..(L - 1) /\ m + 1 \in 1..L
        BY <1>3, <3>4
      <4>2. g[m + 1] = g[m] + Pushed(d, v)
        BY <1>3, <2>1, <3>1, <4>1 DEF Heights
      <4> QED
        BY <2>5, <3>1, <3>2, <4>1, <4>2
    <3> QED
      BY <3>3, <3>4
  <2>10. ASSUME NEW m \in 1..Len(frames'), NEW k \in 1..Len(frames'), m <= k PROVE h[m] <= h[k]
    <3>1. CASE k = L + 1
      BY <1>10, <2>4, <2>5, <2>6, <3>1
    <3>2. CASE k # L + 1
      <4>1. m \in 1..L /\ k \in 1..L
        BY <1>3, <1>10, <2>10, <3>2
      <4>2. g[m] <= g[k]
        BY <1>3, <2>1, <2>10, <4>1 DEF Heights
      <4> QED
        BY <2>5, <4>1, <4>2
    <3> QED
      BY <3>1, <3>2
  <2>11. Len(stack'[v]) = h[Len(frames')] + PushedBefore(Frame.bb, Pos, v)'
    <3>1. PushedBefore(c, 1, v)' = PushedBefore(c, 1, v)
      BY <1>5, FixedPoints
    <3> QED
      BY <1>10, <1>11, <1>14, <2>2, <2>5, <3>1
  <2>12. Holds(v, Len(stack[v]), Frame.bb, Pos)'
    BY <1>11, <1>14
  <2>13. Len(frames') - 1 = L
    BY <1>3, <1>10
  <2>14. Heights(h, v)'
    BY <2>7, <2>8, <2>9, <2>10, <2>11, <2>12, <2>13 DEF Heights
  <2>15. stack[v] # <<>> => v \in known
    BY <1>2 DEF WalkInv, StackInv
  <2> QED
    BY <1>7, <1>14, <2>14, <2>15
<1>21. WalkInv'
  BY <1>6, <1>17, <1>18, <1>19, <1>20 DEF WalkInv, StackInv
<1> QED
  BY <1>1, <1>5, <1>16, <1>21, WalkingKeeps DEF Walking
\* The block takes off what it pushed: the stack is as high as when it was entered.
LEMMA LeaveInv ==
  ASSUME IInv, Leave
  PROVE  IInv'
<1>1. Walking /\ pc = "children" /\ ~ Done /\ Frame.left = {}
  BY DEF Leave, Walking, Done
<1>2. /\ ProgramInv /\ TypeInv /\ LatestInv /\ OperandInv /\ PhisClosed /\ WalkInv
      /\ Frame.bb \in Reachable(succ) /\ Frame.bb \in Block
      /\ \A v \in Key : stack[v] \in Seq(ConstOrPhi) /\ Len(stack[v]) \in Nat
  BY <1>1, WalkFacts
<1>3. PICK L \in Nat \ {0} : L = Len(frames)
  BY <1>1, WalkFacts
<1>4. PICK b \in Block : b = Frame.bb /\ b = frames[L].bb
  BY <1>2, <1>3 DEF Frame
<1>5. Fixed /\ Settled /\ UNCHANGED <<vals, W, F, var, runState, latest, operandsOf, known>>
  BY DEF Leave, Fixed, Settled, phiState
<1>6. succ' = succ /\ code' = code /\ dom_tree_succ' = dom_tree_succ /\ phis' = phis
  BY <1>5 DEF Fixed, program
<1>7. /\ frames' = SubSeq(frames, 1, L - 1)
      /\ stack' = [v \in Key |-> SubSeq(stack[v], 1, Len(stack[v]) - Pushed(b, v))]
      /\ erased' = erased \cup {s \in Site : s[1] = b /\ (Instr(s).op = "store" \/ latest[s] # LoadOf(s))}
      /\ pc' = IF L = 1 THEN "enter" ELSE "children"
  BY <1>3, <1>4 DEF Leave
<1>8. /\ frames' \in Seq([bb : Reachable(succ), left : SUBSET Block]) /\ Len(frames') = L - 1
      /\ \A m \in 1..(L - 1) : frames'[m] = frames[m]
  <2> DEFINE R == [bb : Reachable(succ), left : SUBSET Block]
  <2>1. frames \in Seq(R)
    BY <1>2 DEF TypeInv
  <2> HIDE DEF R
  <2>2. \A m \in 1..L : frames[m] \in R
    BY <1>3, <2>1
  <2>3. frames' = [m \in 1..(L - 1) |-> frames[m]]
    BY <1>3, <1>7, <2>1
  <2>4. \A m \in 1..(L - 1) : frames'[m] \in R /\ frames'[m] = frames[m]
    BY <1>3, <2>2, <2>3
  <2>5. frames' \in Seq(R) /\ Len(frames') = L - 1
    BY <1>3, <2>3, <2>4
  <2> QED
    BY <2>4, <2>5 DEF R
<1>9. Pos = End(b) /\ Filled(b) /\ Replaced(b, End(b))
  BY <1>1, <1>2, <1>4 DEF Pos, WalkInv, DoneInv
<1>10. \A d \in Block : /\ (Complete(d) => Complete(d)') /\ (Filled(d) => Filled(d)')
                        /\ \A i : Replaced(d, i) => Replaced(d, i)'
  BY <1>2, <1>5, <1>7, DoneStays
<1>11. Complete(b)'
  <2>1. PICK e : e = End(b)
    OBVIOUS
  <2>2. Replaced(b, e)' /\ Filled(b)' /\ End(b)' = e
    BY <1>5, <1>9, <1>10, <2>1, FixedPoints
  <2>3. ASSUME NEW k \in DOMAIN code[b], code[b][k].op = "load" PROVE <<b, k>> \in erased'
    <3>1. <<b, k>> \in Site
      BY <2>3, LoadSite
    <3>2. k < End(b)
      BY <1>2, GraphFacts DEF End
    <3>3. latest[<<b, k>>] # LoadOf(<<b, k>>)
      BY <1>9, <2>3, <3>2 DEF Replaced
    <3> QED
      BY <1>7, <3>1, <3>3
  <2> QED
    BY <1>6, <2>2, <2>3 DEF Complete
<1>12. ASSUME NEW v \in Key, NEW g, Heights(g, v)
       PROVE  /\ g[L] \in Nat /\ g[L] <= Len(stack[v])
              /\ stack'[v] \in Seq(ConstOrPhi) /\ Len(stack'[v]) = g[L]
              /\ \A n \in 1..g[L] : stack'[v][n] = stack[v][n]
  <2>1. g[L] \in Nat /\ g[L] <= Len(stack[v])
    BY <1>1, <1>3, <1>12, HeightsBelow
  <2>2. Len(stack[v]) = g[L] + Pushed(b, v)
    <3>1. Len(stack[v]) = g[L] + PushedBefore(b, End(b), v)
      BY <1>3, <1>4, <1>9, <1>12 DEF Heights
    <3> QED
      BY <1>2, <3>1, PushedCount
  <2>3. Len(stack[v]) - Pushed(b, v) = g[L]
    <3>1. PICK n \in Nat, k \in Nat : n = g[L] /\ k = Pushed(b, v)
      BY <1>2, <2>1, PushedCount
    <3>2. (n + k) - k = n
      OBVIOUS
    <3> QED
      BY <2>2, <3>1, <3>2
  <2>4. stack'[v] = SubSeq(stack[v], 1, g[L])
    BY <1>7, <2>3
  <2>5. PICK s, n : s = stack[v] /\ n = g[L] /\ n \in 0..Len(s) /\ s \in Seq(ConstOrPhi)
    BY <1>2, <2>1
  <2>6. SubSeq(s, 1, n) \in Seq(ConstOrPhi) /\ Len(SubSeq(s, 1, n)) = n
        /\ \A m \in 1..n : SubSeq(s, 1, n)[m] = s[m]
    BY <2>5
  <2> QED
    BY <2>1, <2>4, <2>5, <2>6
<1>13. stack' \in [Key -> Seq(ConstOrPhi)]
  <2>1. ASSUME NEW v \in Key PROVE stack'[v] \in Seq(ConstOrPhi)
    <3>1. PICK g : Heights(g, v)
      BY <1>2 DEF WalkInv, StackInv
    <3> QED
      BY <1>12, <3>1
  <2> QED
    BY <1>7, <2>1
<1>14. erased' \subseteq Site
  BY <1>2, <1>7 DEF TypeInv
<1>15. ProgramInv' /\ TypeInv' /\ LatestInv' /\ OperandInv' /\ PhisClosed'
  BY <1>2, <1>5, <1>7, <1>8, <1>13, <1>14, FunctionKeeps DEF TypeInv
<1>16. ASSUME NEW d \in Reachable(succ)
       PROVE  \/ \E m \in 1..(L - 1) : frames[m].bb = d
              \/ \E m \in 1..(L - 1) : \E e \in frames[m].left : Dominates(succ, e, d)
              \/ Complete(d)'
  <2>1. Covered(d) /\ d \in Block
    BY <1>2, GraphFacts DEF WalkInv
  <2>2. \A m \in 1..L : m \in 1..(L - 1) \/ m = L
    BY <1>3
  <2>3. frames[L].left = {}
    BY <1>1, <1>3 DEF Frame
  <2> QED
    BY <1>3, <1>4, <1>10, <1>11, <2>1, <2>2, <2>3 DEF Covered
<1>17. CASE L = 1
  <2>1. \A d \in Reachable(succ) : Complete(d)'
    BY <1>16, <1>17
  <2>2. pc' = "enter"
    BY <1>7, <1>17
  <2>3. RunInv'
    <3>1. RunInv /\ Done'
      BY <2>2 DEF IInv, Done
    <3> QED
      BY <1>1, <1>5, <1>6, <2>1, <2>2, <3>1, FixedSets DEF RunInv, runState
  <2> QED
    BY <1>15, <2>2, <2>3 DEF IInv
<1>18. CASE L # 1
  <2>1. L - 1 \in Nat \ {0} /\ L - 1 \in 1..L /\ pc' = "children" /\ Walking'
    BY <1>3, <1>7, <1>18 DEF Walking
  <2>2. \A m \in 1..(L - 1) : m \in 1..L
    BY <1>3
  <2>3. PICK a \in Block : a = frames[L - 1].bb /\ a = Frame'.bb
    BY <1>1, <1>3, <1>8, <2>1, WalkFacts DEF Frame
  <2>4. Pos' = End(a)
    <3>1. End(a)' = End(a)
      BY <1>5, FixedPoints
    <3> QED
      BY <2>1, <2>3, <3>1 DEF Pos
  <2>5. b \in dom_tree_succ[a]
    <3>1. frames[(L - 1) + 1].bb \in dom_tree_succ[frames[L - 1].bb] /\ (L - 1) + 1 = L
      BY <1>2, <1>3, <2>1 DEF WalkInv, PathInv
    <3> QED
      BY <1>4, <2>3, <3>1
  <2>6. PathInv'
    <3>1. Len(frames') >= 1
      BY <1>8, <2>1
    <3>2. frames'[1].bb = Entry
      BY <1>2, <1>8, <2>1 DEF WalkInv, PathInv
    <3>3. \A m \in 1..(L - 1) : frames'[m].left \subseteq dom_tree_succ[frames'[m].bb]
      BY <1>2, <1>3, <1>8, <2>2 DEF WalkInv, PathInv
    <3>4. ASSUME NEW m \in 1..((L - 1) - 1) PROVE frames'[m + 1].bb \in dom_tree_succ[frames'[m].bb]
      <4>1. m \in 1..(L - 1) /\ m + 1 \in 1..(L - 1)
        BY <1>3
      <4>2. frames[m + 1].bb \in dom_tree_succ[frames[m].bb]
        BY <1>2, <1>3, <4>1 DEF WalkInv, PathInv
      <4> QED
        BY <1>8, <4>1, <4>2
    <3> QED
      BY <1>6, <1>8, <2>1, <3>1, <3>2, <3>3, <3>4 DEF PathInv
  <2>7. ASSUME NEW m \in 1..(L - 1) PROVE (Replaced(frames[m].bb, End(frames[m].bb)) /\ Filled(frames[m].bb))'
    <3>1. PICK d \in Block : d = frames[m].bb
      BY <1>1, <1>3, <2>2, WalkFacts
    <3>2. PICK e : e = End(d)
      OBVIOUS
    <3>3. Replaced(d, e) /\ Filled(d)
      BY <1>2, <1>3, <3>1, <3>2 DEF WalkInv, DoneInv
    <3>4. Replaced(d, e)' /\ Filled(d)' /\ End(d)' = e
      BY <1>5, <1>10, <3>2, <3>3, FixedPoints
    <3> QED
      BY <1>8, <3>1, <3>4
  <2>8. DoneInv'
    <3>1. \A m \in 1..((L - 1) - 1) : m \in 1..(L - 1)
      BY <1>3
    <3>2. (Replaced(Frame.bb, Pos) /\ Filled(Frame.bb))'
      <4>1. L - 1 \in 1..(L - 1)
        BY <2>1
      <4>2. (Replaced(frames[L - 1].bb, End(frames[L - 1].bb)) /\ Filled(frames[L - 1].bb))'
        BY <2>7, <4>1
      <4>3. Frame' = frames'[L - 1] /\ Pos' = End(frames[L - 1].bb)'
        BY <1>8, <2>1, <2>3 DEF Frame, Pos
      <4> QED
        BY <4>2, <4>3
    <3> QED
      BY <1>8, <2>7, <3>1, <3>2 DEF DoneInv
  <2>9. ASSUME NEW d \in Reachable(succ) PROVE Covered(d)'
    BY <1>6, <1>8, <1>16 DEF Covered
  <2>10. ASSUME NEW v \in Key PROVE (stack'[v] # <<>> => v \in known') /\ \E h : Heights(h, v)'
    <3>1. PICK g : Heights(g, v)
      BY <1>2 DEF WalkInv, StackInv
    <3>2. PICK h : h = [m \in 1..(L - 1) |-> g[m]]
      OBVIOUS
    <3>3. \A m \in 1..L : g[m] \in Nat /\ g[m] <= g[L]
      BY <1>1, <1>3, <3>1, HeightsBelow
    <3>4. \A m \in 1..(L - 1) : h[m] = g[m]
      BY <3>2
    <3>5. PICK n \in Nat : n = g[L] /\ n = Len(stack'[v])
      BY <1>12, <3>1
    <3>6. \A k : k # 0 /\ k \in Nat /\ k <= n => k \in 1..Len(stack'[v]) /\ stack'[v][k] = stack[v][k]
      BY <1>12, <3>1, <3>5
    <3>7. h \in [1..Len(frames') -> Nat] /\ h[1] = 0
      <4>1. h[1] = 0
        BY <2>1, <3>1, <3>4 DEF Heights
      <4> QED
        BY <1>8, <2>2, <3>2, <3>3, <3>4, <4>1
    <3>8. ASSUME NEW m \in 1..L, NEW d, d = frames[m].bb, NEW k, k = g[m] PROVE Holds(v, k, d, 0)'
      <4>1. Holds(v, k, d, 0)
        BY <1>3, <3>1, <3>8 DEF Heights
      <4>2. k # 0 => k \in 1..Len(stack'[v]) /\ stack'[v][k] = stack[v][k]
        BY <3>3, <3>5, <3>6, <3>8
      <4> QED
        BY <1>2, <1>5, <4>1, <4>2, HoldsStays
    <3>9. ASSUME NEW m \in 1..Len(frames') PROVE Holds(v, h[m], frames[m].bb, 0)'
      <4>1. m \in 1..(L - 1) /\ m \in 1..L
        BY <1>8, <2>2
      <4>2. PICK d, k : d = frames[m].bb /\ k = g[m]
        OBVIOUS
      <4>3. Holds(v, k, d, 0)'
        BY <3>8, <4>1, <4>2
      <4> QED
        BY <1>8, <3>4, <4>1, <4>2, <4>3
    <3>10. ASSUME NEW m \in 1..((L - 1) - 1) PROVE h[m + 1] = h[m] + Pushed(frames[m].bb, v)'
      <4>1. m \in 1..(L - 1) /\ m + 1 \in 1..(L - 1)
        BY <1>3
      <4>2. g[m + 1] = g[m] + Pushed(frames[m].bb, v)
        BY <1>3, <3>1, <4>1 DEF Heights
      <4> QED
        BY <1>5, <1>8, <3>4, <4>1, <4>2, FixedPoints
    <3>11. ASSUME NEW m \in 1..Len(frames'), NEW k \in 1..Len(frames'), m <= k PROVE h[m] <= h[k]
      <4>1. m \in 1..L /\ k \in 1..L /\ m \in 1..(L - 1) /\ k \in 1..(L - 1)
        BY <1>8, <2>2
      <4>2. g[m] <= g[k]
        BY <1>3, <3>1, <3>11, <4>1 DEF Heights
      <4> QED
        BY <3>4, <4>1, <4>2
    <3>12. Len(stack'[v]) = h[Len(frames')] + PushedBefore(Frame.bb, Pos, v)'
      <4>1. PICK k : k = L - 1 /\ k \in 1..(L - 1) /\ k + 1 = L
        BY <2>1
      <4>2. g[k + 1] = g[k] + Pushed(frames[k].bb, v)
        BY <1>3, <3>1, <4>1 DEF Heights
      <4>3. g[L] = h[L - 1] + Pushed(a, v)
        BY <2>3, <3>4, <4>1, <4>2
      <4>4. PushedBefore(Frame.bb, Pos, v)' = Pushed(a, v)
        <5>1. PICK e : e = End(a)
          OBVIOUS
        <5>2. PushedBefore(a, e, v)' = PushedBefore(a, e, v)
          BY <1>5, FixedPoints
        <5>3. PushedBefore(a, e, v) = Pushed(a, v)
          BY <1>2, <5>1, PushedCount
        <5> QED
          BY <2>3, <2>4, <5>1, <5>2, <5>3
      <4> QED
        BY <1>8, <3>5, <4>3, <4>4
    <3>13. Holds(v, Len(stack[v]), Frame.bb, Pos)'
      <4>1. Holds(v, n, b, 0)
        <5>1. L \in 1..Len(frames)
          BY <1>3
        <5> QED
          BY <1>4, <3>1, <3>5, <5>1 DEF Heights
      <4>2. PICK e : e = End(a)
        OBVIOUS
      <4>3. Holds(v, n, a, e)
        BY <1>2, <2>5, <4>1, <4>2, IntoChild, HoldsMoves
      <4>4. n # 0 => n \in 1..Len(stack'[v]) /\ stack'[v][n] = stack[v][n]
        BY <3>6
      <4>5. Holds(v, n, a, e)'
        BY <1>2, <1>5, <4>3, <4>4, HoldsStays
      <4> QED
        BY <2>3, <2>4, <3>5, <4>2, <4>5
    <3>14. Heights(h, v)'
      BY <1>8, <3>7, <3>9, <3>10, <3>11, <3>12, <3>13 DEF Heights
    <3>15. stack'[v] # <<>> => stack[v] # <<>>
      <4>1. ASSUME stack[v] = <<>> PROVE stack'[v] = <<>>
        <5>1. Len(stack'[v]) = 0
          BY <1>12, <3>1, <3>5, <4>1
        <5> QED
          BY <1>13, <5>1
      <4> QED
        BY <4>1
    <3>16. stack[v] # <<>> => v \in known
      BY <1>2 DEF WalkInv, StackInv
    <3> QED
      BY <1>5, <3>14, <3>15, <3>16
  <2>11. WalkInv'
    BY <1>6, <2>6, <2>8, <2>9, <2>10 DEF WalkInv, StackInv
  <2> QED
    BY <1>1, <1>5, <1>15, <2>1, <2>11, WalkingKeeps
<1> QED
  BY <1>17, <1>18
----------------------------------------------------------------------------
(* The steps of the two runs. *)

LEMMA RunFacts ==
  ASSUME IInv, Done
  PROVE  /\ ProgramInv /\ TypeInv /\ LatestInv /\ OperandInv /\ PhisClosed /\ RunInv
         /\ block \in Reachable(succ) /\ block \in Block
         /\ \A b \in Reachable(succ) : Complete(b) /\ b \in Block
<1>1. ProgramInv /\ TypeInv /\ LatestInv /\ OperandInv /\ PhisClosed /\ RunInv
  BY DEF IInv, Done
<1> QED
  BY <1>1, GraphFacts DEF RunInv

LEMMA RunningKeeps ==
  ASSUME IInv, Done, Done', UNCHANGED <<program, phiState, renameState>>, RunInv'
  PROVE  IInv'
<1>1. Fixed /\ Settled /\ UNCHANGED <<vals, W, F, var, frames, stack, latest, operandsOf, erased>>
  BY DEF Fixed, Settled, program, phiState, renameState
<1>2. ProgramInv' /\ TypeInv' /\ LatestInv' /\ OperandInv' /\ PhisClosed'
  <2>1. pc' \in {"place", "instr", "children", "enter", "run"}
    BY DEF Done
  <2> QED
    BY <1>1, <2>1, RunFacts, FunctionKeeps DEF TypeInv
<1> QED
  BY <1>2 DEF IInv, Done

\* The values that the pass has left are constants and phis that are above.
LEMMA RunValue ==
  ASSUME IInv, Done, NEW b \in Reachable(succ), NEW i, NEW v \in Key,
         NEW d \in Block, NEW j \in Nat, TopSite(b, i, v, d, j)
  PROVE  d \in Reachable(succ) /\ Good(SiteVal(d, j, v), d)
<1>1. ProgramInv /\ LatestInv
  BY RunFacts
<1>2. d \in Reachable(succ)
  BY <1>1, DominatorReachable, GraphFacts DEF TopSite, Before
<1>3. IsDef(d, j, v) /\ j < End(d) /\ End(d) \in Nat
  BY <1>1, DefPoint, GraphFacts DEF TopSite
<1>4. Replaced(d, End(d))
  BY <1>2, RunFacts DEF Complete
<1>5. Replaced(d, j)
  BY <1>1, <1>3, <1>4, GraphFacts DEF Replaced
<1> QED
  BY <1>1, <1>2, <1>3, <1>5, SiteGood

\* A phi has the value it took, a constant is the same for ever.
LEMMA EvalOf ==
  /\ \A b, v : Eval(Phi(b, v)) = result[<<b, v>>]
  /\ \A s : Eval(Const(s)) = <<s[1], s[2]>>
BY DEF Eval, Phi, Const

LEMMA EvalStays ==
  ASSUME code' = code, NEW x \in ConstOrPhi,
         \A b \in Block, v \in Key : x = Phi(b, v) => result'[<<b, v>>] = result[<<b, v>>]
  PROVE  Eval(x)' = Eval(x)
<1>1. CASE \E s \in Site : x = Const(s)
  <2>1. PICK s \in Site : x = Const(s)
    BY <1>1
  <2>2. x[1] = "const"
    BY <2>1 DEF Const
  <2> QED
    BY <2>2 DEF Eval
<1>2. CASE \E b \in Block, v \in Key : x = Phi(b, v)
  <2>1. PICK b \in Block, v \in Key : x = Phi(b, v)
    BY <1>2
  <2>2. x[1] = "phi" /\ x[2] = b /\ x[3] = v
    BY <2>1 DEF Phi
  <2> QED
    BY <2>1, <2>2 DEF Eval
<1> QED
  BY <1>1, <1>2 DEF ConstOrPhi

\* The phis of a block have the values their variables have in memory.
LEMMA RunPhisInv ==
  ASSUME IInv, RunPhis
  PROVE  IInv'
<1>1. pc = "enter" /\ pc' = "run" /\ Done /\ Done' /\ next' = 1
  BY DEF RunPhis, Done
<1>2. UNCHANGED <<program, phiState, renameState, block, prev, mem, newMem, loaded>>
  BY DEF RunPhis
<1>3. /\ succ' = succ /\ code' = code /\ phis' = phis /\ latest' = latest /\ mem' = mem /\ Fixed /\ Settled
      /\ block' = block /\ loaded' = loaded
  BY <1>2 DEF program, phiState, renameState, Fixed, Settled
<1>4. /\ ProgramInv /\ TypeInv /\ LatestInv /\ OperandInv /\ PhisClosed /\ RunInv
      /\ block \in Reachable(succ) /\ block \in Block
      /\ \A b \in Reachable(succ) : Complete(b) /\ b \in Block
  BY <1>1, RunFacts
<1>5. /\ DOMAIN result' = Block \X Key
      /\ \A p \in Block \X Key : result'[p] =
           (IF p \in phis /\ p[1] = block
              THEN IF \E o \in operandsOf[p] : o[2] = prev
                     THEN Eval((CHOOSE o \in operandsOf[p] : o[2] = prev)[1])
                     ELSE Undefined
              ELSE result[p])
  BY <1>4 DEF RunPhis, RunInv
<1>6. ASSUME NEW v \in Var, mem[v] # Undefined
      PROVE  /\ \A d \in Block, j \in Nat : TopSite(block, 1, v, d, j) => Eval(SiteVal(d, j, v))' = mem[v]
             /\ Many(v) => \E d \in Block, j \in Nat : TopSite(block, 1, v, d, j)
  <2>1. prev \in Reachable(succ) /\ block \in Succs(succ, prev) /\ Agree(prev, End(prev)) /\ prev \in Block
    BY <1>1, <1>4, <1>6 DEF RunInv
  <2>2. v \in Key
    BY DEF Key
  <2>3. CASE <<block, v>> \in phis
    <3>1. Many(v) /\ TopSite(block, 1, v, block, 0)
      BY <1>4, <2>3, AfterPhi DEF PhisClosed
    <3>2. PICK d \in Block, j \in Nat : TopSite(prev, End(prev), v, d, j)
      BY <1>6, <2>1, <3>1 DEF Agree
    <3>3. Eval(SiteVal(d, j, v)) = mem[v]
      BY <1>6, <2>1, <3>2 DEF Agree
    <3>4. <<SiteVal(d, j, v), prev>> \in operandsOf[<<block, v>>]
      BY <1>4, <2>1, <2>2, <2>3, <3>2 DEF Complete, Filled
    <3>5. ASSUME NEW o \in operandsOf[<<block, v>>], o[2] = prev PROVE Eval(o[1]) = mem[v]
      <4>1. <<block, v>> \in Block \X Key /\ <<block, v>>[2] = v
        BY <1>4, <2>2
      <4>2. OperandRight(<<block, v>>, o)
        BY <1>4, <4>1 DEF OperandInv
      <4>3. PICK e \in Block, k \in Nat : TopSite(prev, End(prev), v, e, k) /\ o[1] = SiteVal(e, k, v)
        BY <3>5, <4>1, <4>2 DEF OperandRight
      <4>4. e = d /\ k = j
        BY <1>4, <2>1, <3>2, <4>3, TopUnique
      <4> QED
        BY <3>3, <4>3, <4>4
    <3>6. result'[<<block, v>>] = mem[v]
      <4>1. \E o \in operandsOf[<<block, v>>] : o[2] = prev
        BY <3>4
      <4>2. PICK o : o = CHOOSE q \in operandsOf[<<block, v>>] : q[2] = prev
        OBVIOUS
      <4>3. o \in operandsOf[<<block, v>>] /\ o[2] = prev
        BY <4>1, <4>2
      <4>4. result'[<<block, v>>] = Eval(o[1])
        BY <1>4, <1>5, <2>2, <2>3, <4>1, <4>2
      <4> QED
        BY <3>5, <4>3, <4>4
    <3>7. ASSUME NEW e \in Block, NEW k \in Nat, TopSite(block, 1, v, e, k) PROVE Eval(SiteVal(e, k, v))' = mem[v]
      <4>1. e = block /\ k = 0
        BY <1>4, <3>1, <3>7, TopUnique
      <4>2. PICK x : x = Phi(block, v)
        OBVIOUS
      <4>3. SiteVal(e, k, v)' = x
        BY <4>1, <4>2 DEF SiteVal, Phi
      <4>4. Eval(x)' = result'[<<block, v>>]
        BY <4>2 DEF Eval, Phi
      <4> QED
        BY <3>6, <4>3, <4>4
    <3> QED
      BY <1>4, <3>1, <3>7
  <2>4. CASE <<block, v>> \notin phis
    <3>1. ASSUME NEW d \in Block, NEW j \in Nat, TopSite(block, 1, v, d, j) PROVE Eval(SiteVal(d, j, v))' = mem[v]
      <4>1. TopSite(prev, End(prev), v, d, j)
        BY <1>4, <2>1, <2>4, <3>1, NoPhiSame
      <4>2. Eval(SiteVal(d, j, v)) = mem[v]
        BY <1>6, <2>1, <4>1 DEF Agree
      <4>3. d \in Reachable(succ) /\ Good(SiteVal(d, j, v), d)
        BY <1>1, <1>4, <2>2, <3>1, RunValue
      <4>4. PICK x : x = SiteVal(d, j, v)
        OBVIOUS
      <4>5. x \in ConstOrPhi /\ Dominates(succ, x[2], d)
        BY <4>3, <4>4 DEF Good
      <4>6. d # block
        <5>1. d = block => j = 0
          BY <3>1 DEF TopSite, Before
        <5> QED
          BY <1>4, <2>4, <3>1, <5>1, GraphFacts DEF TopSite, IsDef
      <4>7. x[2] # block
        <5>1. Dominates(succ, d, block)
          BY <3>1 DEF TopSite, Before
        <5> QED
          BY <1>4, <4>3, <4>5, <4>6, <5>1, DominatesAntisymmetric, GraphFacts
      <4>8. \A b \in Block, w \in Key : x = Phi(b, w) => result'[<<b, w>>] = result[<<b, w>>]
        BY <1>5, <4>7 DEF Phi
      <4>9. Eval(x)' = Eval(x)
        BY <1>3, <4>5, <4>8, EvalStays
      <4>10. SiteVal(d, j, v)' = x
        BY <1>3, <4>4 DEF SiteVal, Stored, Instr, Const, Phi
      <4> QED
        BY <4>2, <4>4, <4>9, <4>10
    <3>2. ASSUME Many(v) PROVE \E d \in Block, j \in Nat : TopSite(block, 1, v, d, j)
      <4>1. PICK d \in Block, j \in Nat : TopSite(prev, End(prev), v, d, j)
        BY <1>6, <2>1, <3>2 DEF Agree
      <4> QED
        BY <1>4, <2>1, <2>4, <3>2, <4>1, NoPhiSame
    <3> QED
      BY <3>1, <3>2
  <2> QED
    BY <2>3, <2>4
<1>7. Agree(block, next)'
  <2>1. \A v : Many(v)' <=> Many(v)
    BY <1>3, FixedProgram
  <2> QED
    BY <1>1, <1>3, <1>6, <2>1, FixedPoints DEF Agree
<1>8. RunInv'
  <2>1. 1 \in 1..End(block) /\ \A k \in DOMAIN code[block] : ~ (k < 1)
    BY <1>4, GraphFacts
  <2>2. Loads' = Loads /\ End(block)' = End(block)
    BY <1>3, FixedSets, FixedPoints
  <2>3. \A b \in Reachable(succ) : Complete(b)'
    BY <1>2, <1>3, <1>4, DoneStays DEF renameState
  <2> QED
    BY <1>1, <1>3, <1>4, <1>5, <1>7, <2>1, <2>2, <2>3 DEF RunInv
<1> QED
  BY <1>1, <1>2, <1>8, RunningKeeps

\* While control is in a block, what the new function computes stays.
LEMMA InBlockFacts ==
  ASSUME IInv, AtInstr
  PROVE  /\ Done /\ next \in DOMAIN code[block] /\ next \in Nat \ {0} /\ next + 1 \in 1..End(block)
         /\ Agree(block, next) /\ code[block][next] \in Access /\ Instr(Now) = code[block][next]
         /\ code[block][next].var \in Var /\ code[block][next].var \in Key
         /\ DOMAIN code[block] = 1..Len(code[block])
<1>1. Done /\ next \in DOMAIN code[block]
  BY DEF AtInstr, Done
<1>2. block \in Block /\ RunInv /\ ProgramInv
  BY <1>1, RunFacts
<1>3. code[block] \in Seq(Access) /\ DOMAIN code[block] = 1..Len(code[block]) /\ Len(code[block]) \in Nat
  BY <1>2, GraphFacts DEF ProgramInv
<1>4. code[block][next] \in Access
  BY <1>1, <1>3
<1>5. code[block][next].var \in Var /\ code[block][next].var \in Key
  BY <1>4 DEF Access, Key
<1> QED
  BY <1>1, <1>2, <1>3, <1>4, <1>5 DEF RunInv, AtInstr, Instr, Now, End
LEMMA RunStoreInv ==
  ASSUME IInv, RunStore
  PROVE  IInv'
<1>1. /\ AtInstr /\ Done /\ Done' /\ pc = "run" /\ pc' = "run" /\ next' = next + 1
      /\ code[block][next].op = "store"
  BY InBlockFacts DEF RunStore, Done, AtInstr
<1>2. UNCHANGED <<program, phiState, renameState, block, prev, loaded, result>>
  BY DEF RunStore
<1>3. /\ succ' = succ /\ code' = code /\ phis' = phis /\ latest' = latest /\ result' = result /\ Fixed /\ Settled
      /\ block' = block /\ loaded' = loaded
  BY <1>2 DEF program, phiState, renameState, Fixed, Settled
<1>4. /\ ProgramInv /\ TypeInv /\ LatestInv /\ OperandInv /\ PhisClosed /\ RunInv
      /\ block \in Reachable(succ) /\ block \in Block
      /\ \A b \in Reachable(succ) : Complete(b) /\ b \in Block
  BY <1>1, RunFacts
<1>5. PICK u \in Var, i \in Nat : u = code[block][next].var /\ i = next
  BY <1>1, InBlockFacts
<1>6. mem' = [mem EXCEPT ![u] =
                IF code[block][i].from = 0 THEN Now ELSE loaded[<<block, code[block][i].from>>]]
  BY <1>1, <1>5, InBlockFacts DEF RunStore
<1>7. /\ mem'[u] = (IF code[block][i].from = 0 THEN Now ELSE loaded[<<block, code[block][i].from>>])
      /\ \A v \in Var : v # u => mem'[v] = mem[v]
      /\ DOMAIN mem' = Var /\ mem' = [v \in Var |-> mem'[v]]
  BY <1>4, <1>6 DEF RunInv
<1>8. TopSite(block, i + 1, u, block, i) /\ i \in DOMAIN code[block] /\ i \in Nat
  BY <1>1, <1>4, <1>5, AfterStore, InBlockFacts
<1>9. mem'[u] # Undefined => Eval(SiteVal(block, i, u)) = mem'[u]
  <2>1. SiteVal(block, i, u) = Stored(<<block, i>>) /\ Now = <<block, i>>
    BY <1>1, <1>5, InBlockFacts DEF SiteVal, Now
  <2>2. CASE code[block][i].from = 0
    BY <1>7, <2>1, <2>2, EvalOf DEF Stored, Instr
  <2>3. CASE code[block][i].from # 0
    <3>1. PICK k : k = code[block][i].from
      OBVIOUS
    <3>2. k \in 1..(i - 1) /\ code[block][k].op = "load"
      BY <1>1, <1>4, <1>5, <1>8, <2>3, <3>1 DEF ProgramInv
    <3>3. k \in DOMAIN code[block] /\ k < next
      BY <1>1, <1>4, <1>5, <1>8, <3>2, GraphFacts
    <3>4. SiteVal(block, i, u) = latest[<<block, k>>] /\ mem'[u] = loaded[<<block, k>>]
      BY <1>7, <2>1, <2>3, <3>1 DEF Stored, Instr
    <3> QED
      BY <1>1, <1>4, <3>2, <3>3, <3>4 DEF RunInv
  <2> QED
    BY <2>2, <2>3
<1>10. \A x : Eval(x)' = Eval(x)
  BY <1>3 DEF Eval
<1>11. \A d, j, v : SiteVal(d, j, v)' = SiteVal(d, j, v)
  BY <1>3 DEF SiteVal, Stored, Instr, Const, Phi
<1>12. Agree(block, next)'
  <2>1. ASSUME NEW v \in Var, mem'[v] # Undefined
        PROVE  /\ \A d \in Block, j \in Nat : TopSite(block, i + 1, v, d, j) => Eval(SiteVal(d, j, v)) = mem'[v]
               /\ Many(v) => \E d \in Block, j \in Nat : TopSite(block, i + 1, v, d, j)
    <3>1. CASE v = u
      <4>1. ASSUME NEW d \in Block, NEW j \in Nat, TopSite(block, i + 1, v, d, j) PROVE Eval(SiteVal(d, j, v)) = mem'[v]
        <5>1. d = block /\ j = i
          BY <1>4, <1>8, <3>1, <4>1, TopUnique
        <5> QED
          BY <1>9, <2>1, <3>1, <5>1
      <4> QED
        BY <1>4, <1>8, <3>1, <4>1
    <3>2. CASE v # u
      <4>1. mem'[v] = mem[v]
        BY <1>7, <3>2
      <4>2. \A d \in Block, j \in Nat : TopSite(block, i + 1, v, d, j) <=> TopSite(block, i, v, d, j)
        BY <1>4, <1>5, <1>8, <3>2, AfterOther
      <4>3. Agree(block, i)
        BY <1>1, <1>5, InBlockFacts
      <4> QED
        BY <2>1, <4>1, <4>2, <4>3 DEF Agree
    <3> QED
      BY <3>1, <3>2
  <2>2. \A v : Many(v)' <=> Many(v)
    BY <1>3, FixedProgram
  <2>3. PICK k : k = i + 1
    OBVIOUS
  <2>4. Agree(block, k)'
    BY <1>3, <1>10, <1>11, <2>1, <2>2, <2>3, FixedPoints DEF Agree
  <2> QED
    BY <1>1, <1>3, <1>5, <2>3, <2>4
<1>13. RunInv'
  <2>1. next + 1 \in 1..End(block)
    BY <1>1, InBlockFacts
  <2>2. ASSUME NEW k \in DOMAIN code[block], k < next + 1, code[block][k].op = "load", loaded[<<block, k>>] # Undefined
        PROVE  Eval(latest[<<block, k>>]) = loaded[<<block, k>>]
    <3>1. k # next
      BY <1>1, <2>2
    <3>2. k < next
      BY <1>1, <1>4, <2>2, <3>1, InBlockFacts
    <3> QED
      BY <1>1, <1>4, <2>2, <3>2 DEF RunInv
  <2>3. Loads' = Loads /\ End(block)' = End(block)
    BY <1>3, FixedSets, FixedPoints
  <2>4. \A b \in Reachable(succ) : Complete(b)'
    BY <1>2, <1>3, <1>4, DoneStays DEF renameState
  <2>5. (\A k \in DOMAIN code[block] :
           /\ k < next /\ code[block][k].op = "load" /\ loaded[<<block, k>>] # Undefined
           => Eval(latest[<<block, k>>]) = loaded[<<block, k>>])'
    BY <1>1, <1>3, <1>10, <2>2
  <2> QED
    BY <1>1, <1>3, <1>4, <1>7, <1>12, <2>1, <2>3, <2>4, <2>5 DEF RunInv
<1> QED
  BY <1>1, <1>2, <1>13, RunningKeeps

\* What the new function has where the old one reads a variable is right.
LEMMA LoadAgrees ==
  ASSUME IInv, AtInstr, code[block][next].op = "load", mem[code[block][next].var] # Undefined
  PROVE  /\ Now \in erased /\ latest[Now] \in ConstOrPhi
         /\ Eval(latest[Now]) = mem[code[block][next].var]
<1>1. /\ Done /\ next \in DOMAIN code[block] /\ Agree(block, next) /\ Now = <<block, next>>
      /\ Instr(Now) = code[block][next] /\ code[block][next].var \in Var /\ next \in Nat \ {0}
      /\ next + 1 \in 1..End(block)
  BY InBlockFacts DEF Now
<1>2. LatestInv /\ Complete(block) /\ block \in Block /\ ProgramInv
  BY <1>1, RunFacts
<1>3. Now \in Loads /\ Now \in erased
  BY <1>1, <1>2, LoadSite DEF Complete
<1>4. latest[Now] # LoadOf(Now)
  <2>1. next < End(block)
    BY <1>1, <1>2, GraphFacts
  <2> QED
    BY <1>1, <1>2, <2>1 DEF Complete, Replaced
<1>5. LoadRight(Now)
  BY <1>2, <1>3 DEF LatestInv
<1>6. PICK d \in Block, j \in Nat :
        /\ TopSite(block, next, code[block][next].var, d, j)
        /\ latest[Now] = SiteVal(d, j, code[block][next].var) /\ latest[Now] \in ConstOrPhi
  BY <1>1, <1>4, <1>5 DEF LoadRight, Good
<1> QED
  BY <1>1, <1>3, <1>6 DEF Agree

LEMMA RunLoadInv ==
  ASSUME IInv, RunLoad
  PROVE  IInv'
<1>1. /\ AtInstr /\ Done /\ Done' /\ pc = "run" /\ pc' = "run" /\ next' = next + 1
      /\ code[block][next].op = "load"
  BY InBlockFacts DEF RunLoad, Done, AtInstr
<1>2. UNCHANGED <<program, phiState, renameState, block, prev, mem, newMem, result>>
  BY DEF RunLoad
<1>3. /\ succ' = succ /\ code' = code /\ phis' = phis /\ latest' = latest /\ result' = result /\ Fixed /\ Settled
      /\ block' = block /\ mem' = mem
  BY <1>2 DEF program, phiState, renameState, Fixed, Settled
<1>4. /\ ProgramInv /\ TypeInv /\ LatestInv /\ OperandInv /\ PhisClosed /\ RunInv
      /\ block \in Reachable(succ) /\ block \in Block
      /\ \A b \in Reachable(succ) : Complete(b) /\ b \in Block
  BY <1>1, RunFacts
<1>5. PICK u \in Var, i \in Nat : u = code[block][next].var /\ i = next
  BY <1>1, InBlockFacts
<1>6. Now = <<block, i>> /\ Now \in Loads
  BY <1>1, <1>4, <1>5, InBlockFacts, LoadSite DEF Now
<1>7. /\ loaded'[Now] = mem[u] /\ \A s \in Loads \ {Now} : loaded'[s] = loaded[s]
      /\ DOMAIN loaded' = Loads /\ loaded' = [s \in Loads |-> loaded'[s]]
  <2>1. loaded' = [loaded EXCEPT ![Now] = mem[u]]
    BY <1>1, <1>5, InBlockFacts DEF RunLoad
  <2> QED
    BY <1>4, <1>6, <2>1 DEF RunInv
<1>8. \A x \in ConstOrPhi : Eval(x)' = Eval(x)
  BY <1>3, EvalStays
<1>9. \A d, j, v : SiteVal(d, j, v)' = SiteVal(d, j, v)
  BY <1>3 DEF SiteVal, Stored, Instr, Const, Phi
<1>10. Agree(block, next)'
  <2>1. ASSUME NEW v \in Var, mem[v] # Undefined
        PROVE  /\ \A d \in Block, j \in Nat :
                    TopSite(block, i + 1, v, d, j) => Eval(SiteVal(d, j, v)) = mem[v] /\ SiteVal(d, j, v) \in ConstOrPhi
               /\ Many(v) => \E d \in Block, j \in Nat : TopSite(block, i + 1, v, d, j)
    <3>1. \A d \in Block, j \in Nat : TopSite(block, i + 1, v, d, j) <=> TopSite(block, i, v, d, j)
      BY <1>1, <1>4, <1>5, InBlockFacts, AfterOther
    <3>2. Agree(block, i)
      BY <1>1, <1>5, InBlockFacts
    <3>3. \A d \in Block, j \in Nat : TopSite(block, i, v, d, j) => SiteVal(d, j, v) \in ConstOrPhi
      BY <1>1, <1>4, RunValue DEF Good, Key
    <3> QED
      BY <2>1, <3>1, <3>2, <3>3 DEF Agree
  <2>2. \A v : Many(v)' <=> Many(v)
    BY <1>3, FixedProgram
  <2>3. PICK k : k = i + 1
    OBVIOUS
  <2>4. Agree(block, k)'
    <3>1. ASSUME NEW v \in Var, mem[v] # Undefined, NEW d \in Block, NEW j \in Nat, TopSite(block, k, v, d, j)
          PROVE  Eval(SiteVal(d, j, v))' = mem[v]
      <4>1. PICK x : x = SiteVal(d, j, v) /\ SiteVal(d, j, v)' = x
        BY <1>9
      <4>2. x \in ConstOrPhi /\ Eval(x) = mem[v]
        BY <2>1, <2>3, <3>1, <4>1
      <4>3. Eval(x)' = mem[v]
        BY <1>8, <4>2
      <4> QED
        BY <4>1, <4>3
    <3> QED
      BY <1>3, <2>1, <2>2, <2>3, <3>1, FixedPoints DEF Agree
  <2> QED
    BY <1>1, <1>3, <1>5, <2>3, <2>4
<1>11. RunInv'
  <2>1. next + 1 \in 1..End(block)
    BY <1>1, InBlockFacts
  <2>2. ASSUME NEW k \in DOMAIN code[block], k < next + 1, code[block][k].op = "load", loaded'[<<block, k>>] # Undefined
        PROVE  Eval(latest[<<block, k>>])' = loaded'[<<block, k>>]
    <3>1. PICK x : x = latest[<<block, k>>]
      OBVIOUS
    <3>2. x \in ConstOrPhi /\ Eval(x) = loaded'[<<block, k>>]
      <4>1. CASE k = next
        <5>1. loaded'[<<block, k>>] = mem[u] /\ <<block, k>> = Now /\ mem[u] # Undefined
          BY <1>5, <1>6, <1>7, <2>2, <4>1
        <5> QED
          BY <1>1, <1>5, <3>1, <5>1, LoadAgrees
      <4>2. CASE k # next
        <5>1. k < next
          BY <1>1, <1>4, <2>2, <4>2, InBlockFacts
        <5>2. <<block, k>> \in Loads /\ <<block, k>> # Now
          BY <1>4, <1>5, <1>6, <2>2, <4>2, LoadSite
        <5>3. loaded'[<<block, k>>] = loaded[<<block, k>>]
          BY <1>7, <5>2
        <5>4. Eval(x) = loaded[<<block, k>>]
          BY <1>1, <1>4, <2>2, <3>1, <5>1, <5>3 DEF RunInv
        <5>5. k < End(block)
          BY <1>1, <1>4, <5>1, GraphFacts, InBlockFacts
        <5>6. x # LoadOf(<<block, k>>)
          BY <1>4, <2>2, <3>1, <5>5 DEF Complete, Replaced
        <5>7. x \in ConstOrPhi
          <6>1. LoadRight(<<block, k>>)
            BY <1>4, <5>2 DEF LatestInv
          <6> QED
            BY <3>1, <5>6, <6>1 DEF LoadRight, Good
        <5> QED
          BY <5>3, <5>4, <5>7
      <4> QED
        BY <4>1, <4>2
    <3>3. Eval(x)' = loaded'[<<block, k>>]
      BY <1>8, <3>2
    <3> QED
      BY <1>3, <3>1, <3>3
  <2>3. Loads' = Loads /\ End(block)' = End(block)
    BY <1>3, FixedSets, FixedPoints
  <2>4. \A b \in Reachable(succ) : Complete(b)'
    BY <1>2, <1>3, <1>4, DoneStays DEF renameState
  <2>5. (\A k \in DOMAIN code[block] :
           /\ k < next /\ code[block][k].op = "load" /\ loaded[<<block, k>>] # Undefined
           => Eval(latest[<<block, k>>]) = loaded[<<block, k>>])'
    BY <1>1, <1>3, <2>2
  <2>6. DOMAIN result' = Block \X Key
    BY <1>3, <1>4 DEF RunInv
  <2> QED
    BY <1>1, <1>3, <1>4, <1>7, <1>10, <2>1, <2>3, <2>4, <2>5, <2>6 DEF RunInv
<1> QED
  BY <1>1, <1>2, <1>11, RunningKeeps

LEMMA RunBranchInv ==
  ASSUME IInv, NEW S \in Block, RunBranch(S)
  PROVE  IInv'
<1>1. Done /\ Done' /\ pc = "run" /\ pc' = "enter" /\ prev' = block /\ block' = S /\ S \in Succs(succ, block)
  BY DEF RunBranch, Done
<1>2. UNCHANGED <<program, phiState, renameState, next, mem, newMem, loaded, result>>
  BY DEF RunBranch
<1>3. /\ succ' = succ /\ code' = code /\ phis' = phis /\ latest' = latest /\ result' = result /\ Fixed /\ Settled
      /\ loaded' = loaded /\ mem' = mem
  BY <1>2 DEF program, phiState, renameState, Fixed, Settled
<1>4. /\ ProgramInv /\ RunInv /\ block \in Reachable(succ) /\ block \in Block
      /\ \A b \in Reachable(succ) : Complete(b) /\ b \in Block
  BY <1>1, RunFacts
<1>5. next = End(block)
  <2>1. next \in 1..End(block) /\ next \notin DOMAIN code[block]
    BY <1>1, <1>4 DEF RunInv, RunBranch
  <2> QED
    BY <1>4, <2>1, GraphFacts DEF End
<1>6. Agree(block, next)
  BY <1>1, <1>4 DEF RunInv
<1>7. \A x : Eval(x)' = Eval(x)
  BY <1>3 DEF Eval
<1>8. \A d, j, v : SiteVal(d, j, v)' = SiteVal(d, j, v)
  BY <1>3 DEF SiteVal, Stored, Instr, Const, Phi
<1>9. Agree(prev, End(prev))'
  <2>1. PICK b, i : b = block /\ i = next
    OBVIOUS
  <2>2. \A v : Many(v)' <=> Many(v)
    BY <1>3, FixedProgram
  <2>3. Agree(b, i)'
    BY <1>3, <1>6, <1>7, <1>8, <2>1, <2>2, FixedPoints DEF Agree
  <2>4. End(b)' = i
    BY <1>3, <1>5, <2>1, FixedPoints
  <2> QED
    BY <1>1, <2>1, <2>3, <2>4
<1>10. S \in Reachable(succ)
  BY <1>1, <1>4, ReachableStep, GraphFacts
<1>11. RunInv'
  <2>1. Loads' = Loads
    BY <1>3, FixedSets
  <2>2. \A b \in Reachable(succ) : Complete(b)'
    BY <1>2, <1>3, <1>4, DoneStays DEF renameState
  <2> QED
    BY <1>1, <1>3, <1>4, <1>9, <1>10, <2>1, <2>2 DEF RunInv
<1> QED
  BY <1>1, <1>2, <1>11, RunningKeeps----------------------------------------------------------------------------
(* The theorems. *)

LEMMA StutterInv ==
  ASSUME IInv, UNCHANGED vars
  PROVE  IInv'
<1>1. Fixed /\ Settled
  BY DEF vars, program, phiState, renameState, Fixed, Settled
<1>2. /\ UNCHANGED <<succ, code, dom_frontier, dom_tree_succ, vals, W, F, var, phis>>
      /\ UNCHANGED <<frames, at, known, stack, latest, operandsOf, erased>>
      /\ UNCHANGED <<pc, block, prev, next, mem, newMem, loaded, result>>
  BY DEF vars, program, phiState, renameState, runState
<1>3. Site' = Site /\ Loads' = Loads /\ ConstOrPhi' = ConstOrPhi
  BY <1>1, FixedSets
<1>4. ProgramInv' /\ (pc # "place" => PhisClosed')
  BY <1>1, FixedProgram DEF IInv
<1>5. TypeInv'
  BY <1>2, <1>3 DEF IInv, TypeInv, LoadOf
<1>6. \A d, j, v : SiteVal(d, j, v)' = SiteVal(d, j, v)
  BY <1>2 DEF SiteVal, Stored, Instr, Const, Phi
<1>7. \A x, b : Good(x, b)' <=> Good(x, b)
  BY <1>2, <1>3 DEF Good
<1>8. LatestInv'
  BY <1>1, <1>2, <1>3, <1>6, <1>7, FixedPoints DEF IInv, LatestInv, LoadRight, LoadOf, Instr
<1>9. OperandInv'
  <2>1. ASSUME NEW p \in Block \X Key, NEW o \in operandsOf[p] PROVE OperandRight(p, o)'
    <3>1. OperandRight(p, o)
      BY DEF IInv, OperandInv
    <3> QED
      BY <1>1, <3>1, OperandStays DEF IInv
  <2> QED
    BY <1>2, <2>1 DEF OperandInv
<1>13. (\A b, i : Replaced(b, i)' <=> Replaced(b, i)) /\ \A b : Filled(b)' <=> Filled(b)
  BY <1>1, <1>2, <1>6, <1>7, FixedPoints DEF Replaced, Filled, LoadOf
<1>14. \A b : Complete(b)' <=> Complete(b)
  <2>1. \A b : Replaced(b, End(b))' <=> Replaced(b, End(b))
    BY <1>2 DEF Replaced, LoadOf, End
  <2> QED
    BY <1>2, <1>13, <2>1 DEF Complete
<1>10. CASE Walking
  <2>1. Frame' = Frame /\ Pos' = Pos /\ End(Frame.bb)' = End(Frame.bb)
    BY <1>2 DEF Frame, Pos, End
  <2>2. PathInv'
    BY <1>2, <1>10, <2>1 DEF IInv, Walking, WalkInv, PathInv
  <2>3. DoneInv'
    <3>1. \A b : Replaced(b, End(b))' <=> Replaced(b, End(b))
      BY <1>2 DEF Replaced, LoadOf, End
    <3>2. Replaced(Frame.bb, Pos)' <=> Replaced(Frame.bb, Pos)
      BY <1>2, <2>1 DEF Replaced, LoadOf
    <3>3. Filled(Frame.bb)' <=> Filled(Frame.bb)
      BY <1>13, <2>1
    <3>4. \A m : frames'[m] = frames[m]
      BY <1>2
    <3> QED
      BY <1>2, <1>10, <1>13, <3>1, <3>2, <3>3, <3>4 DEF IInv, Walking, WalkInv, DoneInv
  <2>4. \A b \in Reachable(succ)' : Covered(b)'
    BY <1>2, <1>10, <1>14 DEF IInv, Walking, WalkInv, Covered
  <2>5. StackInv'
    <3>1. \A v, n, b, i : Holds(v, n, b, i)' <=> Holds(v, n, b, i)
      BY <1>1, <1>2, <1>6, <1>7, FixedPoints DEF Holds
    <3>2. \A h, v : Heights(h, v)' <=> Heights(h, v)
      <4>1. \A v : PushedBefore(Frame.bb, Pos, v)' = PushedBefore(Frame.bb, Pos, v)
        BY <1>2, <2>1 DEF PushedBefore
      <4>2. \A v : Holds(v, Len(stack[v]), Frame.bb, Pos)' <=> Holds(v, Len(stack[v]), Frame.bb, Pos)
        BY <1>2, <2>1, <3>1
      <4> QED
        BY <1>1, <1>2, <3>1, <4>1, <4>2, FixedPoints DEF Heights
    <3> QED
      BY <1>2, <1>10, <3>2 DEF IInv, Walking, WalkInv, StackInv
  <2>6. WalkInv'
    BY <2>2, <2>3, <2>4, <2>5 DEF WalkInv
  <2> QED
    BY <1>1, <1>2, <1>4, <1>5, <1>8, <1>9, <1>10, <2>6, WalkingKeeps, WalkFacts DEF Walking, Done, runState
<1>11. CASE Done
  <2>1. Done'
    BY <1>2, <1>11 DEF Done
  <2>2. RunInv'
    <3>1. \A x : Eval(x)' = Eval(x)
      BY <1>2 DEF Eval
    <3>2. \A v : Many(v)' <=> Many(v)
      BY <1>1, FixedProgram
    <3>3. \A b, i : Agree(b, i)' <=> Agree(b, i)
      BY <1>2, <1>6, <3>1, <3>2, FixedPoints, <1>1 DEF Agree
    <3>4. Agree(block, next)' <=> Agree(block, next)
      BY <1>2, <3>3
    <3>5. Agree(prev, End(prev))' <=> Agree(prev, End(prev))
      <4>1. End(prev)' = End(prev)
        BY <1>2 DEF End
      <4> QED
        BY <1>2, <3>3, <4>1
    <3>6. End(block)' = End(block)
      BY <1>2 DEF End
    <3>7. \A k : Eval(latest[<<block, k>>])' = Eval(latest[<<block, k>>])
      BY <1>2 DEF Eval
    <3> QED
      BY <1>2, <1>3, <1>11, <1>14, <2>1, <3>4, <3>5, <3>6, <3>7 DEF IInv, RunInv
  <2> QED
    BY <1>2, <1>11, <2>1, <2>2, RunningKeeps DEF program, phiState, renameState
<1>12. CASE pc = "place"
  <2>1. PlaceInv'
    <3>1. \A v : (Many(v)' <=> Many(v)) /\ StoreBlocks(v)' = StoreBlocks(v)
      BY <1>2 DEF Many, StoreBlocks
    <3>2. \A X, v : (HasDef(X, v)' <=> HasDef(X, v)) /\ (Placed(X, v)' <=> Placed(X, v))
      BY <1>2 DEF HasDef, IsDef, Placed
    <3>3. Many(var)' <=> Many(var)
      BY <1>2 DEF Many, StoreBlocks
    <3> QED
      BY <1>2, <1>12, <3>1, <3>2, <3>3 DEF IInv, PlaceInv
  <2>2. RunInv'
    BY <1>2, <1>3, <1>12 DEF IInv, RunInv, Done
  <2> QED
    BY <1>2, <1>3, <1>4, <1>5, <1>8, <1>9, <1>12, <2>1, <2>2 DEF IInv, LoadOf
<1> QED
  BY <1>10, <1>11, <1>12 DEF IInv, TypeInv, Walking, Done

\* Every step of the pass, and of the two runs after it, keeps the invariant.
LEMMA StepInv ==
  ASSUME IInv, [Next]_vars
  PROVE  IInv'
<1>1. ASSUME NEW v \in Var, NextVal(v) PROVE IInv'
  BY <1>1, NextValInv
<1>2. ASSUME NEW b \in Block, PlacePhis(b) PROVE IInv'
  BY <1>2, PlacePhisInv
<1>3. ASSUME NEW b \in Block, Descend(b) PROVE IInv'
  BY <1>3, DescendInv
<1>4. ASSUME NEW b \in Block, RunBranch(b) PROVE IInv'
  BY <1>4, RunBranchInv
<1>5. CASE StartRename
  BY <1>5, StartRenameInv
<1>6. CASE RenameStore
  BY <1>6, RenameStoreInv
<1>7. CASE RenameLoad
  BY <1>7, RenameLoadInv
<1>8. CASE FillPhis
  BY <1>8, FillPhisInv
<1>9. CASE Leave
  BY <1>9, LeaveInv
<1>10. CASE RunPhis
  BY <1>10, RunPhisInv
<1>11. CASE RunStore
  BY <1>11, RunStoreInv
<1>12. CASE RunLoad
  BY <1>12, RunLoadInv
<1>13. CASE UNCHANGED vars
  BY <1>13, StutterInv
<1> QED
  BY <1>1, <1>2, <1>3, <1>4, <1>5, <1>6, <1>7, <1>8, <1>9, <1>10, <1>11, <1>12, <1>13 DEF Next

\* The invariant of the pass: dominance, phis, the walk of the tree and the two runs,
\* for every function in which a store comes before each load that it can reach.
THEOREM InductiveInvariant == (\A p \in Programs : Handled(p)) => (Spec => []IInv)
<1> SUFFICES ASSUME \A p \in Programs : Handled(p) PROVE Spec => []IInv
  OBVIOUS
<1>1. Init => IInv
  BY InitInv
<1>2. IInv /\ [Next]_vars => IInv'
  BY StepInv
<1> QED
  BY <1>1, <1>2, PTL DEF Spec

\* The pass keeps the meaning of the function: whatever value a load finds in its
\* variable, the definition that replaced it has the same (generate_phi, rename).
THEOREM MeaningKept == (\A p \in Programs : Handled(p)) => (Spec => []SameValues)
<1> SUFFICES ASSUME \A p \in Programs : Handled(p) PROVE Spec => []SameValues
  OBVIOUS
<1>1. IInv => SameValues
  <2> SUFFICES ASSUME IInv, AtInstr, Instr(Now).op = "load", mem[Instr(Now).var] # Undefined
               PROVE  NewValue(Now) = mem[Instr(Now).var]
    BY DEF SameValues
  <2>1. Instr(Now) = code[block][next]
    BY DEF Instr, Now
  <2> QED
    BY <2>1, LoadAgrees DEF NewValue
<1> QED
  BY <1>1, InductiveInvariant, PTL
\* What a stack holds between two children, computed from the calls in progress.
LEMMA HeightOfCalls ==
  ASSUME IInv, pc = "children", NEW v \in Key
  PROVE  LET height[n \in 0..Len(frames)] ==
               IF n = 0 THEN 0 ELSE height[n - 1] + Pushed(frames[n].bb, v)
         IN  Len(stack[v]) = height[Len(frames)]
<1> DEFINE L == Len(frames)
           push(n) == Pushed(frames[n].bb, v)
           Sum(f) == f = [n \in 0..L |-> IF n = 0 THEN 0 ELSE f[n - 1] + push(n)]
<1>1. L \in Nat \ {0} /\ Frame = frames[L] /\ Walking /\ WalkInv /\ Pos = End(Frame.bb) /\ ProgramInv
  BY WalkFacts DEF Walking, Frame, Pos
<1>2. \A n \in 1..L : push(n) \in Nat
  BY <1>1, WalkFacts, PushedCount
<1>3. PICK h : Heights(h, v)
  BY <1>1 DEF WalkInv, StackInv
<1>4. /\ h \in [1..L -> Nat] /\ h[1] = 0
      /\ \A m \in 1..(L - 1) : h[m + 1] = h[m] + push(m)
  BY <1>3 DEF Heights
<1>5. Len(stack[v]) = h[L] + push(L)
  <2>1. PushedBefore(Frame.bb, End(Frame.bb), v) = Pushed(Frame.bb, v)
    BY <1>1, WalkFacts, PushedCount
  <2> QED
    BY <1>1, <1>3, <2>1 DEF Heights
<1> HIDE DEF L, push
<1>6. ASSUME NEW f, Sum(f) PROVE f[L] = Len(stack[v])
  <2>1. f[0] = 0 /\ \A n \in 1..L : f[n] = f[n - 1] + push(n)
    BY <1>1, <1>6
  <2> DEFINE T == {n \in 1..L : f[n - 1] # h[n]}
  <2>2. T = {}
    <3> SUFFICES ASSUME T # {} PROVE FALSE
      OBVIOUS
    <3>1. PICK m \in T : \A n \in T : m <= n
      <4>1. T \subseteq Nat
        OBVIOUS
      <4> HIDE DEF T
      <4> QED
        BY <4>1, LeastNumber
    <3>2. m \in 1..L /\ m # 1
      BY <1>4, <2>1
    <3>3. m - 1 \in 1..(L - 1) /\ m - 1 \in 1..L /\ m - 1 \notin T /\ (m - 1) + 1 = m
      BY <1>1, <3>1, <3>2
    <3>4. f[(m - 1) - 1] = h[m - 1]
      BY <3>3
    <3>5. h[m] = h[m - 1] + push(m - 1)
      BY <1>4, <3>3
    <3> QED
      BY <2>1, <3>1, <3>3, <3>4, <3>5
  <2>3. f[L - 1] = h[L]
    BY <1>1, <2>2
  <2> QED
    BY <1>1, <1>5, <2>1, <2>3
<1>7. \E f : Sum(f)
  <2> DEFINE g == [n \in 0..L |-> IF n = 0 THEN 0 ELSE h[n] + push(n)]
  <2>1. ASSUME NEW n \in 0..L PROVE g[n] = IF n = 0 THEN 0 ELSE g[n - 1] + push(n)
    <3>1. CASE n = 0
      BY <3>1
    <3>2. CASE n = 1
      <4>1. g[0] = 0 /\ g[1] = h[1] + push(1) /\ push(1) \in Nat
        BY <1>1, <1>2, <3>2
      <4> HIDE DEF g
      <4> QED
        BY <1>4, <3>2, <4>1
    <3>3. CASE n > 1
      <4>1. n - 1 \in 1..(L - 1) /\ n - 1 \in 0..L /\ (n - 1) + 1 = n /\ n - 1 # 0
        BY <1>1, <3>3
      <4>2. h[n] = h[n - 1] + push(n - 1)
        BY <1>4, <4>1
      <4>3. g[n - 1] = h[n - 1] + push(n - 1) /\ g[n] = h[n] + push(n)
        BY <3>3, <4>1
      <4> HIDE DEF g
      <4> QED
        BY <3>3, <4>2, <4>3
    <3> QED
      BY <3>1, <3>2, <3>3
  <2>2. g = [n \in 0..L |-> g[n]]
    OBVIOUS
  <2> HIDE DEF g
  <2>3. Sum(g)
    BY <2>1, <2>2
  <2> QED
    BY <2>3
<1> DEFINE H == CHOOSE f : Sum(f)
<1>8. Sum(H)
  BY <1>7
<1> HIDE DEF Sum
<1>9. H[L] = Len(stack[v])
  BY <1>6, <1>8
<1> QED
  BY <1>9 DEF Sum, L, push

\* What the invariant says of the walk and of what it leaves.
LEMMA SoundRenaming ==
  ASSUME IInv
  PROVE  RenamingSound
<1>1. ProgramInv /\ TypeInv /\ LatestInv /\ OperandInv
  BY DEF IInv
<1>2. Reachable(succ) \subseteq Block /\ IsGraph(succ)
  BY <1>1, GraphFacts
<1>3. TypeOK
  <2>1. ConstOrPhi \subseteq Values /\ \A s \in Loads : LoadOf(s) \in Values
    BY DEF ConstOrPhi, Values
  <2>2. \A n \in DOMAIN frames : frames[n].bb \in Block /\ frames[n].left \subseteq Block
    <3> DEFINE R == [bb : Reachable(succ), left : SUBSET Block]
    <3>1. frames \in Seq(R)
      BY <1>1 DEF TypeInv
    <3>2. ASSUME NEW n \in DOMAIN frames PROVE frames[n] \in R
      <4> HIDE DEF R
      <4> QED
        BY <3>1
    <3> QED
      BY <1>2, <3>2
  <2>3. \A v \in Key : \A n \in DOMAIN stack[v] : stack[v][n] \in Values
    <3>1. ASSUME NEW v \in Key, NEW n \in DOMAIN stack[v] PROVE stack[v][n] \in ConstOrPhi
      <4>1. stack[v] \in Seq(ConstOrPhi)
        BY <1>1 DEF TypeInv
      <4> QED
        BY <4>1
    <3> QED
      BY <2>1, <3>1
  <2>4. (\A s \in Loads : latest[s] \in Values) /\ \A p \in Block \X Key : operandsOf[p] \subseteq Values \X Block
    BY <1>1, <2>1 DEF TypeInv
  <2> QED
    BY <1>1, <2>2, <2>3, <2>4 DEF TypeOK, TypeInv, ProgramInv
<1>4. NeverEmptyBack
  <2>1. \A s : Garbage # LoadOf(s)
    BY DEF Garbage, LoadOf
  <2> QED
    BY <1>1, <2>1, Apart DEF NeverEmptyBack, TypeInv
<1>5. StackRestored
  BY HeightOfCalls DEF StackRestored
<1>6. WellFormedSSA
  <2>1. ASSUME NEW s \in Loads PROVE Dominates(succ, latest[s][2], s[1])
    <3>1. CASE latest[s] = LoadOf(s)
      BY <3>1 DEF LoadOf, Dominates
    <3>2. CASE latest[s] # LoadOf(s)
      BY <1>1, <3>2 DEF LatestInv, LoadRight, Good
    <3> QED
      BY <3>1, <3>2
  <2>2. ASSUME NEW p \in phis, NEW o \in operandsOf[p]
        PROVE  /\ o[2] \in Preds(succ, p[1])
               /\ Dominates(succ, o[1][2], o[2])
               /\ \A q \in operandsOf[p] : q[2] = o[2] => q = o
    <3>1. p \in Block \X Key
      BY <1>1 DEF ProgramInv
    <3>2. OperandRight(p, o)
      BY <1>1, <3>1 DEF OperandInv
    <3>3. o \in ConstOrPhi \X Reachable(succ) /\ p[1] \in Succs(succ, o[2])
      BY <3>2 DEF OperandRight
    <3>4. PICK d \in Block, j \in Nat :
            /\ TopSite(o[2], End(o[2]), p[2], d, j)
            /\ o[1] = SiteVal(d, j, p[2]) /\ Good(o[1], d)
      BY <3>2 DEF OperandRight
    <3>5. o[2] \in Preds(succ, p[1])
      BY <1>2, <3>3 DEF Preds
    <3>6. Dominates(succ, o[1][2], o[2])
      <4>1. Dominates(succ, o[1][2], d) /\ Dominates(succ, d, o[2])
        BY <3>4 DEF Good, TopSite, Before
      <4> QED
        BY <1>2, <4>1, DominatesTransitive
    <3>7. ASSUME NEW q \in operandsOf[p], q[2] = o[2] PROVE q = o
      <4>1. OperandRight(p, q)
        BY <1>1, <3>1 DEF OperandInv
      <4>2. q \in ConstOrPhi \X Reachable(succ)
        BY <4>1 DEF OperandRight
      <4>3. PICK e \in Block, k \in Nat :
              TopSite(o[2], End(o[2]), p[2], e, k) /\ q[1] = SiteVal(e, k, p[2])
        BY <3>7, <4>1 DEF OperandRight
      <4>4. d = e /\ j = k
        BY <1>1, <3>3, <3>4, <4>3, TopUnique
      <4> QED
        BY <3>3, <3>4, <3>7, <4>2, <4>3, <4>4
    <3> QED
      BY <3>5, <3>6, <3>7
  <2> QED
    BY <2>1, <2>2 DEF WellFormedSSA
<1> QED
  BY <1>3, <1>4, <1>5, <1>6 DEF RenamingSound

\* rename is sound throughout: its containers have their types, back() never meets an
\* empty vector, a child gives the stack back, and what it leaves is in SSA form.
THEOREM RenamingIsSound == (\A p \in Programs : Handled(p)) => (Spec => []RenamingSound)
<1> SUFFICES ASSUME \A p \in Programs : Handled(p) PROVE Spec => []RenamingSound
  OBVIOUS
<1>1. IInv => RenamingSound
  BY SoundRenaming
<1> QED
  BY <1>1, InductiveInvariant, PTL
=============================================================================
