----------------------------- MODULE Dominators -----------------------------
(***************************************************************************)
(* The analysis Dominators on one function: numbering of the blocks in     *)
(* depth-first post-order (num_node, dfs), immediate dominators by         *)
(* iteration to a fixed point (create_idom, intersect), dominance          *)
(* frontiers (create_dominance_frontier) and the dominator tree            *)
(* (create_dom_tree_succ).                                                 *)
(*                                                                         *)
(* The blocks are 1..N in the order of the function's list, 1 the entry.   *)
(* The order of a predecessor list depends on the order in which the       *)
(* branches were created: any order is allowed for.  A std::map returns    *)
(* null (or 0) for a key it does not have, the null pointer included.      *)
(***************************************************************************)
EXTENDS Dominance, FiniteSets

CONSTANT Graphs  \* the control-flow graphs the analysis is run on

Null == 0  \* the null pointer

\* A terminator has at most two targets, and the builder never branches to the entry
\* (Builder!FunctionWellFormed).
ASSUME GraphsAssumption ==
  \A g \in Graphs :
    /\ g \in [Block -> Seq(Block)]
    /\ \A b \in Block : Len(g[b]) <= 2 /\ Entry \notin Succs(g, b)

VARIABLES succ,      \* succ[b]: get_succ_basic_blocks()
          visited, dfsStack, node, int_to_bb,  \* dfs: frames are <<block, next successor>>
          idom, changed, k, todo, new_idom, finger1, finger2,  \* create_idom, intersect
          block, runner, dom_frontier, dom_tree_succ,          \* the other two
          pc

dfsState == <<visited, dfsStack, node, int_to_bb>>
idomState == <<idom, changed, k, todo, new_idom, finger1, finger2>>
resultState == <<block, runner, dom_frontier, dom_tree_succ>>
vars == <<succ, dfsState, idomState, resultState, pc>>

Pointer == Block \cup {Null}

TypeOK ==
  /\ succ \in [Block -> Seq(Block)]
  /\ visited \subseteq Block
  /\ dfsStack \in Seq(Block \X (1..3))
  /\ node \in [Pointer -> 0..N]
  /\ int_to_bb \in Seq(Block)
  /\ idom \in [Pointer -> Pointer]
  /\ changed \in BOOLEAN
  /\ k \in 0..N
  /\ todo \subseteq Block
  /\ new_idom \in Pointer /\ finger1 \in Pointer /\ finger2 \in Pointer
  /\ block \in 0..(N + 1)
  /\ runner \in Pointer
  /\ dom_frontier \in [Pointer -> SUBSET Block]
  /\ dom_tree_succ \in [Pointer -> SUBSET Block]
  /\ pc \in {"dfs", "round", "block", "preds", "intersect", "frontier", "runners",
             "climb", "tree", "done"}

Init ==
  /\ succ \in Graphs
  /\ visited = {Entry}
  /\ dfsStack = <<<<Entry, 1>>>>
  /\ node = [b \in Pointer |-> 0]
  /\ int_to_bb = <<>>
  /\ idom = [b \in Pointer |-> Null]
  /\ changed = FALSE
  /\ k = 0
  /\ todo = {}
  /\ new_idom = Null /\ finger1 = Null /\ finger2 = Null
  /\ block = 0
  /\ runner = Null
  /\ dom_frontier = [b \in Pointer |-> {}]
  /\ dom_tree_succ = [b \in Pointer |-> {}]
  /\ pc = "dfs"

----------------------------------------------------------------------------
(* num_node and dfs. *)

Depth == Len(dfsStack)
Top == dfsStack[Depth]

\* The loop of dfs looks at the next successor of the block on top, and calls
\* itself on it when the block is not in visited.
DfsSuccessor ==
  /\ pc = "dfs"
  /\ Depth > 0
  /\ Top[2] \in DOMAIN succ[Top[1]]
  /\ LET t == succ[Top[1]][Top[2]]
         advanced == [dfsStack EXCEPT ![Depth] = <<Top[1], Top[2] + 1>>]
     IN  IF t \in visited
           THEN dfsStack' = advanced /\ UNCHANGED visited
           ELSE /\ dfsStack' = Append(advanced, <<t, 1>>)
                /\ visited' = visited \cup {t}
  /\ UNCHANGED <<succ, node, int_to_bb, idomState, resultState, pc>>

\* After the loop the block gets the next number and dfs returns.
DfsReturn ==
  /\ pc = "dfs"
  /\ Depth > 0
  /\ Top[2] \notin DOMAIN succ[Top[1]]
  /\ int_to_bb' = Append(int_to_bb, Top[1])
  /\ node' = [node EXCEPT ![Top[1]] = Len(int_to_bb')]
  /\ dfsStack' = SubSeq(dfsStack, 1, Depth - 1)
  /\ UNCHANGED <<succ, visited, idomState, resultState, pc>>

\* num_node is over: the entry dominates itself, and the first round is due.
DfsDone ==
  /\ pc = "dfs"
  /\ Depth = 0
  /\ idom' = [idom EXCEPT ![Entry] = Entry]
  /\ changed' = TRUE
  /\ pc' = "round"
  /\ UNCHANGED <<succ, dfsState, k, todo, new_idom, finger1, finger2, resultState>>

----------------------------------------------------------------------------
(* create_idom. *)

\* Slip: changed is not reset.
BeginRoundNoReset ==
  /\ pc = "round"
  /\ changed
  /\ k' = Len(int_to_bb) - 1
  /\ pc' = "block"
  /\ UNCHANGED <<succ, dfsState, idom, todo, new_idom, changed, finger1, finger2,
                 resultState>>

\* while (changed): a round goes through the numbers t - 1 .. 1.
BeginRound ==
  /\ pc = "round"
  /\ changed
  /\ changed' = FALSE
  /\ k' = Len(int_to_bb) - 1
  /\ pc' = "block"
  /\ UNCHANGED <<succ, dfsState, idom, todo, new_idom, finger1, finger2, resultState>>

RoundsDone ==
  /\ pc = "round"
  /\ ~ changed
  /\ block' = 1
  /\ pc' = "frontier"
  /\ UNCHANGED <<succ, dfsState, idomState, runner, dom_frontier, dom_tree_succ>>

\* Slip: post-order instead of reverse post-order.
CurrentPostOrder == int_to_bb[Len(int_to_bb) - k]

\* The block of the round's present iteration.
Current == int_to_bb[k]

\* The first predecessor that has a dominator starts the intersection; the
\* program is aborted by assert(first) when there is none.
PickFirst(first) ==
  /\ pc = "block"
  /\ k >= 1
  /\ first \in Preds(succ, Current)
  /\ idom[first] # Null
  /\ new_idom' = first
  /\ todo' = Preds(succ, Current) \ {first}
  /\ pc' = "preds"
  /\ UNCHANGED <<succ, dfsState, idom, changed, k, finger1, finger2, resultState>>

\* Another predecessor q: skipped when it has no dominator yet or is new_idom.
NextPred(q) ==
  /\ pc = "preds"
  /\ q \in todo
  /\ todo' = todo \ {q}
  /\ IF q = new_idom \/ idom[q] = Null
       THEN UNCHANGED <<finger1, finger2, pc>>
       ELSE finger1' = q /\ finger2' = new_idom /\ pc' = "intersect"
  /\ UNCHANGED <<succ, dfsState, idom, changed, k, new_idom, resultState>>

\* intersect: the finger with the smaller number climbs, until both meet.
Climb ==
  /\ pc = "intersect"
  /\ finger1 # finger2
  /\ IF node[finger1] < node[finger2]
       THEN finger1' = idom[finger1] /\ UNCHANGED finger2
       ELSE finger2' = idom[finger2] /\ UNCHANGED finger1
  /\ UNCHANGED <<succ, dfsState, idom, changed, k, todo, new_idom, resultState, pc>>

Meet ==
  /\ pc = "intersect"
  /\ finger1 = finger2
  /\ new_idom' = finger1
  /\ pc' = "preds"
  /\ UNCHANGED <<succ, dfsState, idom, changed, k, todo, finger1, finger2, resultState>>

\* Slip: one round has to be enough.
UpdateWithoutChanged ==
  /\ pc = "preds"
  /\ todo = {}
  /\ idom' = [idom EXCEPT ![Current] = new_idom]
  /\ k' = k - 1
  /\ pc' = "block"
  /\ UNCHANGED <<succ, dfsState, changed, todo, new_idom, finger1, finger2, resultState>>

\* All predecessors are done: the dominator of the block is updated.
Update ==
  /\ pc = "preds"
  /\ todo = {}
  /\ IF idom[Current] # new_idom
       THEN idom' = [idom EXCEPT ![Current] = new_idom] /\ changed' = TRUE
       ELSE UNCHANGED <<idom, changed>>
  /\ k' = k - 1
  /\ pc' = "block"
  /\ UNCHANGED <<succ, dfsState, todo, new_idom, finger1, finger2, resultState>>

RoundDone ==
  /\ pc = "block"
  /\ k = 0
  /\ pc' = "round"
  /\ UNCHANGED <<succ, dfsState, idomState, resultState>>

----------------------------------------------------------------------------
(* create_dominance_frontier: for every block with two predecessors or more, *)
(* every predecessor starts a runner that climbs to the block's dominator.   *)

\* Slip: blocks with exactly two predecessors are passed over.
NextBlockMoreThanTwo ==
  /\ pc = "frontier"
  /\ block <= N
  /\ IF Cardinality(Preds(succ, block)) > 2
       THEN todo' = Preds(succ, block) /\ pc' = "runners" /\ UNCHANGED block
       ELSE block' = block + 1 /\ UNCHANGED <<todo, pc>>
  /\ UNCHANGED <<succ, dfsState, idom, changed, k, new_idom, finger1, finger2, runner,
                 dom_frontier, dom_tree_succ>>

NextBlock ==
  /\ pc = "frontier"
  /\ block <= N
  /\ IF Cardinality(Preds(succ, block)) >= 2
       THEN todo' = Preds(succ, block) /\ pc' = "runners" /\ UNCHANGED block
       ELSE block' = block + 1 /\ UNCHANGED <<todo, pc>>
  /\ UNCHANGED <<succ, dfsState, idom, changed, k, new_idom, finger1, finger2, runner,
                 dom_frontier, dom_tree_succ>>

StartRunner(p) ==
  /\ pc = "runners"
  /\ p \in todo
  /\ todo' = todo \ {p}
  /\ runner' = p
  /\ pc' = "climb"
  /\ UNCHANGED <<succ, dfsState, idom, changed, k, new_idom, finger1, finger2, block,
                 dom_frontier, dom_tree_succ>>

ClimbRunner ==
  /\ pc = "climb"
  /\ runner # idom[block]
  /\ dom_frontier' = [dom_frontier EXCEPT ![runner] = @ \cup {block}]
  /\ runner' = idom[runner]
  /\ UNCHANGED <<succ, dfsState, idomState, block, dom_tree_succ, pc>>

RunnerDone ==
  /\ pc = "climb"
  /\ runner = idom[block]
  /\ pc' = "runners"
  /\ UNCHANGED <<succ, dfsState, idomState, resultState>>

BlockDone ==
  /\ pc = "runners"
  /\ todo = {}
  /\ block' = block + 1
  /\ pc' = "frontier"
  /\ UNCHANGED <<succ, dfsState, idomState, runner, dom_frontier, dom_tree_succ>>

FrontierDone ==
  /\ pc = "frontier"
  /\ block = N + 1
  /\ pc' = "tree"
  /\ UNCHANGED <<succ, dfsState, idomState, resultState>>

\* create_dom_tree_succ, the whole loop over the blocks.
CreateDomTreeSucc ==
  /\ pc = "tree"
  /\ dom_tree_succ' = [b \in Pointer |-> {p \in Block : idom[p] = b /\ p # b}]
  /\ pc' = "done"
  /\ UNCHANGED <<succ, dfsState, idomState, block, runner, dom_frontier>>

Next ==
  \/ DfsSuccessor \/ DfsReturn \/ DfsDone
  \/ BeginRound \/ RoundsDone
  \/ \E b \in Block : PickFirst(b) \/ NextPred(b) \/ StartRunner(b)
  \/ Climb \/ Meet \/ Update \/ RoundDone
  \/ NextBlock \/ ClimbRunner \/ RunnerDone \/ BlockDone \/ FrontierDone
  \/ CreateDomTreeSucc

\* One thread that runs the analysis to its end.
Spec == Init /\ [][Next]_vars /\ WF_vars(Next)

----------------------------------------------------------------------------
\* The blocks above b in the tree that idom describes so far, b included.
Ancestors(b) ==
  {a \in Block : \A S \in SUBSET Block :
     b \in S /\ (\A x \in S : idom[x] # Null => idom[x] \in S) => a \in S}

----------------------------------------------------------------------------
(* Properties. *)

\* assert(first) in create_idom: in reverse post-order every block has a
\* predecessor whose dominator is known already, in every round.
FirstPredecessorFound ==
  pc = "block" /\ k >= 1 => \E p \in Preds(succ, Current) : idom[p] # Null

\* The numbers grow along idom, which is why the two fingers of intersect meet.
NumbersClimb ==
  \A b \in Block : b # Entry /\ idom[b] # Null => node[idom[b]] > node[b]

\* At every moment of the iteration the tree is an over-approximation: all true
\* dominators of a block with a dominator are above it.
DominatorsAreAncestors ==
  \A b \in Block : idom[b] # Null =>
    \A d \in Reachable(succ) : Dominates(succ, d, b) => d \in Ancestors(b)

\* The iteration is sound at every moment, on partial results: create_idom finds
\* where to start, and the two fingers of intersect climb to a meeting point that
\* passes no true dominator.
FingersMeet == TypeOK /\ FirstPredecessorFound /\ NumbersClimb /\ DominatorsAreAncestors

\* Mem2Reg::rename walks the dominator tree from the entry: each other reachable
\* block hangs under exactly one block of it.
TreeCorrect ==
  pc = "done" =>
    \A b \in Reachable(succ) \ {Entry} : \A d \in Reachable(succ) :
      b \in dom_tree_succ[d] <=> IsImmediateDominator(succ, d, b)

\* When the iteration stops, idom is the immediate dominator of each reachable
\* block, for every shape of graph, irreducible ones included, and the tree that is
\* made of it is the dominator tree.
IdomCorrect ==
  /\ pc \in {"frontier", "runners", "climb", "tree", "done"} =>
       \A b \in Reachable(succ) \ {Entry} : IsImmediateDominator(succ, idom[b], b)
  /\ TreeCorrect

\* The frontiers are those of the textbook definition: Mem2Reg puts phis there.
FrontierCorrect ==
  pc = "done" => \A b \in Reachable(succ) : dom_frontier[b] = Frontier(succ, b)

\* The analysis ends.
Terminates == <>(pc = "done")
=============================================================================
