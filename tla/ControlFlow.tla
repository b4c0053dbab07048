---------------------------- MODULE ControlFlow ----------------------------
(***************************************************************************)
(* The control-flow graph of one Function as LightIR keeps it: each        *)
(* BasicBlock has a list of predecessors and a list of successors          *)
(* (pre_bbs_, succ_bbs_), which the constructor and the destructor of      *)
(* BranchInst and Function::remove edit, while the targets themselves are  *)
(* the operands of the branch.  Dominators, Mem2Reg and the code generator *)
(* read the lists only, and the lists are plain pointers: nobody empties   *)
(* them when a block dies, whereas ~Value nulls the operands of branches.  *)
(*                                                                         *)
(* The lists are bags, pre[b][p] being how often p is in the list of b: a  *)
(* conditional branch may have the same target twice.                      *)
(***************************************************************************)
EXTENDS Naturals, Sequences

CONSTANTS Block,  \* the addresses of BasicBlock objects; one may be used again
          NullBlock \* the null pointer

ASSUME NullBlockAssumption == NullBlock \notin Block

VARIABLES living,    \* the blocks that are constructed and not destroyed
          linked,    \* those in basic_blocks_ of the function
          pre,       \* pre_bbs_ of each block, as a bag
          succ,      \* succ_bbs_ of each block, as a bag
          targets,   \* the blocks among the operands of the br that ends a block
          returns,   \* the blocks that end in a ret
          teardown   \* the function is being destroyed

blockVars == <<living, linked, pre, succ, targets, returns, teardown>>

Empty == [b \in Block |-> 0]

\* No br, br %t, or br %c, %t, %f.
Targets == {<<>>} \cup {<<t>> : t \in Block \cup {NullBlock}}
                  \cup {<<t, f>> : t, f \in Block \cup {NullBlock}}

BlocksTypeOK ==
  /\ living \subseteq Block
  /\ linked \subseteq living
  /\ pre \in [Block -> [Block -> Nat]]
  /\ succ \in [Block -> [Block -> Nat]]
  /\ targets \in [Block -> Targets]
  /\ returns \subseteq Block
  /\ teardown \in BOOLEAN

\* How often b is a target in s.
Count(s, b) == (IF Len(s) > 0 /\ s[1] = b THEN 1 ELSE 0)
             + (IF Len(s) > 1 /\ s[2] = b THEN 1 ELSE 0)
IsTarget(s, b) == \E i \in DOMAIN s : s[i] = b

IsTerminated(b) == b \in returns \/ targets[b] # <<>>

----------------------------------------------------------------------------
(* What the operations do to the lists.  add_... pushes one entry, remove_... *)
(* (std::list::remove) drops all equal ones.                                   *)

\* BranchInst::BranchInst in block b.
PreAdded(b, s) == [t \in Block |-> [pre[t] EXCEPT ![b] = @ + Count(s, t)]]
SuccAdded(b, s) == [succ EXCEPT ![b] = [t \in Block |-> @[t] + Count(s, t)]]

\* Slip: the destructor does not tell the target.
PreDroppedNever(b) == pre

\* BranchInst::~BranchInst in block b.  NullBlock operands are skipped.
PreDropped(b) ==
  [t \in Block |-> IF IsTarget(targets[b], t) THEN [pre[t] EXCEPT ![b] = 0] ELSE pre[t]]
SuccDropped(b) ==
  [succ EXCEPT ![b] = [t \in Block |-> IF IsTarget(targets[b], t) THEN 0 ELSE @[t]]]

\* ~Value of block b: the operands that are b become null.
Nulled(b) ==
  [a \in Block |-> [i \in DOMAIN targets[a] |->
      IF targets[a][i] = b THEN NullBlock ELSE targets[a][i]]]

----------------------------------------------------------------------------
(* The operations. *)

BlocksInit ==
  /\ living = {}
  /\ linked = {}
  /\ pre = [b \in Block |-> Empty]
  /\ succ = [b \in Block |-> Empty]
  /\ targets = [b \in Block |-> <<>>]
  /\ returns = {}
  /\ teardown = FALSE

\* BasicBlock::create: a new block at the end of its function.
CreateBlock(b) ==
  /\ ~teardown
  /\ b \notin living
  /\ living' = living \cup {b}
  /\ linked' = linked \cup {b}
  /\ pre' = [pre EXCEPT ![b] = Empty]
  /\ succ' = [succ EXCEPT ![b] = Empty]
  /\ targets' = [targets EXCEPT ![b] = <<>>]
  /\ returns' = returns \ {b}
  /\ UNCHANGED teardown

\* create_br and create_cond_br; add_instruction wants an open block.
CreateBranch(b, s) ==
  /\ ~teardown
  /\ b \in linked
  /\ ~IsTerminated(b)
  /\ s # <<>>
  /\ \A i \in DOMAIN s : s[i] \in linked
  /\ pre' = PreAdded(b, s)
  /\ succ' = SuccAdded(b, s)
  /\ targets' = [targets EXCEPT ![b] = s]
  /\ UNCHANGED <<living, linked, returns, teardown>>

CreateRet(b) ==
  /\ ~teardown
  /\ b \in linked
  /\ ~IsTerminated(b)
  /\ returns' = returns \cup {b}
  /\ UNCHANGED <<living, linked, pre, succ, targets, teardown>>

\* erase_instr of the terminator of b.
EraseTerminator(b) ==
  /\ ~teardown
  /\ b \in linked
  /\ IsTerminated(b)
  /\ pre' = PreDropped(b)
  /\ succ' = SuccDropped(b)
  /\ targets' = [targets EXCEPT ![b] = <<>>]
  /\ returns' = returns \ {b}
  /\ UNCHANGED <<living, linked, teardown>>

\* Slip: the successors are not told.
RemoveBlockHalf(b) ==
  /\ ~teardown
  /\ b \in linked
  /\ linked' = linked \ {b}
  /\ succ' = [p \in Block |-> IF pre[b][p] > 0 THEN [succ[p] EXCEPT ![b] = 0] ELSE succ[p]]
  /\ UNCHANGED <<living, pre, targets, returns, teardown>>

\* Function::remove and erase_from_parent: b leaves the function and the lists of
\* its neighbours.  It stays alive, with its instructions and its own lists; only
\* in a self-loop the first of the two loops edits what the second one walks.
RemoveBlock(b) ==
  /\ ~teardown
  /\ b \in linked
  /\ linked' = linked \ {b}
  /\ succ' = [p \in Block |-> IF pre[b][p] > 0 THEN [succ[p] EXCEPT ![b] = 0] ELSE succ[p]]
  /\ pre' = [s \in Block |-> IF succ'[b][s] > 0 THEN [pre[s] EXCEPT ![b] = 0] ELSE pre[s]]
  /\ UNCHANGED <<living, targets, returns, teardown>>

\* Slip: branches to the block keep their operand.
DestructBlockKeepUses(b) ==
  /\ living' = living \ {b}
  /\ linked' = linked \ {b}
  /\ pre' = PreDropped(b)
  /\ succ' = SuccDropped(b)
  /\ targets' = [targets EXCEPT ![b] = <<>>]
  /\ returns' = returns \ {b}
  /\ UNCHANGED teardown

\* ~BasicBlock: the instructions go first, the lists next, and ~Value last.
DestructBlock(b) ==
  /\ living' = living \ {b}
  /\ linked' = linked \ {b}
  /\ pre' = PreDropped(b)
  /\ succ' = SuccDropped(b)
  /\ targets' = [Nulled(b) EXCEPT ![b] = <<>>]
  /\ returns' = returns \ {b}
  /\ UNCHANGED teardown

\* A removed block is the caller's to delete.
DeleteRemoved(b) == ~teardown /\ b \in living \ linked /\ DestructBlock(b)

\* ~Function destroys the blocks of its list one after the other.
BeginTeardown ==
  /\ ~teardown
  /\ teardown' = TRUE
  /\ UNCHANGED <<living, linked, pre, succ, targets, returns>>
TeardownBlock(b) == teardown /\ b \in linked /\ DestructBlock(b)

BlocksNext ==
  \/ \E b \in Block :
       \/ CreateBlock(b)
       \/ \E s \in Targets : CreateBranch(b, s)
       \/ CreateRet(b)
       \/ EraseTerminator(b)
       \/ RemoveBlock(b)
       \/ DeleteRemoved(b)
       \/ TeardownBlock(b)
  \/ BeginTeardown

BlocksSpec == BlocksInit /\ [][BlocksNext]_blockVars

----------------------------------------------------------------------------
(* Properties. *)

\* Between two blocks of the function the three records of an edge agree: b is in
\* the successors of a as often as a is in the predecessors of b, and as often as
\* the branch of a names b.  This is what the passes, which read the lists, and
\* the printer and the code generator, which read the branch, rely on.
EdgesAgree ==
  \A a, b \in linked :
    /\ succ[a][b] = pre[b][a]
    /\ succ[a][b] = Count(targets[a], b)

\* Until the function is destroyed, the lists of its blocks hold blocks of the
\* function only: Function::remove follows each of these pointers.
ListsInFunction ==
  ~teardown => \A b \in linked, n \in Block :
                 pre[b][n] > 0 \/ succ[b][n] > 0 => n \in linked

\* ~BranchInst follows its operands, and in the teardown blocks die in any order:
\* no branch of a living block names a destroyed one.
BranchesReachLiving ==
  \A b \in living : \A i \in DOMAIN targets[b] : targets[b][i] \in living \cup {NullBlock}
=============================================================================
