----------------------------- MODULE SyntaxTree -----------------------------
(***************************************************************************)
(* The syntax tree while the parser builds it: pass_node of the lexer      *)
(* makes a node for each token, the semantic action of each rule of        *)
(* syntax_analyzer.y makes one for its left side from those on the value   *)
(* stack of bison, parse returns whatever is in gt, the three programs     *)
(* that call it read its root and del_syntax_tree frees what the root      *)
(* reaches.  Nodes are addresses in nodes; those in live are allocated.    *)
(*                                                                         *)
(* Which rules are reduced when is bison's doing: a sentence is given as   *)
(* its derivation, a tree in which a token has no parts.                   *)
(***************************************************************************)
EXTENDS Integers, SequencesExt

CONSTANTS Derivations,  \* the derivations of the sentences to parse
          MaxComments   \* bound on the comments between tokens

Garbage == 0            \* a pointer that was never set
ChildrenSize == 10      \* children[10] of a node

VARIABLES moves,   \* the shifts and reductions that are left
          tokens,  \* the nodes of the tokens so far
          dropped, \* nodes that an action left out of the tree; not in the code
          nodes,   \* every node ever made: its name and its children
          live,    \* the nodes not yet freed
          stack,   \* the value stack
          root,    \* gt->root
          status   \* "parsing", "accepted", "failed", "used" or "deleted"

vars == <<moves, tokens, dropped, nodes, live, stack, root, status>>

\* Bison shifts and reduces a sentence in the post-order of its derivation.
RECURSIVE Moves(_)
Moves(d) ==
  IF d.parts = <<>> THEN <<[kind |-> "shift", name |-> d.name, parts |-> 0]>>
  ELSE FlattenSeq([i \in DOMAIN d.parts |-> Moves(d.parts[i])])
         \o <<[kind |-> "reduce", name |-> d.name, parts |-> Len(d.parts)]>>

Init ==
  /\ \E d \in Derivations : moves = Moves(d)
  /\ tokens = <<>>
  /\ dropped = {}
  /\ nodes = <<>>
  /\ live = {}
  /\ stack = <<>>
  /\ root = Garbage
  /\ status = "parsing"

----------------------------------------------------------------------------
(* The semantic actions. *)

\* The left sides whose rules have an empty action; bison then takes $1.
NoAction == {"dec_flo_cons", "hex_flo_cons", "fra_cons", "exp_part", "sign", "dig_seq",
             "hex_fra_cons", "bin_exp_part", "hex_dig_seq"}

\* Slip: the last two symbols are swapped.
PassedSwapped(name, parts) ==
  [i \in 1..parts |-> IF parts > 1 /\ i > parts - 2 THEN 2 * parts - 1 - i ELSE i]

\* The positions that the action of a rule hands to node(); $3 is missing in the
\* rule of a parameter followed by others.
Passed(name, parts) ==
  [i \in 1..(IF name = "FuncFParams" /\ parts = 3 THEN 2 ELSE parts) |-> i]

\* new_syntax_tree_node.
New(name, kids) == Append(nodes, [name |-> name, kids |-> kids])
Fresh == Len(nodes) + 1

\* pass_node for the next token, which bison shifts.
Shift ==
  /\ status = "parsing" /\ moves # <<>> /\ Head(moves).kind = "shift"
  /\ nodes' = New(Head(moves).name, <<>>)
  /\ live' = live \cup {Fresh}
  /\ stack' = Append(stack, Fresh)
  /\ tokens' = Append(tokens, Fresh)
  /\ moves' = Tail(moves)
  /\ UNCHANGED <<dropped, root, status>>

\* pass_node for a comment: no token is returned, and yylval is set anew.
Comment ==
  /\ status = "parsing"
  /\ Len(SelectSeq(nodes, LAMBDA n : n.name = "comment")) < MaxComments
  /\ nodes' = New("comment", <<>>)
  /\ live' = live \cup {Fresh}
  /\ UNCHANGED <<moves, tokens, dropped, stack, root, status>>

\* A rule with an action: node() makes the node of the left side.
Reduce ==
  /\ status = "parsing" /\ moves # <<>> /\ Head(moves).kind = "reduce"
  /\ Head(moves).name \notin NoAction
  /\ LET m == Head(moves)
         below == Len(stack) - m.parts
         passed == Passed(m.name, m.parts)
         rest == (1..m.parts) \ Range(passed)
     IN /\ nodes' = New(m.name, [i \in DOMAIN passed |-> stack[below + passed[i]]])
        /\ stack' = Append(SubSeq(stack, 1, below), Fresh)
        /\ dropped' = dropped \cup {stack[below + i] : i \in rest}
        /\ root' = IF m.name = "program" THEN Fresh ELSE root
  /\ live' = live \cup {Fresh}
  /\ moves' = Tail(moves)
  /\ UNCHANGED <<tokens, status>>

ReduceDefault ==
  /\ status = "parsing" /\ moves # <<>> /\ Head(moves).kind = "reduce"
  /\ Head(moves).name \in NoAction
  /\ LET kept == Len(stack) - Head(moves).parts + 1
     IN /\ stack' = SubSeq(stack, 1, kept)
        /\ dropped' = dropped \cup {stack[i] : i \in kept + 1..Len(stack)}
  /\ moves' = Tail(moves)
  /\ UNCHANGED <<tokens, nodes, live, root, status>>

\* yyparse returns 0; what it returns is not looked at.
Accept ==
  /\ status = "parsing" /\ moves = <<>>
  /\ status' = "accepted"
  /\ stack' = <<>>
  /\ UNCHANGED <<moves, tokens, dropped, nodes, live, root>>

\* A token that the grammar does not allow: yyerror, and yyparse returns 1.
SyntaxError ==
  /\ status = "parsing" /\ moves # <<>>
  /\ status' = "failed"
  /\ stack' = <<>>
  /\ UNCHANGED <<moves, tokens, dropped, nodes, live, root>>

----------------------------------------------------------------------------
(* What the callers of parse do. *)

RECURSIVE Reached(_)
Reached(n) ==
  IF n = Garbage THEN {}
  ELSE {n} \cup UNION {Reached(nodes[n].kids[i]) : i \in DOMAIN nodes[n].kids}

\* The constructor of AST, or print_syntax_tree, follows the root.
UseTree ==
  /\ status \in {"accepted", "failed"}
  /\ status' = "used"
  /\ UNCHANGED <<moves, tokens, dropped, nodes, live, stack, root>>

\* Slip: the node itself is not freed.
DeleteChildren ==
  /\ status = "used" /\ root # Garbage
  /\ live' = live \ (Reached(root) \ {root})
  /\ status' = "deleted"
  /\ UNCHANGED <<moves, tokens, dropped, nodes, stack, root>>

\* del_syntax_tree.
Delete ==
  /\ status = "used" /\ root # Garbage
  /\ live' = live \ Reached(root)
  /\ status' = "deleted"
  /\ UNCHANGED <<moves, tokens, dropped, nodes, stack, root>>

Next ==
  \/ Shift \/ Comment \/ Reduce \/ ReduceDefault \/ Accept \/ SyntaxError
  \/ UseTree \/ Delete

Spec == Init /\ [][Next]_vars

----------------------------------------------------------------------------
(* Properties. *)

\* The type invariant; children fit into the array.
TypeOK ==
  /\ live \subseteq DOMAIN nodes
  /\ root \in DOMAIN nodes \cup {Garbage}
  /\ \A i \in DOMAIN stack : stack[i] \in live
  /\ \A n \in DOMAIN nodes : Len(nodes[n].kids) <= ChildrenSize

RECURSIVE Leaves(_)
Leaves(n) ==
  IF nodes[n].kids = <<>> THEN <<n>>
  ELSE FlattenSeq([i \in DOMAIN nodes[n].kids |-> Leaves(nodes[n].kids[i])])

DroppedNodes == UNION {Reached(n) : n \in dropped}

\* When the parser accepts, the tree has all tokens in their order but for those
\* that an action has dropped.
RestInTree ==
  status = "accepted" => Leaves(root) = SelectSeq(tokens, LAMBDA t : t \notin DroppedNodes)

\* Every pointer to a node there is: from a parent or from the value stack.
Owners == FlattenSeq([n \in DOMAIN nodes |-> nodes[n].kids]) \o stack

\* No node has two owners: freeing a tree frees no node twice, and no node that
\* another tree or the parser still has.
OneOwner == Cardinality(Range(Owners)) = Len(Owners)

\* After the deletion nothing is left but what was dropped or made for comments.
AllFreed == status = "deleted" => \A n \in live \ DroppedNodes : nodes[n].name = "comment"
=============================================================================
