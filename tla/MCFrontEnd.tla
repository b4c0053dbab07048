----------------------------- MODULE MCFrontEnd -----------------------------
(***************************************************************************)
(* The front end and the driver in one run.  Its parts are stages of main  *)
(* that hand over a finished result; a behaviour is a behaviour of one of  *)
(* them, chosen at the start, and the others stay as they are:             *)
(*   "driver" Driver: the command line, the stages and the files;          *)
(*   "tree"   SyntaxTree: the parser builds a tree, which is freed later;  *)
(*   "ast"    Ast: a tree of the older grammar, which becomes an AST that  *)
(*            is printed, or one of the parser's, which does not;          *)
(*   "types"  Typing: the builder visits a function with two parameters, a *)
(*            global and a local variable.                                 *)
(***************************************************************************)
EXTENDS Driver, Ast, CminusTrees, Typing, FiniteSets

VARIABLES part,
          moves, tokens, dropped, nodes, live, values, root, parsed  \* of SyntaxTree

treeVars == <<moves, tokens, dropped, nodes, live, values, root, parsed>>
all == <<part, driverVars, treeVars, vars, typingVars>>

MCParams == <<"p", "q">>

----------------------------------------------------------------------------
(* Command lines of up to five words, in any order. *)

Vocabulary == {<<"-h">>, <<"-o">>, <<"-emit-llvm">>, <<"-S">>, <<"-mem2reg">>,
               <<"a", "b", "cminus">>, <<"c">>, <<"out">>}

FewWords == {<<"-o">>, <<"-S">>, <<"-mem2reg">>, <<"a", "b", "cminus">>, <<"out">>}

Lines ==
  UNION {[1..n -> Vocabulary] : n \in 0..4}
  \cup {line \in [1..5 -> FewWords] : Cardinality(Range(line)) >= 4}
  \cup {<<<<"--help">>>>, <<<<"-S">>, <<"", "cminus">>>>, <<<<"-S">>, <<"b", "cminus">>>>,
        <<<<"-emit-llvm">>, <<"b", "cminus">>, <<"-o">>, <<"b", "cminus">>>>}

AllWords == Vocabulary \cup {<<"--help">>, <<"", "cminus">>, <<"b", "cminus">>}
Readable == {<<"a", "b", "cminus">>, <<"", "cminus">>}

----------------------------------------------------------------------------
(* The parser. *)

Sysy == INSTANCE SysYDerivations

S == INSTANCE SyntaxTree WITH
       Derivations <- Sysy!Sentences, MaxComments <- 1, stack <- values, status <- parsed

\* The tree that the actions of SyntaxTree make along a derivation.
RECURSIVE TreeOf(_)
TreeOf(d) ==
  IF d.name \in S!NoAction THEN TreeOf(d.parts[1])
  ELSE LET passed == S!Passed(d.name, Len(d.parts))
       IN [name |-> d.name, kids |-> [i \in DOMAIN passed |-> TreeOf(d.parts[passed[i]])]]

MCParsedTrees == {TreeOf(d) : d \in Sysy!Sentences}

----------------------------------------------------------------------------

Idle(x) == x = <<>>

MCInit ==
  /\ part \in {"driver", "tree", "ast", "types"}
  /\ DriverInit /\ (part # "driver" => args = <<>>)
  /\ IF part = "tree" THEN S!Init
     ELSE /\ Idle(moves) /\ Idle(tokens) /\ Idle(dropped) /\ Idle(nodes)
          /\ Idle(live) /\ Idle(values) /\ Idle(root) /\ Idle(parsed)
  /\ IF part = "ast" THEN Init
     ELSE Idle(tree) /\ Idle(original) /\ Idle(ast) /\ Idle(lines) /\ Idle(status)
  /\ TypingInit

DriverPart ==
  part = "driver" /\ DriverNext /\ UNCHANGED <<part, treeVars, vars, typingVars>>
TreePart ==
  part = "tree" /\ S!Next /\ UNCHANGED <<part, driverVars, vars, typingVars>>
AstPart ==
  part = "ast" /\ Next /\ UNCHANGED <<part, driverVars, treeVars, typingVars>>
TypesPart ==
  part = "types" /\ TypingNext /\ UNCHANGED <<part, driverVars, treeVars, vars>>

MCNext == DriverPart \/ TreePart \/ AstPart \/ TypesPart

MCSpec == MCInit /\ [][MCNext]_all

----------------------------------------------------------------------------
(* The properties of SyntaxTree and Ast, each for its part. *)

\* The tree has the tokens of the source in their order, but for those that an action
\* drops, and nothing is owned twice (SyntaxTree).
RestInTree == part = "tree" => S!TypeOK /\ S!OneOwner /\ S!RestInTree

\* The deletion of the tree frees all of it (SyntaxTree).
AllFreed == part = "tree" => S!AllFreed

\* A tree of the older grammar has an AST with all that the source said, in its
\* order, and so does what is printed, types excepted; a tree of this parser, whose
\* nodes have other names than ast.cpp looks for, ends in an abort (Ast).
AstComplete ==
  part = "ast" => TypeOK /\ SourceKept /\ OlderAccepted /\ ParsedRefused /\ PrintTellsApart
=============================================================================
