-------------------------------- MODULE Ast --------------------------------
(***************************************************************************)
(* From the syntax tree to the AST, and the AST printed.  The constructor  *)
(* of AST walks the tree that the parser has built: transform_node_iter    *)
(* tells nodes apart by their names and productions of one name by the     *)
(* number of children, flattens lists, which are nested to the left, by    *)
(* way of a stack, and aborts at a name it does not know.  The tree is     *)
(* deleted afterwards, so that what has not been copied is lost.           *)
(*                                                                         *)
(* The names it knows are those of the older cminus grammar.  The trees of *)
(* this repository's grammar have others, CompUnit under program to begin  *)
(* with: see ParsedRefused.                                                *)
(*                                                                         *)
(* A node of the tree is a record of its name and its children; the name   *)
(* of a leaf is its text.  A node of the AST is a tuple that starts with   *)
(* its class; children[i] of the code is Child(n, i).                      *)
(***************************************************************************)
EXTENDS Integers, SequencesExt

CONSTANTS OlderTrees,  \* syntax trees of the cminus grammar
          ParsedTrees  \* syntax trees that syntax_analyzer.y makes

VARIABLES tree,     \* the syntax tree, Deleted after the transformation
          original, \* the tree as it was; not in the code
          ast,      \* root of the AST, Null before the transformation
          lines,    \* what ASTPrinter has written: pairs of depth and text
          status    \* "parsed", "transformed", "aborted" or "printed"

vars == <<tree, original, ast, lines, status>>

Deleted == [name |-> "", kids |-> <<>>]
Null == <<"nullptr">>
Abort == <<"abort">>

Child(n, i) == n.kids[i + 1]
Count(n) == Len(n.kids)
TextOf(n) == <<n.name>>

\* An object of a class, unless the making of one of its parts aborts.
Make(class, parts) == IF Abort \in Range(parts) THEN Abort ELSE <<class>> \o parts

----------------------------------------------------------------------------
(* What the branches of transform_node_iter do. *)

\* Slip: the list is walked into the vector, without the stack.
NoStack(pushed) == pushed

\* The stack is popped into the vector.
Popped(pushed) == Reverse(pushed)

\* The children at position item of the nodes along a list nested to the left,
\* from the last to the first, as long as nodes have width children.
RECURSIVE Spine(_, _, _)
Spine(n, width, item) ==
  IF Count(n) = width
  THEN <<Child(n, item)>> \o Spine(Child(n, 0), width, item)
  ELSE <<>>

\* The same with the only child of the last node.
RECURSIVE SpineToEnd(_, _, _)
SpineToEnd(n, width, item) ==
  IF Count(n) = width
  THEN <<Child(n, item)>> \o SpineToEnd(Child(n, 0), width, item)
  ELSE <<Child(n, 0)>>

TypeOfSpecifier(n) == <<Child(Child(n, 0), 0).name>>

\* The two-way test of variables and parameters, and the three-way one of functions.
IntOrFloat(t) == IF t = <<"int">> THEN t ELSE <<"float">>
AnyType(t) == IF t \in {<<"int">>, <<"float">>} THEN t ELSE <<"void">>

\* The parameters that fun-declaration pushes; `void` is a leaf.
ParamsOf(n) ==
  LET list == Child(Child(n, 3), 0)
  IN IF Count(list) = 0 THEN <<>> ELSE SpineToEnd(list, 3, 2)

\* The arguments that call pushes.
ArgsOf(n) ==
  LET list == Child(Child(n, 2), 0)
  IN IF list.name = "arg-list" THEN SpineToEnd(list, 3, 2) ELSE <<>>

HasElse(n) == Count(n) = 7

\* What a factor is, without its parentheses.
InnerOf(n) == IF Count(n) = 3 THEN Child(n, 1) ELSE Child(n, 0)

RECURSIVE Transform(_)

\* The node made of children[i], and of one that need not be there.
Part(n, i) == Transform(Child(n, i))
OptionalPart(n, there, i) == IF there THEN Part(n, i) ELSE Null

\* The vector of the nodes made of what the stack holds.
VectorOf(pushed) == Make("list", [i \in DOMAIN pushed |-> Transform(Popped(pushed)[i])])

TransformDeclaration(n) ==
  CASE n.name = "program" -> Make("Program", <<VectorOf(SpineToEnd(Child(n, 0), 2, 1))>>)
    [] n.name = "declaration" -> Part(n, 0)
    [] n.name = "var-declaration" ->
         IF Count(n) \notin {3, 6} THEN Abort
         ELSE Make("VarDeclaration",
                   <<IntOrFloat(TypeOfSpecifier(n)), TextOf(Child(n, 1)),
                     IF Count(n) = 6 THEN <<"Num", <<"int">>, TextOf(Child(n, 3))>> ELSE Null>>)
    [] n.name = "fun-declaration" ->
         Make("FunDeclaration", <<AnyType(TypeOfSpecifier(n)), TextOf(Child(n, 1)),
                                  VectorOf(ParamsOf(n)), Part(n, 5)>>)
    [] n.name = "param" ->
         Make("Param", <<IntOrFloat(TypeOfSpecifier(n)), TextOf(Child(n, 1)),
                         IF Count(n) > 2 THEN <<"array">> ELSE Null>>)

TransformStatement(n) ==
  CASE n.name = "compound-stmt" ->
         Make("CompoundStmt", <<VectorOf(Spine(Child(n, 1), 2, 1)), VectorOf(Spine(Child(n, 2), 2, 1))>>)
    [] n.name = "statement" -> Part(n, 0)
    [] n.name = "expression-stmt" -> Make("ExpressionStmt", <<OptionalPart(n, Count(n) = 2, 0)>>)
    [] n.name = "selection-stmt" ->
         Make("SelectionStmt", <<Part(n, 2), Part(n, 4), OptionalPart(n, HasElse(n), 6)>>)
    [] n.name = "iteration-stmt" -> Make("IterationStmt", <<Part(n, 2), Part(n, 4)>>)
    [] n.name = "return-stmt" -> Make("ReturnStmt", <<OptionalPart(n, Count(n) = 3, 1)>>)

\* Left operand, operator and right operand, or a right or left operand alone.
Operands(n) == <<Part(n, 0), TextOf(Child(Child(n, 1), 0)), Part(n, 2)>>

TransformExpression(n) ==
  CASE n.name = "expression" ->
         IF Count(n) = 1 THEN Part(n, 0) ELSE Make("AssignExpression", <<Part(n, 0), Part(n, 2)>>)
    [] n.name = "var" -> Make("Var", <<TextOf(Child(n, 0)), OptionalPart(n, Count(n) = 4, 2)>>)
    [] n.name = "simple-expression" ->
         Make("SimpleExpression", IF Count(n) = 3 THEN Operands(n) ELSE <<Part(n, 0), Null, Null>>)
    [] n.name = "additive-expression" ->
         Make("AdditiveExpression", IF Count(n) = 3 THEN Operands(n) ELSE <<Null, Null, Part(n, 0)>>)

TransformFactor(n) ==
  CASE n.name = "term" ->
         Make("Term", IF Count(n) = 3 THEN Operands(n) ELSE <<Null, Null, Part(n, 0)>>)
    [] n.name = "factor" ->
         LET body == InnerOf(n)
         IN CASE body.name \in {"expression", "var", "call"} -> Transform(body)
              [] body.name = "integer" -> <<"Num", <<"int">>, TextOf(Child(body, 0))>>
              [] body.name = "float" -> <<"Num", <<"float">>, TextOf(Child(body, 0))>>
              [] OTHER -> Abort
    [] n.name = "call" -> Make("Call", <<TextOf(Child(n, 0)), VectorOf(ArgsOf(n))>>)

\* transform_node_iter.
Transform(n) ==
  CASE n.name \in {"program", "declaration", "var-declaration", "fun-declaration", "param"} ->
         TransformDeclaration(n)
    [] n.name \in {"compound-stmt", "statement", "expression-stmt", "selection-stmt",
                   "iteration-stmt", "return-stmt"} -> TransformStatement(n)
    [] n.name \in {"expression", "var", "simple-expression", "additive-expression"} ->
         TransformExpression(n)
    [] n.name \in {"term", "factor", "call"} -> TransformFactor(n)
    [] OTHER -> Abort

----------------------------------------------------------------------------
(* ASTPrinter: one line for each object, indented by depth, which is 2 more *)
(* for its parts.                                                           *)

OperatorOf(a) == a[3]

\* What the line of an object says.  Types of variables, parameters and functions
\* are not written.
Heading(a) ==
  CASE a[1] \in {"SimpleExpression", "AdditiveExpression", "Term"} -> <<a[1], OperatorOf(a)>>
    [] a[1] = "Var" -> <<a[1], a[2], a[3] # Null>>
    [] a[1] = "VarDeclaration" -> <<a[1], a[3], a[4] # Null>>
    [] a[1] = "FunDeclaration" -> <<a[1], a[3]>>
    [] a[1] = "Param" -> <<a[1], a[3], a[4]>>
    [] a[1] = "Call" -> <<a[1], a[2]>>
    [] a[1] = "Num" -> a
    [] a[1] = "ReturnStmt" -> <<a[1], a[2] = Null>>
    [] OTHER -> <<a[1]>>

\* The parts that the visitor of an object sends on to, null pointers excepted.
StatementParts(a) ==
  CASE a[1] = "Program" -> Tail(a[2])
    [] a[1] = "FunDeclaration" -> Tail(a[4]) \o <<a[5]>>
    [] a[1] = "CompoundStmt" -> Tail(a[2]) \o Tail(a[3])
    [] a[1] = "VarDeclaration" -> <<a[4]>>
    [] a[1] \in {"Num", "Param"} -> <<>>
    [] OTHER -> Tail(a)
ExpressionParts(a) ==
  CASE a[1] \in {"SimpleExpression", "AdditiveExpression", "Term"} -> <<a[2], a[4]>>
    [] a[1] = "AssignExpression" -> Tail(a)
    [] a[1] = "Var" -> <<a[3]>>
    [] a[1] = "Call" -> Tail(a[3])
Parts(a) ==
  SelectSeq(IF a[1] \in {"SimpleExpression", "AdditiveExpression", "Term", "AssignExpression", "Var", "Call"}
            THEN ExpressionParts(a) ELSE StatementParts(a),
            LAMBDA p : p # Null)

RECURSIVE Printed(_, _)
Printed(a, depth) ==
  <<<<depth, Heading(a)>>>>
    \o FlattenSeq([i \in DOMAIN Parts(a) |-> Printed(Parts(a)[i], depth + 2)])

----------------------------------------------------------------------------
(* The steps of test_ast: the constructor of AST, then the printer. *)

RECURSIVE Leaves(_)
Leaves(n) ==
  IF n.kids = <<>> THEN <<n.name>> ELSE FlattenSeq([i \in DOMAIN n.kids |-> Leaves(n.kids[i])])

\* An empty list is written as an epsilon, which is not in the source.
Yield(n) == SelectSeq(Leaves(n), LAMBDA t : t # "epsilon")

Init ==
  /\ tree \in OlderTrees \cup ParsedTrees
  /\ original = tree
  /\ ast = Null
  /\ lines = <<>>
  /\ status = "parsed"

\* AST::AST; the process ends when the transformation aborts.
BuildAst ==
  /\ status = "parsed"
  /\ ast' = Transform(tree)
  /\ status' = IF ast' = Abort THEN "aborted" ELSE "transformed"
  /\ tree' = IF ast' = Abort THEN tree ELSE Deleted
  /\ UNCHANGED <<original, lines>>

PrintAst ==
  /\ status = "transformed"
  /\ lines' = Printed(ast, 0)
  /\ status' = "printed"
  /\ UNCHANGED <<tree, original, ast>>

Next == BuildAst \/ PrintAst

Spec == Init /\ [][Next]_vars

----------------------------------------------------------------------------
(* Properties. *)

\* A program back in the concrete syntax of the language.  An expression where the
\* grammar wants a factor stands in parentheses.
RECURSIVE Text(_)
Text(a) ==
  LET Sequence(items) == FlattenSeq([i \in DOMAIN items |-> Text(items[i])])
      CommaSeparated(items) ==
        FlattenSeq([i \in DOMAIN items |-> (IF i > 1 THEN <<",">> ELSE <<>>) \o Text(items[i])])
      Factor(f) == IF f[1] \in {"SimpleExpression", "AssignExpression"}
                   THEN <<"(">> \o Text(f) \o <<")">> ELSE Text(f)
      Right(p) == IF a[1] = "Term" THEN Factor(p) ELSE Text(p)
      Bracketed(p) == IF p = Null THEN <<>> ELSE <<"[">> \o Text(p) \o <<"]">>
      Else == IF a[4] = Null THEN <<>> ELSE <<"else">> \o Text(a[4])
  IN CASE a = Null -> <<>>
       [] a[1] = "Program" -> Sequence(Tail(a[2]))
       [] a[1] = "VarDeclaration" -> a[2] \o a[3] \o Bracketed(a[4]) \o <<";">>
       [] a[1] = "FunDeclaration" ->
            a[2] \o a[3] \o <<"(">>
              \o (IF Tail(a[4]) = <<>> THEN <<"void">> ELSE CommaSeparated(Tail(a[4])))
              \o <<")">> \o Text(a[5])
       [] a[1] = "Param" -> a[2] \o a[3] \o (IF a[4] = Null THEN <<>> ELSE <<"[", "]">>)
       [] a[1] = "CompoundStmt" -> <<"{">> \o Sequence(Tail(a[2])) \o Sequence(Tail(a[3])) \o <<"}">>
       [] a[1] = "ExpressionStmt" -> Text(a[2]) \o <<";">>
       [] a[1] = "SelectionStmt" -> <<"if", "(">> \o Text(a[2]) \o <<")">> \o Text(a[3]) \o Else
       [] a[1] = "IterationStmt" -> <<"while", "(">> \o Text(a[2]) \o <<")">> \o Text(a[3])
       [] a[1] = "ReturnStmt" -> <<"return">> \o Text(a[2]) \o <<";">>
       [] a[1] = "AssignExpression" -> Text(a[2]) \o <<"=">> \o Text(a[3])
       [] a[1] \in {"SimpleExpression", "AdditiveExpression", "Term"} ->
            Text(a[2]) \o (IF a[3] = Null THEN <<>> ELSE a[3]) \o Right(a[4])
       [] a[1] = "Var" -> a[2] \o Bracketed(a[3])
       [] a[1] = "Call" -> a[2] \o <<"(">> \o CommaSeparated(Tail(a[3])) \o <<")">>
       [] a[1] = "Num" -> a[3]

\* The type invariant: the root is there exactly when the tree is gone.
TypeOK ==
  /\ status \in {"parsed", "transformed", "aborted", "printed"}
  /\ status \in {"transformed", "printed"} => tree = Deleted /\ ast[1] = "Program"
  /\ status = "printed" <=> lines # <<>>

\* Once the tree is deleted, the AST holds all that the source said, in its order:
\* no declaration, statement, argument, operator or bracket is lost or swapped.
SourceKept == status \in {"transformed", "printed"} => Text(ast) = Yield(original)

\* "transform failure!" is no answer to a tree of the cminus grammar ...
OlderAccepted == status = "aborted" => original \notin OlderTrees

\* ... and the only answer to a tree of this repository's parser: it has no AST.
ParsedRefused == status \in {"transformed", "printed"} => original \notin ParsedTrees

Untyped(text) == SelectSeq(text, LAMBDA t : t \notin {"int", "float", "void"})

\* What is printed of each tree that has an AST, and its text but for the types.
PrintedTrees == {<<Printed(Transform(t), 0), Untyped(Yield(t))>> : t \in OlderTrees}

\* The printed tree says what the program is but for its types: programs that
\* differ in more than that print differently.
PrintTellsApart ==
  status = "printed" =>
    LET text == Untyped(Yield(original)) IN \A p \in PrintedTrees : p[1] = lines => p[2] = text
=============================================================================
