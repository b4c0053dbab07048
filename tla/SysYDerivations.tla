--------------------------- MODULE SysYDerivations ---------------------------
(***************************************************************************)
(* Sentences of the SysY grammar for SyntaxTree, as derivations.           *)
(***************************************************************************)
EXTENDS Integers, Sequences

D(name, parts) == [name |-> name, parts |-> parts]
Tok(text) == D(text, <<>>)

RECURSIVE Chain(_, _)
Chain(names, d) == IF names = <<>> THEN d ELSE D(Head(names), <<Chain(Tail(names), d)>>)

Ident(text) == Chain(<<"Ident", "ident_nondigit">>, Tok(text))
LongIdent == D("Ident", <<Ident("a"), Chain(<<"ident_digit">>, Tok("0"))>>)
One == Chain(<<"Number", "IntConst", "decimal_const", "nonzero_digit">>, Tok("1"))
ExpOf(unary) == Chain(<<"Exp", "AddExp", "MulExp">>, unary)
OneExp == ExpOf(Chain(<<"UnaryExp", "PrimaryExp">>, One))
AExp == ExpOf(Chain(<<"UnaryExp", "PrimaryExp", "LVal">>, Ident("a")))

\* An expression as a condition, and an integer with a fraction.
Cond == Chain(<<"Cond", "LOrExp", "LAndExp", "EqExp", "RelExp", "AddExp", "MulExp", "UnaryExp", "PrimaryExp">>, One)
Seq1 == Chain(<<"dig_seq", "digit">>, Tok("1"))
Fraction ==
  ExpOf(Chain(<<"UnaryExp", "PrimaryExp", "Number", "floatConst", "dec_flo_cons">>,
              D("fra_cons", <<Seq1, Tok("."), D("dig_seq", <<Seq1, Chain(<<"digit">>, Tok("5"))>>)>>)))

IntType == Chain(<<"BType">>, Tok("int"))
Var(def) == Chain(<<"Decl">>, D("VarDecl", <<IntType, def, Tok(";")>>))
Fun(params, items) ==
  D("FuncDef", <<Chain(<<"FuncType">>, Tok("void")), Ident("f"), Tok("(")>> \o params \o
               <<Tok(")"), D("Block", <<Tok("{")>> \o items \o <<Tok("}")>>)>>)
Param(text) == D("FuncFParam", <<IntType, Ident(text)>>)
OneParam == D("FuncFParams", <<Param("a")>>)
TwoParams == D("FuncFParams", <<Param("a"), Tok(","), D("FuncFParams", <<Param("b")>>)>>)
Items(stmts) ==
  LET Item(s) == D("BlockItem", <<D("Stmt", s)>>)
  IN IF Len(stmts) = 1 THEN <<D("CB", <<Item(stmts[1])>>)>>
     ELSE <<D("CB", <<Item(stmts[1]), D("CB", <<Item(stmts[2])>>)>>)>>

Assign(e) == <<D("LVal", <<Ident("a")>>), Tok("="), e, Tok(";")>>
IfElse == <<Tok("if"), Tok("("), Cond, Tok(")"), D("Stmt", <<Tok(";")>>), Tok("else"), D("Stmt", Assign(OneExp))>>
While == <<Tok("while"), Tok("("), Cond, Tok(")"), D("Stmt", <<Tok("break"), Tok(";")>>)>>
Minus == ExpOf(D("UnaryExp", <<Chain(<<"UnaryOp">>, Tok("-")), Chain(<<"UnaryExp", "PrimaryExp">>, One)>>))
CallExp == ExpOf(D("UnaryExp", <<Ident("f"), Tok("("), D("FuncRParams", <<AExp, Tok(","), D("FuncRParams", <<OneExp>>)>>), Tok(")")>>))

Unit(x) == D("CompUnit", <<x>>)
And(u, x) == D("CompUnit", <<u, x>>)
Program(u) == D("program", <<u>>)

\* Declarations, one parameter at most, integers only.
Kept ==
  {Program(And(Unit(Var(D("VarDef", <<LongIdent>>))), Fun(<<OneParam>>, <<>>))),
   Program(And(And(Unit(Var(D("VarDef", <<Ident("a"), Tok("="), D("InitVal", <<OneExp>>)>>))), Fun(<<>>, Items(<<IfElse>>))),
               Fun(<<OneParam>>, Items(<<While, <<Tok("return"), Minus, Tok(";")>>>>)))),
   Program(Unit(Fun(<<>>, Items(<<Assign(CallExp), <<CallExp, Tok(";")>>>>))))}

WithParams == {Program(Unit(Fun(<<TwoParams>>, <<>>)))}
WithFraction == {Program(Unit(Fun(<<>>, Items(<<Assign(Fraction)>>))))}

Sentences == Kept \cup WithParams \cup WithFraction
=============================================================================
