----------------------------- MODULE CminusTrees -----------------------------
(***************************************************************************)
(* Syntax trees for Ast: those of the older cminus grammar, whose node     *)
(* names ast.cpp looks for.  The parser of the repository makes none of    *)
(* them.                                                                   *)
(***************************************************************************)
EXTENDS Integers, Sequences

T(name, kids) == [name |-> name, kids |-> kids]
Leaf(text) == T(text, <<>>)
Epsilon == Leaf("epsilon")
Spec1(type) == T("type-specifier", <<Leaf(type)>>)

----------------------------------------------------------------------------
(* The cminus grammar, each production bounded by the sets of its parts. *)

Factor(x) == T("factor", <<x>>)
Term1(f) == T("term", <<f>>)
Add1(t) == T("additive-expression", <<t>>)
Simple1(a) == T("simple-expression", <<a>>)
Exp1(s) == T("expression", <<s>>)
AsExp(f) == Exp1(Simple1(Add1(Term1(f))))

Numbers == {Factor(T("integer", <<Leaf("1")>>)), Factor(T("float", <<Leaf("2.0")>>))}
VarA == T("var", <<Leaf("a")>>)
Factors0 == Numbers \cup {Factor(VarA)}
ArgList(list) == IF Len(list) = 1 THEN T("arg-list", list)
                 ELSE T("arg-list", <<T("arg-list", <<list[1]>>), Leaf(","), list[2]>>)
Indexed(e) == T("var", <<Leaf("a"), Leaf("["), e, Leaf("]")>>)
CallF(list) == T("call", <<Leaf("f"), Leaf("("), T("args", <<list>>), Leaf(")")>>)

Mul(f, op, g) == T("term", <<Term1(f), T("mulop", <<Leaf(op)>>), g>>)
Plus(t, op, u) == T("additive-expression", <<t, T("addop", <<Leaf(op)>>), u>>)
Rel(x, op, y) == T("simple-expression", <<x, T("relop", <<Leaf(op)>>), y>>)

\* One, two or three operands of each level, and all operators.
Terms0 == {Term1(f) : f \in Factors0}
Terms1 == Terms0 \cup {Mul(f, op, Factor(VarA)) : f \in Factors0, op \in {"*", "/"}}
                 \cup {T("term", <<Mul(Factor(VarA), op, Factor(VarA)), T("mulop", <<Leaf("/")>>), f>>) :
                          f \in Factors0, op \in {"*", "/"}}
Adds0 == {Add1(t) : t \in Terms0}
Adds1 == {Add1(t) : t \in Terms1}
           \cup {Plus(Add1(t), op, Term1(Factor(VarA))) : t \in Terms1, op \in {"+", "-"}}
           \cup {Plus(Plus(Add1(t), op, Term1(Factor(VarA))), "-", t) : t \in Terms0, op \in {"+", "-"}}
Exps0 == {Exp1(Simple1(x)) : x \in Adds0}
Exps1 == {Exp1(Simple1(x)) : x \in Adds1}
           \cup {Exp1(Rel(x, op, Add1(Term1(Factor(VarA))))) :
                    x \in Adds0, op \in {"<=", "<", ">", ">=", "==", "!="}}
           \cup {T("expression", <<VarA, Leaf("="), e>>) : e \in Exps0}

\* Parentheses, subscripts, calls and nested assignments around a smaller one.
Around(E) ==
  {AsExp(T("factor", <<Leaf("("), e, Leaf(")")>>)) : e \in E}
  \cup {AsExp(Factor(Indexed(e))) : e \in E}
  \cup {T("expression", <<Indexed(e), Leaf("="), e>>) : e \in E}
  \cup {AsExp(Factor(CallF(ArgList(<<e>>)))) : e \in E}
  \cup {AsExp(Factor(CallF(ArgList(<<e, d>>)))) : e \in E, d \in Exps0}
  \cup {AsExp(Factor(CallF(Epsilon)))}

Exps == Exps1 \cup Around(Exps1)

Statement(s) == T("statement", <<s>>)
ExpStmt(e) == Statement(T("expression-stmt", <<e, Leaf(";")>>))
Empty == Statement(T("expression-stmt", <<Leaf(";")>>))
Return1(e) == Statement(T("return-stmt", <<Leaf("return"), e, Leaf(";")>>))
Return0 == Statement(T("return-stmt", <<Leaf("return"), Leaf(";")>>))
SomeExp == AsExp(Factor(VarA))
Body0 == {Empty, Return0, ExpStmt(SomeExp), Return1(SomeExp)}

DeclList == [n \in 0..2 |-> LET Decl(i) == T("var-declaration", <<Spec1("int"), Leaf(IF i = 1 THEN "a" ELSE "b"), Leaf(";")>>)
                                 L0 == T("local-declarations", <<Epsilon>>)
                                 L1 == T("local-declarations", <<L0, Decl(1)>>)
                             IN CASE n = 0 -> L0 [] n = 1 -> L1 [] OTHER -> T("local-declarations", <<L1, Decl(2)>>)]
StmtList(ss) ==
  LET S0 == T("statement-list", <<Epsilon>>)
      S1 == T("statement-list", <<S0, ss[1]>>)
  IN IF ss = <<>> THEN S0 ELSE IF Len(ss) = 1 THEN S1 ELSE T("statement-list", <<S1, ss[2]>>)
Compound(n, ss) == T("compound-stmt", <<Leaf("{"), DeclList[n], StmtList(ss), Leaf("}")>>)

If(s) == Statement(T("selection-stmt", <<Leaf("if"), Leaf("("), SomeExp, Leaf(")"), s>>))
IfElse(s, t) ==
  Statement(T("selection-stmt", <<Leaf("if"), Leaf("("), SomeExp, Leaf(")"), s, Leaf("else"), t>>))
While(s) == Statement(T("iteration-stmt", <<Leaf("while"), Leaf("("), SomeExp, Leaf(")"), s>>))
Body1 == Body0 \cup {If(s) : s \in Body0} \cup {IfElse(s, t) : s, t \in Body0}
               \cup {While(s) : s \in Body0} \cup {Statement(Compound(1, <<s>>)) : s \in Body0}
               \cup {If(IfElse(s, t)) : s, t \in Body0} \cup {IfElse(If(s), t) : s, t \in Body0}

Fun(type, formals, body) ==
  T("fun-declaration", <<Spec1(type), Leaf("f"), Leaf("("), T("params", <<formals>>), Leaf(")"), body>>)
Param(type, array) ==
  T("param", <<Spec1(type), Leaf("a")>> \o (IF array THEN <<Leaf("["), Leaf("]")>> ELSE <<>>))
OneParam(p) == T("param-list", <<p>>)
TwoParams(p, q) == T("param-list", <<OneParam(p), Leaf(","), q>>)
SomeParams == {Param("int", FALSE), Param("float", TRUE)}
ParamLists == {Leaf("void")} \cup {OneParam(p) : p \in SomeParams}
                \cup {TwoParams(p, q) : p, q \in SomeParams}
                \cup {T("param-list", <<TwoParams(p, q), Leaf(","), Param("float", FALSE)>>) : p, q \in SomeParams}

Declaration(d) == T("declaration", <<d>>)
Array == T("var-declaration", <<Spec1("float"), Leaf("a"), Leaf("["), Leaf("3"), Leaf("]"), Leaf(";")>>)
Program(d) == T("program", <<T("declaration-list", <<Declaration(d)>>)>>)
Program2(d, e) ==
  T("program", <<T("declaration-list", <<T("declaration-list", <<Declaration(d)>>), Declaration(e)>>)>>)

\* An expression, a body, a parameter list, or declarations vary; the rest is fixed.
AllTrees ==
  {Program(Fun("int", Leaf("void"), Compound(0, <<Return1(e)>>))) : e \in Exps}
  \cup {Program(Fun("void", Leaf("void"), Compound(n, <<s>>))) : s \in Body1, n \in 0..2}
  \cup {Program(Fun("float", Leaf("void"), Compound(1, <<s, t>>))) : s, t \in Body0}
  \cup {Program(Fun("void", p, Compound(0, <<>>))) : p \in ParamLists}
  \cup {Program2(Array, Fun("void", p, Compound(0, <<>>))) : p \in ParamLists}
=============================================================================
