--------------------------- MODULE CodeGenPrograms ---------------------------
(* Programs for CodeGen. *)
EXTENDS Integers, SequencesExt

v(id) == <<"v", id>>
k(n) == <<"i32", n>>
fk(n) == <<"float", n>>
const(ty, n) == IF ty = "float" THEN fk(n) ELSE k(n)

arg(id, ty) == [id |-> id, op |-> "arg", ty |-> ty]
I(id, op, ty, args, more) == [id |-> id, op |-> op, ty |-> ty, args |-> args, more |-> more]
alloca(id, ty, len) == I(id, "alloca", "ptr", <<>>, <<ty, len>>)
gep(id, base, ty, n) == I(id, "getelementptr", "ptr", <<base>>, <<ty, n>>)
load(id, ty, p) == I(id, "load", ty, <<p>>, <<>>)
store(o, p) == I(0, "store", "void", <<o, p>>, <<>>)
compute(id, ty, args) == I(id, "compute", ty, args, <<>>)
call(id, ty, f, args) == I(id, "call", ty, args, f)
phi(id, ty, args, from) == I(id, "phi", ty, args, from)
br(to) == I(0, "br", "void", <<>>, to)
cbr(c, to) == I(0, "br", "void", <<c>>, to)
ret(args) == I(0, "ret", "void", args, <<>>)

\* A callee that keeps its parameters in locals, as the builder makes it, with an
\* array and a comparison, and that returns one of them.
Keep(tys, n) ==
  LET params == [m \in DOMAIN tys |-> arg(m, tys[m])]
      locals == [m \in DOMAIN tys |-> alloca(10 + m, tys[m], 1)]
      copies == [m \in DOMAIN tys |-> store(v(m), v(10 + m))]
  IN  [args |-> params,
       blocks |-> << locals \o copies \o
         << alloca(20, "i32", n),
            compute(21, "i1", <<k(1), k(2)>>),
            gep(22, v(20), "i32", n - 1), store(k(7), v(22)),
            compute(23, "i32", <<v(21)>>),
            gep(24, v(20), "i32", 0), store(v(23), v(24)),
            load(25, tys[1], v(11)), load(26, "i32", v(22)),
            compute(27, "i32", <<v(21), v(26)>>),
            ret(<<v(25)>>) >> >>]

\* A callee that uses its parameters where they are and returns the last.
Use(tys) ==
  [args |-> [m \in DOMAIN tys |-> arg(m, tys[m])],
   blocks |-> << << compute(10, "i1", [m \in DOMAIN tys |-> v(m)]),
                    compute(11, tys[Len(tys)], <<v(10), v(Len(tys))>>),
                    ret(<<v(11)>>) >> >>]

\* main with two locals, a loop and a call in it; the arguments are a local's
\* address, a local's value, a result, or a constant.
Actual(ty) == CASE ty = "ptr" -> v(1) [] ty = "i32" -> v(6) [] ty = "float" -> fk(3)
Main(tys, ty) ==
  [args |-> <<>>,
   blocks |->
     << << alloca(1, "i32", 1), alloca(2, ty, 2), store(k(5), v(1)), br(<<2>>) >>,
        << phi(3, "i32", <<k(0), v(6)>>, <<1, 3>>),
           compute(4, "i1", <<v(3)>>), cbr(v(4), <<3, 4>>) >>,
        << load(5, "i32", v(1)), compute(6, "i32", <<v(5), v(3)>>),
           gep(7, v(2), ty, 1), store(IF ty = "ptr" THEN v(1) ELSE v(6), v(7)),
           load(8, ty, v(7)), call(9, tys[1], "f", [m \in DOMAIN tys |-> Actual(tys[m])]),
           store(v(6), v(1)), compute(10, "i32", <<v(9), v(8), v(6)>>), br(<<2>>) >>,
        << load(11, "i32", v(1)), compute(12, "i32", <<v(3), v(11)>>), ret(<<k(0)>>) >> >>]

\* Lists of parameters of one register class, and lists with both.  Locals of
\* type float are left to FloatLocals.
OneClass == {<<"i32">>, <<"ptr">>, <<"float">>, <<"i32", "i32">>, <<"i32", "ptr">>,
             <<"ptr", "i32", "i32">>, <<"float", "float">>}
Mixed == {<<"i32", "float">>, <<"float", "i32">>}

CallsAndLoops ==
  {[main |-> Main(tys, ty), f |-> Keep(tys, n)] :
     tys \in {t \in OneClass : "float" \notin {t[m] : m \in DOMAIN t}}, ty \in {"i32", "ptr"}, n \in {1, 3}}
  \cup {[main |-> Main(tys, "i32"), f |-> [Use(tys) EXCEPT !.blocks[1][3] = ret(<<v(1)>>)]] : tys \in OneClass}

\* The loop  while (..) { t = x; x = y; y = t; }  after Mem2Reg.
Swap ==
  {[main |-> [args |-> <<>>,
     blocks |->
       << << br(<<2>>) >>,
          << phi(1, "i32", <<k(1), v(2)>>, <<1, 3>>), phi(2, "i32", <<k(2), v(1)>>, <<1, 3>>),
             compute(3, "i1", <<v(1)>>), cbr(v(3), <<3, 4>>) >>,
          << br(<<2>>) >>,
          << ret(<<v(2)>>) >> >>]]}

\* int i; float a[2]; ... a[1] = 1; a[0] = 2; a[1] is read.
FloatArray ==
  {[main |-> [args |-> <<>>,
     blocks |->
       << << alloca(1, "float", 2),
             gep(2, v(1), "float", 1), store(fk(1), v(2)),
             gep(3, v(1), "float", 0), store(fk(2), v(3)),
             load(4, "float", v(2)), ret(<<k(0)>>) >> >>]]}

\* int i; float x; x = 1; i = input(); x is read: the scalar is eight bytes below
\* its slot, of which allocate() has reserved four.
FloatScalar ==
  {[main |-> [args |-> <<>>,
     blocks |->
       << << alloca(1, "i32", 1), alloca(2, "float", 1), store(fk(1), v(2)),
             compute(3, "i32", <<>>), store(v(3), v(1)),
             load(4, "float", v(2)), ret(<<k(0)>>) >> >>]]}

FloatLocals == FloatArray \cup FloatScalar

MixedCall ==
  {[main |-> [args |-> <<>>,
     blocks |-> << << call(1, tys[Len(tys)], "f", [m \in DOMAIN tys |-> const(tys[m], m)]),
                      ret(<<k(0)>>) >> >>],
    f |-> Use(tys)] : tys \in Mixed}
=============================================================================
