------------------------------- MODULE Typing -------------------------------
(***************************************************************************)
(* The types that CminusfBuilder computes with: every visitor looks at the *)
(* types of the values its children returned, converts where they differ   *)
(* and calls constructors of instructions, each of which asserts that its  *)
(* operands have the types it wants.  A failed assertion aborts the        *)
(* compiler.  The question is whether a correct program can meet one, and  *)
(* whether a value always has the type its expression has in the language. *)
(*                                                                         *)
(* Expressions are visited in post-order, so the values returned and not   *)
(* yet used form a stack.  An element is a value: c, the type of the       *)
(* expression in the source, which no code computes and which serves as    *)
(* reference, and ir, the type of the LightIR value.                       *)
(***************************************************************************)
EXTENDS Integers, SequencesExt

CONSTANTS Globals,         \* names declared outside functions
          Params,          \* the parameters of the function, in order
          Locals,          \* names declared in its body
          LoopConditions,  \* the source types a loop condition may have
          MaxStack         \* bound on the values waiting for their operator

ASSUME BoundAssumption == MaxStack \in Nat /\ Params \in Seq(ToSet(Params))

\* The programs for which no assertion fails: a loop condition is an int, and no name of
\* the function hides neg_idx_except, which the builder looks up by its name.
ASSUME NamesAssumption ==
  /\ LoopConditions \subseteq {"int"}
  /\ "neg_idx_except" \notin ToSet(Params) \cup Locals

VARIABLES inner,    \* the scopes, innermost last: the binding of each name
          returns,  \* source type of what the function returns, "none" outside one
          params,   \* source types of its parameters
          stack,    \* the values returned by visitors and not yet used
          failed    \* the visitors in which an assertion has failed

typingVars == <<inner, returns, params, stack, failed>>

----------------------------------------------------------------------------
(* Types.  A type is written outside in: <<"ptr", "arr", "i32">> is a pointer *)
(* to an array of i32.  Bad is what a failed assertion leaves.                  *)

Void == <<"void">>
I1 == <<"i1">>
I32 == <<"i32">>
Float == <<"float">>
Bad == <<"bad">>
Is(t, k) == t # <<>> /\ t[1] = k
IsInteger(t) == t \in {I1, I32}
ElementOf(t) == Tail(t)

\* What an assertion guards; an operand that is bad already stays so.
Asserted(ok, operands, t) == IF ok /\ Bad \notin operands THEN t ELSE Bad

\* PointerType, ArrayType, and FunctionType by its return and argument types.
PointerTo(t) == Asserted(\E k \in {"i1", "i32", "float", "arr", "ptr"} : Is(t, k), {t}, <<"ptr">> \o t)
ArrayOf(t) == Asserted(IsInteger(t) \/ t = Float \/ Is(t, "arr"), {t}, <<"arr">> \o t)
FunctionOf(ret, args) ==
  Asserted(/\ IsInteger(ret) \/ ret \in {Void, Float}
           /\ \A t \in args : IsInteger(t) \/ t = Float \/ Is(t, "ptr"),
           args \cup {ret}, <<"fn">> \o ret)

----------------------------------------------------------------------------
(* The constructors of instructions: the type of the result, if the types of *)
(* the operands satisfy the assertions.                                      *)

IBinaryInst(a, b) == Asserted(a = I32 /\ b = I32, {a, b}, I32)
FBinaryInst(a, b) == Asserted(a = Float /\ b = Float, {a, b}, Float)
ICmpInst(a, b) == Asserted(a = I32 /\ b = I32, {a, b}, I1)
FCmpInst(a, b) == Asserted(a = Float /\ b = Float, {a, b}, I1)
ZextInst(a, t) == Asserted(a = I1 /\ t = I32, {a}, t)
FpToSiInst(a, t) == Asserted(a = Float /\ IsInteger(t), {a}, t)
SiToFpInst(a) == Asserted(IsInteger(a), {a}, Float)
AllocaInst(t) == PointerTo(t)
LoadInst(p) ==
  Asserted(Is(p, "ptr") /\ (IsInteger(ElementOf(p)) \/ ElementOf(p) = Float \/ Is(ElementOf(p), "ptr")),
           {p}, ElementOf(p))
StoreInst(a, p) == Asserted(Is(p, "ptr") /\ ElementOf(p) = a, {a, p}, Void)
CondBr(c) == Asserted(c = I1, {c}, Void)

\* A void function returns nothing, any other a value of its own type.
ReturnInst(a, ret) == Asserted(a = ret, {a}, Void)

\* args against the parameter types of the callee f, whose value has type t.
CallInst(t, ret, wanted, args) ==
  Asserted(Is(t, "fn") /\ args = wanted, {args[n] : n \in DOMAIN args}, ret)

\* Each index after the first goes one array deeper.
GetElementPtrInst(p, idxs) ==
  LET ty == ElementOf(p)
      n == Len(idxs)
  IN  Asserted(/\ Is(p, "ptr")
               /\ \E k \in {"arr", "i1", "i32", "float"} : Is(ty, k)
               /\ \A i \in 1..n : IsInteger(idxs[i])
               /\ Is(ty, "arr") => \A i \in 2..(n - 1) : ty[i] = "arr",
               {p} \cup ToSet(idxs),
               PointerTo(IF Is(ty, "arr") THEN SubSeq(ty, n, Len(ty)) ELSE ty))

----------------------------------------------------------------------------
(* Source types, and the functions a program can call. *)

Scalars == {"int", "float"}
CTypes == Scalars \cup {"int*", "float*", "void"}

\* An array in an expression is the address of its first element.
Decayed(c) == CASE c = "int[]" -> "int*" [] c = "float[]" -> "float*" [] OTHER -> c

ElementC(c) == IF c \in {"int[]", "int*"} THEN "int" ELSE "float"

\* The LightIR type of a source type: VOID_T, INT32_T, INT32PTR_T and so on.
Lower(c) ==
  CASE c = "int" -> I32 [] c = "float" -> Float [] c = "void" -> Void
    [] c = "int*" -> <<"ptr", "i32">> [] c = "float*" -> <<"ptr", "float">>
    [] c = "int[]" -> ArrayOf(I32) [] c = "float[]" -> ArrayOf(Float)

\* The functions declared by the constructor of CminusfBuilder, and the one built.
Runtime == {"input", "output", "outputFloat", "neg_idx_except"}
Signature(f) ==
  CASE f = "input" -> [ret |-> "int", params |-> <<>>]
    [] f = "output" -> [ret |-> "void", params |-> <<"int">>]
    [] f = "outputFloat" -> [ret |-> "void", params |-> <<"float">>]
    [] f = "neg_idx_except" -> [ret |-> "void", params |-> <<>>]
    [] f = "f" -> [ret |-> returns, params |-> params]

Name == Runtime \cup {"f"} \cup Globals \cup ToSet(Params) \cup Locals
Unbound == [c |-> "none", ir |-> <<>>]
NoNames == [v \in Name |-> Unbound]
FunctionNamed == [c |-> "function", ir |-> <<"fn">>]

\* A scope with one more name; Scope::push leaves a name alone that it has.
Push(s, v, b) == [s EXCEPT ![v] = IF @ = Unbound THEN b ELSE @]

\* Scope::find: the innermost binding.
Find(v) ==
  LET bound == {n \in DOMAIN inner : inner[n][v] # Unbound}
  IN  IF bound = {} THEN Unbound ELSE inner[CHOOSE n \in bound : \A m \in bound : m <= n][v]
IsVariable(v) == Find(v).c \notin {"none", "function"}

----------------------------------------------------------------------------
(* The visitors. *)

TypingInit ==
  /\ inner = <<[v \in Name |-> IF v \in Runtime THEN FunctionNamed ELSE Unbound]>>
  /\ returns = "none"
  /\ params = <<>>
  /\ stack = <<>>
  /\ failed = {}

\* A visitor runs and has instructions created, through the create_ functions of
\* IRBuilder, that have these result types; it goes on if no assertion has failed.
Emit(visitor, results) == failed' = IF Bad \in results THEN failed \cup {visitor} ELSE failed
Running == failed = {}
InFunction == Running /\ returns # "none"
Room == Len(stack) < MaxStack

\* The value n places below the top, and the stack with n values fewer and one more.
Value(n) == stack[Len(stack) - n]
Replace(n, c, t) == stack' = Append(SubSeq(stack, 1, Len(stack) - n), [c |-> c, ir |-> t])

\* ASTVarDeclaration, outside and inside of functions; declarations stand before
\* statements, and a name is declared once.
Declare(v, c) ==
  /\ Running
  /\ stack = <<>>
  /\ v \in IF returns = "none" THEN Globals ELSE Locals
  /\ Last(inner)[v] = Unbound
  /\ inner' = [inner EXCEPT ![Len(inner)] = Push(@, v, [c |-> c, ir |-> AllocaInst(Lower(c))])]
  /\ Emit("declaration", {AllocaInst(Lower(c))})
  /\ UNCHANGED <<returns, params, stack>>

\* ASTParam: the variable that a parameter is stored to.
ParamVariable(c) == AllocaInst(Lower(c))

\* ASTFunDeclaration up to the body.
BeginFunction(c, cs) ==
  /\ Running
  /\ inner[1]["f"] = Unbound
  /\ returns' = c
  /\ params' = cs
  /\ inner' = <<Push(inner[1], "f", FunctionNamed),
                [v \in Name |-> IF \E n \in DOMAIN cs : Params[n] = v
                                  THEN LET n == CHOOSE n \in DOMAIN cs : Params[n] = v
                                       IN  [c |-> cs[n], ir |-> ParamVariable(cs[n])]
                                  ELSE Unbound]>>
  /\ Emit("function", {FunctionOf(Lower(c), {Lower(cs[n]) : n \in DOMAIN cs})}
                      \cup {StoreInst(Lower(cs[n]), ParamVariable(cs[n])) : n \in DOMAIN cs})
  /\ UNCHANGED stack

\* The return that ends a function whose body lets it end, with a zero if it needs one.
ReturnZero == ReturnInst(Lower(returns), Lower(returns))

EndFunction ==
  /\ InFunction
  /\ stack = <<>>
  /\ Emit("function", {ReturnZero})
  /\ inner' = Front(inner)
  /\ returns' = "none"
  /\ UNCHANGED <<params, stack>>

\* ASTNum: the literal goes through a variable of its own.
Num(c) ==
  /\ InFunction /\ Room
  /\ LET p == AllocaInst(Lower(c))
     IN  Emit("num", {p, StoreInst(Lower(c), p)}) /\ Replace(0, c, LoadInst(p))
  /\ UNCHANGED <<inner, returns, params>>

\* ASTVar without a subscript.
Var(v) ==
  /\ InFunction /\ Room
  /\ IsVariable(v)
  /\ LET p == Find(v).ir
         t == IF ElementOf(p) \in {Float, I32} \/ Is(ElementOf(p), "ptr")
                THEN LoadInst(p) ELSE GetElementPtrInst(p, <<I32, I32>>)
     IN  Emit("var", {t}) /\ Replace(0, Decayed(Find(v).c), t)
  /\ UNCHANGED <<inner, returns, params>>

\* A subscript becomes an int.
Subscript(sub) == IF sub = Float THEN FpToSiInst(sub, I32) ELSE sub

\* ASTVar with subscript sub: the test for a negative one, which reports it by a
\* call and returns, and the address of the element.
CheckIndex(sub) ==
  {ICmpInst(Subscript(sub), I32), CondBr(ICmpInst(Subscript(sub), I32)),
   CallInst(Find("neg_idx_except").ir, Void, <<>>, <<>>), ReturnZero}
Element(p, sub) ==
  IF Is(ElementOf(p), "ptr") THEN GetElementPtrInst(LoadInst(p), <<Subscript(sub)>>)
  ELSE IF Is(ElementOf(p), "arr") THEN GetElementPtrInst(p, <<I32, Subscript(sub)>>)
  ELSE GetElementPtrInst(p, <<Subscript(sub)>>)
IsArray(v) == IsVariable(v) /\ Find(v).c \notin Scalars

ElementVar(v) ==
  /\ InFunction /\ Len(stack) > 0
  /\ IsArray(v) /\ Value(0).c \in Scalars
  /\ LET p == Element(Find(v).ir, Value(0).ir)
     IN  /\ Emit("var", CheckIndex(Value(0).ir) \cup {p})
         /\ Replace(1, ElementC(Find(v).c), LoadInst(p))
  /\ UNCHANGED <<inner, returns, params>>

\* What is stored where a value of type t is wanted and a has another type.
Converted(a, t) ==
  IF a = t THEN a ELSE IF a = I32 THEN SiToFpInst(a) ELSE FpToSiInst(a, I32)

\* ASTAssignExpression: the value is visited first, then the variable.
AssignVar(v) ==
  /\ InFunction /\ Len(stack) > 0
  /\ IsVariable(v) /\ Find(v).c \in Scalars /\ Value(0).c \in Scalars
  /\ LET p == Find(v).ir
         a == Converted(Value(0).ir, ElementOf(p))
     IN  Emit("assign", {StoreInst(a, p)}) /\ Replace(1, Find(v).c, LoadInst(p))
  /\ UNCHANGED <<inner, returns, params>>

AssignElement(v) ==
  /\ InFunction /\ Len(stack) > 1
  /\ IsArray(v) /\ Value(0).c \in Scalars /\ Value(1).c \in Scalars
  /\ LET p == Element(Find(v).ir, Value(0).ir)
         a == Converted(Value(1).ir, ElementOf(p))
     IN  /\ Emit("assign", CheckIndex(Value(0).ir) \cup {StoreInst(a, p)})
         /\ Replace(2, ElementC(Find(v).c), LoadInst(p))
  /\ UNCHANGED <<inner, returns, params>>

\* Two operands of different types: the int becomes a float.
Promoted(a, b) == IF a = b THEN a ELSE IF a = I32 THEN SiToFpInst(a) ELSE a

\* ASTAdditiveExpression and ASTTerm.
Arithmetic(a, b) ==
  LET l == Promoted(a, b)
      r == Promoted(b, a)
  IN  IF l = I32 THEN IBinaryInst(l, r) ELSE FBinaryInst(l, r)

\* Slip: the comparison is used as it is.
CompareUnextended(a, b) == IF Promoted(a, b) = I32 THEN ICmpInst(a, b)
                           ELSE FCmpInst(Promoted(a, b), Promoted(b, a))

\* ASTSimpleExpression: the comparison is extended to an int.
Compare(a, b) ==
  LET l == Promoted(a, b)
      r == Promoted(b, a)
  IN  ZextInst(IF l = I32 THEN ICmpInst(l, r) ELSE FCmpInst(l, r), I32)

Binary(isCompare) ==
  /\ InFunction /\ Len(stack) > 1
  /\ Value(0).c \in Scalars /\ Value(1).c \in Scalars
  /\ LET t == IF isCompare THEN Compare(Value(1).ir, Value(0).ir)
                           ELSE Arithmetic(Value(1).ir, Value(0).ir)
         c == IF ~isCompare /\ "float" \in {Value(0).c, Value(1).c} THEN "float" ELSE "int"
     IN  Emit("binary", {t}) /\ Replace(2, c, t)
  /\ UNCHANGED <<inner, returns, params>>

\* ASTCall: an argument of another type than the parameter is converted; the
\* program passes as many as there are parameters, and arrays where they belong.
ArgConverted(t, want) ==
  IF t = want THEN t ELSE IF t = I32 THEN SiToFpInst(t)
  ELSE IF t = Float THEN FpToSiInst(t, I32) ELSE t

CallOf(f) ==
  LET wanted == Signature(f).params
      n == Len(wanted)
      args == SubSeq(stack, Len(stack) - n + 1, Len(stack))
      fits(c, want) == c = want \/ (c \in Scalars /\ want \in Scalars)
  IN  /\ InFunction
      /\ Find(f).c = "function"
      /\ Len(stack) >= n /\ Len(stack) - n < MaxStack
      /\ \A k \in 1..n : fits(args[k].c, wanted[k])
      /\ LET ret == Signature(f).ret
             t == CallInst(Find(f).ir, Lower(ret), [k \in 1..n |-> Lower(wanted[k])],
                           [k \in 1..n |-> ArgConverted(args[k].ir, Lower(wanted[k]))])
         IN  Emit("call", {t}) /\ Replace(n, ret, t)
      /\ UNCHANGED <<inner, returns, params>>

\* A statement that uses the value of its expression, the only one left.
Consume(results, visitor) ==
  /\ InFunction
  /\ Len(stack) = 1
  /\ Emit(visitor, results)
  /\ stack' = <<>>
  /\ UNCHANGED <<inner, returns, params>>

ExpressionStmt == Consume({}, "expression")

\* ASTSelectionStmt.
SelectionStmt ==
  LET p == Value(0).ir
  IN  /\ Len(stack) = 1 /\ Value(0).c \in Scalars
      /\ Consume({CondBr(IF IsInteger(p) THEN ICmpInst(p, I32) ELSE FCmpInst(p, Float))}, "if")

\* ASTIterationStmt: for ints and floats the comparison is one of integers.
IterationStmt ==
  LET p == Value(0).ir
  IN  /\ Len(stack) = 1 /\ Value(0).c \in LoopConditions
      /\ Consume({CondBr(IF IsInteger(p) THEN ICmpInst(p, I32) ELSE ICmpInst(p, Float))}, "while")

\* Slip: an int function converts what it returns only when that is an int.
ReturnConvertedSwapped(p, t) ==
  IF p = t THEN p ELSE IF t = Float THEN FpToSiInst(p, I32) ELSE SiToFpInst(p)

ReturnConverted(p, t) ==
  IF p = t THEN p ELSE IF IsInteger(t) THEN FpToSiInst(p, I32) ELSE SiToFpInst(p)

\* ASTReturnStmt; a void function returns without a value, another one with it.
ReturnStmt ==
  \/ /\ InFunction /\ stack = <<>> /\ returns = "void"
     /\ Emit("return", {ReturnInst(Void, Lower(returns))})
     /\ UNCHANGED <<inner, returns, params, stack>>
  \/ /\ Len(stack) = 1 /\ returns \in Scalars /\ Value(0).c \in Scalars
     /\ Consume({ReturnInst(ReturnConverted(Value(0).ir, Lower(returns)), Lower(returns))}, "return")

TypingNext ==
  \/ \E v \in Globals \cup Locals, c \in Scalars \cup {"int[]", "float[]"} : Declare(v, c)
  \/ \E c \in Scalars \cup {"void"}, n \in 0..Len(Params) :
       \E cs \in [1..n -> Scalars \cup {"int*", "float*"}] : BeginFunction(c, cs)
  \/ EndFunction
  \/ \E c \in Scalars : Num(c)
  \/ \E v \in Name : Var(v) \/ ElementVar(v) \/ AssignVar(v) \/ AssignElement(v)
  \/ \E isCompare \in BOOLEAN : Binary(isCompare)
  \/ \E f \in Runtime \cup {"f"} : CallOf(f)
  \/ ExpressionStmt \/ SelectionStmt \/ IterationStmt \/ ReturnStmt

TypingSpec == TypingInit /\ [][TypingNext]_typingVars

----------------------------------------------------------------------------
(* Properties. *)

\* The type invariant: scopes, parameters and values are of the types of the language.
TypingTypeOK ==
  /\ Len(inner) \in 1..2
  /\ returns \in Scalars \cup {"void", "none"}
  /\ \A n \in DOMAIN params : params[n] \in CTypes \ {"void"}
  /\ Len(stack) <= MaxStack
  /\ \A n \in DOMAIN stack : stack[n].c \in CTypes

\* No program that uses its names as what they are makes a constructor fail: the
\* conversions of the visitors always bring operands to the types that the
\* assertions of Instruction.cpp and Type.cpp want.
NoAssertionFails == failed = {}

\* A value has the type that its expression has in the source: an operator on an
\* int and a float is one on floats, a comparison is an int (and not the i1 of the
\* instruction), an array is the address of its first element, also when the
\* operands went through subscripts, calls and assignments.
TypesAgree ==
  TypingTypeOK /\ (Running => \A n \in DOMAIN stack : stack[n].ir = Lower(stack[n].c))
=============================================================================
