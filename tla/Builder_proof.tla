---------------------------- MODULE Builder_proof ----------------------------
(***************************************************************************)
(* Proofs about Builder, for functions of any size and shape: the builder  *)
(* never inserts past a terminator, every function it finishes is well     *)
(* formed, the block of an alloca dominates the uses of it, and the        *)
(* context is restored.  The inductive invariant has three layers, each    *)
(* proved with the ones before it: the shape of the call stack and the     *)
(* scopes; what the visitors in progress know of the blocks; and the       *)
(* regions of blocks that control enters from one block only.              *)
(***************************************************************************)
EXTENDS Builder, FiniteSetTheorems, SequenceTheorems, WellFoundedInduction, TLAPS

----------------------------------------------------------------------------
(* The visitors in progress. *)

Bodies == {"compound", "decls", "stmts"}
Loops == {"while", "endBody"}
Statements == Bodies \cup Loops \cup {"stmt", "return", "if", "endArm"}
Operators == {"subscript", "assign", "right", "combine", "call"}
Expressions == Operators \cup {"expr", "var"}
Place == Statements \cup Expressions \cup {"endFunction"}

\* A visitor that waits for a statement, and one that waits for an expression.
AfterStatement == {"stmts", "endArm", "endBody"}
AfterExpression == Operators \cup {"if", "while", "return"}

\* What the visitors keep in locals.
Local(c) ==
  /\ c.at \in {"decls", "stmts", "if"} => c.locals \in BOOLEAN
  /\ c.at = "endArm" => c.locals \in [out : Block, else : 0..N]
  /\ c.at = "while" => c.locals \in [condition : Block, last : Block]
  /\ c.at = "endBody" => c.locals \in [condition : Block, last : Block, out : Block]
  /\ c.at = "subscript" => c.locals \in Block

\* Who calls whom.
Child(p) ==
  IF p = "endFunction" THEN Bodies
  ELSE IF p \in AfterStatement THEN Statements \cup Expressions
  ELSE IF p \in AfterExpression THEN Expressions
  ELSE {}

\* Visitors that make further calls were begun when there was room.
Roomy == {"if", "endArm", "while", "endBody", "right"}

CallInv ==
  /\ calls \in Seq(ToSet(calls))
  /\ Len(calls) <= MaxCalls + 1
  /\ \A k \in 1..Len(calls) :
       /\ calls[k].at \in Place /\ Local(calls[k])
       /\ k = 1 <=> calls[k].at = "endFunction"
       /\ k > 1 => calls[k].at \in Child(calls[k - 1].at)
       /\ calls[k].at \in Roomy => k < MaxCalls

----------------------------------------------------------------------------
(* What an action does to the visitors in progress. *)

\* The visitors below the running one stay, and new ones are above them.
Steps(s) ==
  /\ Len(calls) \in Nat \ {0} /\ Len(s) \in 0..2
  /\ Len(calls') = Len(calls) - 1 + Len(s)
  /\ \A k \in 1..Len(calls) - 1 : calls'[k] = calls[k]
  /\ \A k \in 1..Len(s) : calls'[Len(calls) - 1 + k] = s[k]

\* A sequence is one of its own elements.
LEMMA SeqOfElements ==
  ASSUME NEW S, NEW s \in Seq(S)
  PROVE  s \in Seq(ToSet(s)) /\ Len(s) \in Nat /\ DOMAIN s = 1..Len(s) /\ \A k \in 1..Len(s) : s[k] \in ToSet(s)
BY LenProperties, SeqDef DEF ToSet

LEMMA FrontProperties ==
  ASSUME NEW S, NEW s \in Seq(S), s # <<>>
  PROVE  /\ Front(s) \in Seq(S) /\ Len(s) \in Nat \ {0} /\ Len(Front(s)) = Len(s) - 1
         /\ \A k \in 1..Len(s) - 1 : Front(s)[k] = s[k]
<1> DEFINE f == Front(s)
           n == Len(s) - 1
<1>1. Len(s) \in Nat \ {0}
  BY EmptySeq
<1>2. n \in Int /\ 1 \in Int /\ \A k \in 1..n : s[k] \in S
  BY <1>1, ElementOfSeq
<1>3. f = SubSeq(s, 1, n)
  BY DEF Front
<1> HIDE DEF f, n
<1>4. /\ f \in Seq(S)
      /\ Len(f) = IF 1 <= n THEN n - 1 + 1 ELSE 0
      /\ \A k \in 1..n - 1 + 1 : f[k] = s[1 + k - 1]
  BY <1>2, <1>3, SubSeqProperties
<1>5. n = Len(s) - 1
  BY DEF n
<1>6. Len(f) = n
  BY <1>1, <1>4, <1>5
<1>7. \A k \in 1..n : f[k] = s[k]
  <2>1. TAKE k \in 1..n
  <2>2. k \in 1..n - 1 + 1 /\ 1 + k - 1 = k
    BY <1>1, <1>5
  <2> QED BY <1>4, <2>2
<1> QED
  BY <1>1, <1>4, <1>5, <1>6, <1>7 DEF f

\* Continue replaces the running visitor.
LEMMA ContinueSteps ==
  ASSUME calls \in Seq(ToSet(calls)), calls # <<>>, NEW s, s \in Seq(ToSet(s)), Len(s) \in 0..2, Continue(s)
  PROVE  Steps(s) /\ calls' \in Seq(ToSet(calls'))
<1> DEFINE S == ToSet(calls) \cup ToSet(s)
           f == Front(calls)
<1>1. calls \in Seq(S) /\ s \in Seq(S)
  BY SeqMonotonic
<1>2. /\ f \in Seq(S) /\ Len(calls) \in Nat \ {0} /\ Len(f) = Len(calls) - 1
      /\ \A k \in 1..Len(calls) - 1 : f[k] = calls[k]
  BY <1>1, FrontProperties
<1>3. calls' = f \o s
  BY DEF Continue
<1> HIDE DEF S, f
<1>4. /\ f \o s \in Seq(S)
      /\ Len(f \o s) = Len(f) + Len(s)
      /\ \A k \in 1..Len(f) + Len(s) : (f \o s)[k] = IF k <= Len(f) THEN f[k] ELSE s[k - Len(f)]
  BY <1>1, <1>2, ConcatProperties
<1>5. calls' \in Seq(ToSet(calls'))
  <2>1. \A c : c \in Seq(S) => c \in Seq(ToSet(c))
    BY SeqOfElements
  <2> QED BY <1>3, <1>4, <2>1
<1>6. Len(calls') = Len(calls) - 1 + Len(s)
  BY <1>2, <1>3, <1>4
<1>7. ASSUME NEW k \in 1..Len(calls) - 1 PROVE calls'[k] = calls[k]
  <2>1. k \in 1..Len(f) + Len(s) /\ k <= Len(f)
    BY <1>2
  <2> QED BY <1>2, <1>3, <1>4, <2>1
<1>8. ASSUME NEW k \in 1..Len(s) PROVE calls'[Len(calls) - 1 + k] = s[k]
  <2>1. Len(calls) - 1 + k \in 1..Len(f) + Len(s) /\ ~ (Len(calls) - 1 + k <= Len(f)) /\ (Len(calls) - 1 + k) - Len(f) = k
    BY <1>2
  <2> QED BY <1>3, <1>4, <2>1
<1> QED
  BY <1>2, <1>5, <1>6, <1>7, <1>8 DEF Steps

\* Literal sequences.
LEMMA Pairs ==
  ASSUME NEW c, NEW d
  PROVE  /\ <<>> \in Seq(ToSet(<<>>)) /\ <<c>> \in Seq(ToSet(<<c>>)) /\ <<c, d>> \in Seq(ToSet(<<c, d>>))
         /\ Len(<<>>) = 0 /\ Len(<<c>>) = 1 /\ Len(<<c, d>>) = 2
         /\ <<c>>[1] = c /\ <<c, d>>[1] = c /\ <<c, d>>[2] = d
         /\ ToSet(<<>>) = {} /\ ToSet(<<c>>) = {c} /\ ToSet(<<c, d>>) = {c, d}
<1>1. <<c>> \in Seq({c}) /\ <<c, d>> \in Seq({c, d}) /\ <<>> \in Seq({})
  OBVIOUS
<1>2. DOMAIN <<c, d>> = 1..2 /\ DOMAIN <<c>> = 1..1 /\ DOMAIN <<>> = 1..0
  OBVIOUS
<1>3. ToSet(<<>>) = {} /\ ToSet(<<c>>) = {c} /\ ToSet(<<c, d>>) = {c, d}
  BY <1>2 DEF ToSet
<1> QED
  BY <1>1, <1>3

\* An append keeps the running visitor.
LEMMA AppendContinues ==
  ASSUME calls \in Seq(ToSet(calls)), calls # <<>>, NEW c, calls' = Append(calls, c)
  PROVE  Continue(<<Top, c>>)
<1> DEFINE S == ToSet(calls) \cup {c}
           f == Front(calls)
           n == Len(calls)
<1>1. calls \in Seq(S) /\ <<Top, c>> \in Seq(S)
  <2>1. calls \in Seq(S)
    BY SeqMonotonic
  <2>2. n \in 1..n
    BY EmptySeq
  <2>3. Top \in S
    BY <2>1, <2>2, ElementOfSeq DEF Top
  <2> QED BY <2>1, <2>3
<1>2. f \in Seq(S) /\ n \in Nat \ {0} /\ Len(f) = n - 1 /\ \A k \in 1..n - 1 : f[k] = calls[k]
  BY <1>1, FrontProperties
<1>3. Top = calls[n]
  BY DEF Top
<1> HIDE DEF f, S, n
<1> DEFINE g == f \o <<Top, c>>
           h == Append(calls, c)
<1>4. Len(<<Top, c>>) = 2 /\ <<Top, c>>[1] = Top /\ <<Top, c>>[2] = c
  BY Pairs
<1>5. /\ g \in Seq(S) /\ Len(g) = (n - 1) + 2
      /\ \A i \in 1..(n - 1) + 2 : g[i] = IF i <= n - 1 THEN f[i] ELSE <<Top, c>>[i - (n - 1)]
  BY <1>1, <1>2, <1>4, ConcatProperties
<1>6. /\ h \in Seq(S) /\ Len(h) = n + 1
      /\ \A i \in 1..n : h[i] = calls[i]
      /\ h[n + 1] = c
  BY <1>1, AppendProperties DEF n, S
<1> HIDE DEF g, h
<1>7. ASSUME NEW i \in 1..n + 1 PROVE g[i] = h[i]
  <2>1. CASE i <= n - 1
    <3>1. i \in 1..(n - 1) + 2 /\ i \in 1..n - 1 /\ i \in 1..n
      BY <2>1, <1>2
    <3>2. g[i] = f[i]
      BY <3>1, <2>1, <1>5
    <3> QED BY <3>1, <3>2, <1>2, <1>6
  <2>2. CASE i = n
    <3>1. g[i] = <<Top, c>>[1]
      <4>1. i \in 1..(n - 1) + 2 /\ ~ (i <= n - 1) /\ i - (n - 1) = 1
        BY <2>2, <1>2
      <4> QED BY <4>1, <1>5
    <3> QED BY <3>1, <2>2, <1>2, <1>3, <1>4, <1>6
  <2>3. CASE i = n + 1
    <3>1. g[i] = <<Top, c>>[2]
      <4>1. i \in 1..(n - 1) + 2 /\ ~ (i <= n - 1) /\ i - (n - 1) = 2
        BY <2>3, <1>2
      <4> QED BY <4>1, <1>5
    <3> QED BY <3>1, <2>3, <1>4, <1>6
  <2> QED BY <2>1, <2>2, <2>3, <1>2
<1>8. g = h
  BY <1>2, <1>5, <1>6, <1>7, SeqEqual
<1> QED
  BY <1>8 DEF Continue, f, g, h

\* q may stand where p does: what calls p may call q.
Sibling(p, q) == \A r \in Place : p \in Child(r) => q \in Child(r)

LEMMA Siblings ==
  /\ \A p, q \in Bodies : Sibling(p, q)
  /\ \A p \in Place \ Bodies, q \in Expressions : Sibling(p, q)
  /\ \A p \in Statements \ Bodies, q \in Statements : Sibling(p, q)
  /\ \A p \in Place : Sibling(p, p)
BY DEF Sibling, Place, Bodies, Statements, Expressions, Operators, Loops, Child, AfterStatement, AfterExpression

\* New visitors are in order.
Fits(s) ==
  /\ \A k \in 1..Len(s) : s[k].at \in Place \ {"endFunction"} /\ Local(s[k])
  /\ Len(s) >= 1 => /\ Top.at # "endFunction"
                    /\ Sibling(Top.at, s[1].at)
                    /\ s[1].at \in Roomy => Len(calls) < MaxCalls
  /\ Len(s) = 2 => /\ s[2].at \in Child(s[1].at)
                   /\ s[2].at \notin Roomy
                   /\ Len(calls) <= MaxCalls

LEMMA CallStep ==
  ASSUME CallInv, calls # <<>>, NEW s, s \in Seq(ToSet(s)), Len(s) \in 0..2, Continue(s), Fits(s)
  PROVE  CallInv' /\ Steps(s)
<1> DEFINE n == Len(calls)
<1>1. Steps(s) /\ calls' \in Seq(ToSet(calls'))
  BY ContinueSteps DEF CallInv
<1>2. /\ n \in Nat \ {0} /\ Len(s) \in 0..2 /\ Len(calls') = n - 1 + Len(s) /\ MaxCalls \in Nat \ {0}
      /\ \A k \in 1..n - 1 : calls'[k] = calls[k]
      /\ \A k \in 1..Len(s) : calls'[n - 1 + k] = s[k]
      /\ n <= MaxCalls + 1 /\ Top = calls[n]
  BY <1>1, BoundsAssumption DEF Steps, CallInv, Top
<1> HIDE DEF n
<1>3. Len(calls') <= MaxCalls + 1
  BY <1>2 DEF Fits, n
<1>4. ASSUME NEW k \in 1..Len(calls')
      PROVE  /\ calls'[k].at \in Place /\ Local(calls'[k])
             /\ k = 1 <=> calls'[k].at = "endFunction"
             /\ k > 1 => calls'[k].at \in Child(calls'[k - 1].at)
             /\ calls'[k].at \in Roomy => k < MaxCalls
  <2>1. CASE k < n
    <3>1. calls'[k] = calls[k] /\ (k > 1 => calls'[k - 1] = calls[k - 1]) /\ k \in 1..n
      BY <2>1, <1>2
    <3> QED BY <3>1 DEF CallInv, n
  <2>2. CASE k = n
    <3>1. Len(s) >= 1 /\ calls'[k] = s[1]
      BY <2>2, <1>2
    <3>2. /\ s[1].at \in Place \ {"endFunction"} /\ Local(s[1]) /\ Sibling(Top.at, s[1].at)
          /\ s[1].at \in Roomy => k < MaxCalls /\ Top.at # "endFunction"
      BY <3>1, <1>2, <2>2 DEF Fits, n
    <3>3. n \in 1..n /\ calls[n].at = Top.at
      BY <1>2
    <3>4. Top.at # "endFunction"
      BY <3>1 DEF Fits
    <3>5. n > 1 /\ Top.at \in Child(calls[n - 1].at) /\ calls[n - 1].at \in Place
      <4>1. n # 1
        BY <3>3, <3>4 DEF CallInv, n
      <4>2. n - 1 \in 1..n /\ n > 1
        BY <4>1, <1>2
      <4> QED BY <3>3, <4>2 DEF CallInv, n
    <3>6. calls'[k - 1] = calls[n - 1]
      BY <3>5, <2>2, <1>2
    <3>7. s[1].at \in Child(calls[n - 1].at)
      BY <3>2, <3>5 DEF Sibling
    <3> QED BY <3>1, <3>2, <3>5, <3>6, <3>7, <2>2
  <2>3. CASE k = n + 1
    <3>1. Len(s) = 2 /\ k = (n - 1) + 2 /\ k - 1 = (n - 1) + 1 /\ 1 \in 1..Len(s) /\ 2 \in 1..Len(s)
      BY <2>3, <1>2
    <3>2. calls'[(n - 1) + 2] = s[2] /\ calls'[(n - 1) + 1] = s[1]
      BY <3>1, <1>2
    <3>3. calls'[k] = s[2] /\ calls'[k - 1] = s[1]
      BY <3>1, <3>2
    <3> QED BY <3>1, <3>3, <2>3, <1>2 DEF Fits, n
  <2> QED BY <2>1, <2>2, <2>3, <1>2
<1> QED
  BY <1>1, <1>3, <1>4 DEF CallInv

LEMMA CallFields == \A at, locals : Call(at, locals).at = at /\ Call(at, locals).locals = locals
BY DEF Call

\* The three ways of going on.
LEMMA Return == ASSUME CallInv, calls # <<>>, Continue(<<>>) PROVE CallInv' /\ Steps(<<>>)
<1>1. Fits(<<>>) /\ Len(<<>>) \in 0..2
  BY Pairs DEF Fits
<1> QED
  BY <1>1, Pairs, CallStep

LEMMA Replace ==
  ASSUME CallInv, calls # <<>>, NEW c, Continue(<<c>>),
         Top.at # "endFunction", c.at \in Place \ {"endFunction"}, Local(c), Sibling(Top.at, c.at),
         c.at \in Roomy => Len(calls) < MaxCalls
  PROVE  CallInv' /\ Steps(<<c>>)
<1>1. Len(<<c>>) = 1 /\ <<c>>[1] = c /\ <<c>> \in Seq(ToSet(<<c>>))
  BY Pairs
<1>2. Fits(<<c>>)
  BY <1>1 DEF Fits
<1>3. Len(<<c>>) \in 0..2
  BY <1>1
<1> QED
  BY <1>1, <1>2, <1>3, CallStep

LEMMA CallOn ==
  ASSUME CallInv, calls # <<>>, NEW c, NEW d, Continue(<<c, d>>),
         Top.at # "endFunction", c.at \in Place \ {"endFunction"}, Local(c), Sibling(Top.at, c.at),
         d.at \in Place \ {"endFunction"}, Local(d), d.at \in Child(c.at), d.at \notin Roomy,
         Len(calls) <= MaxCalls, c.at \in Roomy => Len(calls) < MaxCalls
  PROVE  CallInv' /\ Steps(<<c, d>>)
<1>1. Len(<<c, d>>) = 2 /\ <<c, d>>[1] = c /\ <<c, d>>[2] = d /\ <<c, d>> \in Seq(ToSet(<<c, d>>))
  BY Pairs
<1>2. Fits(<<c, d>>)
  BY <1>1 DEF Fits
<1>3. Len(<<c, d>>) \in 0..2
  BY <1>1
<1> QED
  BY <1>1, <1>2, <1>3, CallStep

\* The running visitor is one of them.
LEMMA TopInPlace ==
  ASSUME CallInv, calls # <<>>
  PROVE  /\ Len(calls) \in Nat \ {0} /\ Len(calls) \in 1..Len(calls) /\ DOMAIN calls = 1..Len(calls)
         /\ Top = calls[Len(calls)] /\ Top.at \in Place /\ Local(Top)
         /\ Len(calls) = 1 <=> Top.at = "endFunction"
         /\ Top.at \in Roomy => Len(calls) < MaxCalls
         /\ Len(calls) > 1 => Len(calls) - 1 \in 1..Len(calls) /\ Top.at \in Child(calls[Len(calls) - 1].at)
<1>1. Len(calls) \in Nat \ {0} /\ DOMAIN calls = 1..Len(calls)
  BY EmptySeq, LenProperties DEF CallInv
<1>2. Len(calls) \in 1..Len(calls) /\ (Len(calls) > 1 => Len(calls) - 1 \in 1..Len(calls))
  BY <1>1
<1> QED
  BY <1>1, <1>2 DEF CallInv, Top

----------------------------------------------------------------------------
(* The scopes and the context. *)

\* A compound statement that has entered a scope.
Enters(c) == c.at \in {"decls", "stmts"} /\ c.locals

\* own[n] is the visitor that leaves scope n, but for the global scope; the body of
\* the function uses the scope of the parameters.
Owners(own) ==
  /\ own \in Seq(Nat) /\ Len(own) = Len(inner)
  /\ calls = <<>> => Len(own) = 1
  /\ calls # <<>> => Len(own) >= 2 /\ own[2] = 2
  /\ \A n \in 1..Len(own) : n > 2 => own[n] \in 1..Len(calls) /\ Enters(calls[own[n]])
  /\ \A m, n \in 1..Len(own) : 1 < m /\ m < n => own[m] < own[n]
  /\ \A k \in 1..Len(calls) : Enters(calls[k]) => \E n \in 1..Len(own) : n > 2 /\ own[n] = k

ContextInv ==
  /\ inner \in Seq([Name -> 0..N]) /\ inner # <<>> /\ inner[1] = Unbound
  /\ created \in 0..N /\ insert \in 0..N /\ outBB \in 0..N
  /\ calls # <<>> => insert >= 1
  /\ value \in {"int", "float", "none"} /\ {in_loop, is_entered, req_lval} \subseteq BOOLEAN
  /\ cur = insert
  /\ is_entered <=> calls # <<>> /\ Top.at = "compound" /\ Len(calls) = 2
  /\ req_lval <=> calls # <<>> /\ Top.at = "var"
  /\ in_loop => \E p \in 1..Len(calls) : calls[p].at \in Loops /\ outBB = calls[p].locals.last
  /\ \A k \in 1..Len(calls) : calls[k].at \in {"decls", "stmts"} /\ k # 2 => calls[k].locals

ShapeInv == CallInv /\ ContextInv /\ \E own : Owners(own)


\* A name is found in one of the scopes.
LEMMA FindBinding ==
  ASSUME ContextInv, NEW v \in Name, IsBound(v)
  PROVE  \E n \in 2..Len(inner) : inner[n][v] # NoBlock /\ Find(v) = inner[n][v] /\ Find(v) \in Block
<1> DEFINE bound == {n \in DOMAIN inner : inner[n][v] # NoBlock}
           L == Len(inner)
           T == {L - n : n \in bound}
           R == OpToRel(<, Nat)
<1>1. L \in Nat /\ DOMAIN inner = 1..L /\ \A n \in 1..L : inner[n] \in [Name -> 0..N]
  BY LenProperties, ElementOfSeq DEF ContextInv
<1>2. T \in SUBSET Nat /\ T # {}
  BY <1>1 DEF IsBound
<1>3. IsWellFoundedOn(R, Nat)
  BY NatLessThanWellFounded
<1> HIDE DEF R
<1>4. PICK x \in T : \A y \in T : ~ (<<y, x>> \in R)
  BY <1>2, <1>3, WFMin
<1>5. \A y \in T : ~ (y < x)
  BY <1>2, <1>4 DEF OpToRel, R
<1>6. PICK n \in bound : x = L - n
  BY <1>4
<1>7. \A m \in bound : m <= n
  <2>1. TAKE m \in bound
  <2>2. m \in Nat /\ n \in Nat /\ ~ (L - m < L - n)
    BY <1>1, <1>5, <1>6
  <2> QED BY <2>2, <1>1
<1>8. Find(v) = inner[CHOOSE k \in bound : \A m \in bound : m <= k][v]
  BY DEF Find
<1> HIDE DEF bound
<1> DEFINE top == CHOOSE k \in bound : \A m \in bound : m <= k
<1>9. top \in bound
  BY <1>7
<1> HIDE DEF top
<1>10. top \in 1..L /\ inner[top][v] # NoBlock
  BY <1>1, <1>9 DEF bound
<1>11. Find(v) = inner[top][v]
  BY <1>8 DEF top
<1>12. top # 1
  BY <1>10 DEF ContextInv, Unbound, NoBlock
<1>13. inner[top][v] \in 0..N
  BY <1>1, <1>10
<1>14. inner[top][v] \in Block
  BY <1>10, <1>13, NAssumption DEF NoBlock, Block
<1> QED
  BY <1>1, <1>10, <1>11, <1>12, <1>14

\* What each action does to the visitors in progress.
LEMMA Frames ==
  ASSUME ShapeInv
  PROVE  /\ EndFunction \/ EndCompound \/ EndBody \/ EndReturn \/ EndSubscript \/ EndBinary \/ EndCall
              => CallInv' /\ Steps(<<>>)
         /\ \A t \in {"int", "float"} : Num(t) => CallInv' /\ Steps(<<>>)
         /\ \A v \in Scalar : ScalarVar(v) => CallInv' /\ Steps(<<>>)
         /\ BeginCompound => CallInv' /\ Steps(<<Call("decls", ~ is_entered)>>)
         /\ BeginStatements => CallInv' /\ Steps(<<Call("stmts", Top.locals)>>)
         /\ NextStatement => CallInv' /\ Steps(<<Top, Call("stmt", <<>>)>>)
         /\ Statement => /\ CallInv'
                         /\ \/ \E at \in {"compound", "return", "expr"} : Steps(<<Call(at, <<>>)>>)
                            \/ Steps(<<>>)
                            \/ \E else \in BOOLEAN : Steps(<<Call("if", else), Call("expr", <<>>)>>)
                            \/ Steps(<<Call("return", <<>>), Call("expr", <<>>)>>)
         /\ AssignTarget => CallInv' /\ Steps(<<Call("var", <<>>)>>)
         /\ \A v \in Array : BeginSubscript(v) => CallInv' /\ Steps(<<Call("subscript", Find(v)), Call("expr", <<>>)>>)
         /\ BeginAssign => CallInv' /\ Steps(<<Call("assign", <<>>), Call("expr", <<>>)>>)
         /\ BeginBinary => CallInv' /\ Steps(<<Call("right", <<>>), Call("expr", <<>>)>>)
         /\ RightOperand => CallInv' /\ Steps(<<Call("combine", value), Call("expr", <<>>)>>)
         /\ BeginCall => CallInv' /\ Steps(<<Call("call", <<>>), Call("expr", <<>>)>>)
<1>1. CallInv /\ ContextInv
  BY DEF ShapeInv
<1> USE CallFields
<1>2. \A p : At(p) => calls # <<>> /\ Top.at = p
  BY DEF At
<1>3. ASSUME calls # <<>>, Continue(<<>>) PROVE CallInv' /\ Steps(<<>>)
  BY <1>1, <1>3, Return
<1>4. ASSUME EndFunction \/ EndCompound \/ EndBody \/ EndReturn \/ EndSubscript \/ EndBinary \/ EndCall
      PROVE  CallInv' /\ Steps(<<>>)
  BY <1>2, <1>3, <1>4 DEF EndFunction, EndCompound, EndBody, EndReturn, EndSubscript, EndBinary, EndCall
<1>5. ASSUME NEW t \in {"int", "float"}, Num(t) PROVE CallInv' /\ Steps(<<>>)
  BY <1>2, <1>3, <1>5 DEF Num
<1>6. ASSUME NEW v \in Scalar, ScalarVar(v) PROVE CallInv' /\ Steps(<<>>)
  BY <1>2, <1>3, <1>6 DEF ScalarVar
<1>7. ASSUME NEW c, Continue(<<c>>), calls # <<>>, c.at \in Bodies, Top.at \in Bodies, Local(c)
      PROVE  CallInv' /\ Steps(<<c>>)
  <2>1. Sibling(Top.at, c.at) /\ Top.at # "endFunction" /\ c.at \in Place \ {"endFunction"} /\ c.at \notin Roomy
    BY <1>7, Siblings DEF Bodies, Place, Statements, Roomy
  <2> QED BY <1>1, <1>7, <2>1, Replace
<1>8. ASSUME BeginCompound PROVE CallInv' /\ Steps(<<Call("decls", ~ is_entered)>>)
  <2>1. calls # <<>> /\ Top.at \in Bodies /\ Continue(<<Call("decls", ~ is_entered)>>)
    BY <1>2, <1>8 DEF BeginCompound, Bodies
  <2>2. \A b \in BOOLEAN : Local(Call("decls", b)) /\ Call("decls", b).at \in Bodies
    BY DEF Local, Bodies
  <2>3. (~ is_entered) \in BOOLEAN
    OBVIOUS
  <2> DEFINE b == ~ is_entered
  <2>4. Local(Call("decls", b)) /\ Call("decls", b).at \in Bodies
    BY <2>2, <2>3
  <2> HIDE CallFields
  <2> HIDE DEF b
  <2>5. b = ~ is_entered
    BY DEF b
  <2>6. calls # <<>> /\ Top.at \in Bodies /\ Continue(<<Call("decls", b)>>)
    BY <2>1 DEF b
  <2>7. CallInv' /\ Steps(<<Call("decls", b)>>)
    BY <1>7, <2>4, <2>6
  <2> QED BY <2>7 DEF b
<1>9. ASSUME BeginStatements PROVE CallInv' /\ Steps(<<Call("stmts", Top.locals)>>)
  <2>1. Top.at = "decls" /\ Local(Top)
    BY <1>1, <1>2, <1>9, TopInPlace DEF BeginStatements
  <2> QED BY <1>2, <1>7, <1>9, <2>1 DEF BeginStatements, Bodies, Local
<1>10. ASSUME NextStatement PROVE CallInv' /\ Steps(<<Top, Call("stmt", <<>>)>>)
  <2>1. calls # <<>> /\ Top.at = "stmts" /\ Local(Top) /\ Len(calls) <= MaxCalls
    BY <1>1, <1>2, <1>10, BoundsAssumption, TopInPlace DEF NextStatement, Room
  <2>2. Continue(<<Top, Call("stmt", <<>>)>>)
    BY <1>1, <1>10, <2>1, AppendContinues DEF NextStatement, CallInv
  <2>3. /\ Top.at # "endFunction" /\ Top.at \in Place \ {"endFunction"} /\ Sibling(Top.at, Top.at)
        /\ "stmt" \in Place \ {"endFunction"} /\ "stmt" \in Child(Top.at) /\ "stmt" \notin Roomy /\ Top.at \notin Roomy
    BY <2>1, Siblings DEF Place, Statements, Bodies, Child, AfterStatement, Roomy
  <2>4. Local(Call("stmt", <<>>))
    BY DEF Local
  <2> QED BY <1>1, <2>1, <2>2, <2>3, <2>4, CallOn
<1>11. ASSUME calls # <<>>, Top.at = "stmt", NEW at \in {"compound", "return", "expr"}, Continue(<<Call(at, <<>>)>>)
       PROVE  CallInv' /\ Steps(<<Call(at, <<>>)>>)
  <2>1. /\ Sibling(Top.at, at) /\ Top.at # "endFunction" /\ at \in Place \ {"endFunction"} /\ at \notin Roomy
    BY <1>11, Siblings DEF Bodies, Place, Statements, Expressions, Roomy
  <2>2. Local(Call(at, <<>>))
    BY DEF Local
  <2> QED BY <1>1, <1>11, <2>1, <2>2, Replace
<1>12. ASSUME calls # <<>>, Top.at = "stmt", Room, NEW at \in {"if", "return"}, NEW l, Local(Call(at, l)),
              Continue(<<Call(at, l), Call("expr", <<>>)>>)
       PROVE  CallInv' /\ Steps(<<Call(at, l), Call("expr", <<>>)>>)
  <2>1. /\ Sibling(Top.at, at) /\ Top.at # "endFunction" /\ at \in Place \ {"endFunction"}
        /\ "expr" \in Place \ {"endFunction"} /\ "expr" \in Child(at) /\ "expr" \notin Roomy
    BY <1>12, Siblings DEF Bodies, Place, Statements, Expressions, Roomy, Child, AfterStatement, AfterExpression, Operators
  <2>2. Local(Call("expr", <<>>)) /\ Len(calls) < MaxCalls /\ Len(calls) <= MaxCalls
    BY <1>1, <1>12, TopInPlace, BoundsAssumption DEF Local, Room
  <2> QED BY <1>1, <1>12, <2>1, <2>2, CallOn
<1>13. ASSUME Statement
       PROVE  /\ CallInv'
              /\ \/ \E at \in {"compound", "return", "expr"} : Steps(<<Call(at, <<>>)>>)
                 \/ Steps(<<>>)
                 \/ \E else \in BOOLEAN : Steps(<<Call("if", else), Call("expr", <<>>)>>)
                 \/ Steps(<<Call("return", <<>>), Call("expr", <<>>)>>)
  <2>1. calls # <<>> /\ Top.at = "stmt"
    BY <1>2, <1>13 DEF Statement
  <2>2. \A else \in BOOLEAN : Local(Call("if", else))
    BY DEF Local
  <2>3. Local(Call("return", <<>>))
    BY DEF Local
  <2>4. \/ \E at \in {"compound", "return", "expr"} : Continue(<<Call(at, <<>>)>>)
        \/ Continue(<<>>)
        \/ Room /\ \E else \in BOOLEAN : Continue(<<Call("if", else), Call("expr", <<>>)>>)
        \/ Room /\ Continue(<<Call("return", <<>>), Call("expr", <<>>)>>)
    BY <1>13 DEF Statement
  <2> HIDE CallFields
  <2>5. CASE \E at \in {"compound", "return", "expr"} : Continue(<<Call(at, <<>>)>>)
    BY <2>1, <2>5, <1>11
  <2>6. CASE Continue(<<>>)
    BY <2>1, <2>6, <1>3
  <2>7. CASE Room /\ \E else \in BOOLEAN : Continue(<<Call("if", else), Call("expr", <<>>)>>)
    BY <2>1, <2>2, <2>7, <1>12
  <2>8. CASE Room /\ Continue(<<Call("return", <<>>), Call("expr", <<>>)>>)
    BY <2>1, <2>3, <2>8, <1>12
  <2> QED BY <2>4, <2>5, <2>6, <2>7, <2>8
<1>14. ASSUME AssignTarget PROVE CallInv' /\ Steps(<<Call("var", <<>>)>>)
  <2>1. calls # <<>> /\ Top.at = "assign" /\ Continue(<<Call("var", <<>>)>>)
    BY <1>2, <1>14 DEF AssignTarget
  <2>2. /\ Sibling(Top.at, "var") /\ "var" \in Place \ {"endFunction"} /\ "var" \notin Roomy
    BY <2>1, Siblings DEF Bodies, Place, Statements, Expressions, Operators, Roomy, Loops
  <2>3. Local(Call("var", <<>>))
    BY DEF Local
  <2> QED BY <1>1, <2>1, <2>2, <2>3, Replace
<1>15. ASSUME calls # <<>>, Top.at \in Expressions, NEW at \in Operators, NEW l, Local(Call(at, l)), Len(calls) < MaxCalls,
              Continue(<<Call(at, l), Call("expr", <<>>)>>)
       PROVE  CallInv' /\ Steps(<<Call(at, l), Call("expr", <<>>)>>)
  <2>1. /\ Sibling(Top.at, at) /\ Top.at # "endFunction" /\ at \in Place \ {"endFunction"}
        /\ "expr" \in Place \ {"endFunction"} /\ "expr" \in Child(at) /\ "expr" \notin Roomy
    <3>1. Top.at \in Place \ Bodies /\ at \in Expressions
      BY <1>15 DEF Bodies, Place, Expressions, Operators
    <3> QED BY <1>15, <3>1, Siblings DEF Place, Statements, Expressions, Roomy, Child, AfterStatement, AfterExpression, Operators
  <2>2. Local(Call("expr", <<>>)) /\ Len(calls) <= MaxCalls
    BY <1>1, <1>15, TopInPlace, BoundsAssumption DEF Local
  <2> QED BY <1>1, <1>15, <2>1, <2>2, CallOn
<1>16. "expr" \in Expressions /\ "var" \in Expressions /\ {"subscript", "assign", "right", "combine", "call"} = Operators /\ "right" \in Expressions
  BY DEF Expressions, Operators
<1>17. ASSUME NEW v \in Array, BeginSubscript(v)
       PROVE  CallInv' /\ Steps(<<Call("subscript", Find(v)), Call("expr", <<>>)>>)
  <2>1. calls # <<>> /\ Top.at \in Expressions /\ Len(calls) < MaxCalls /\ IsBound(v)
    BY <1>2, <1>16, <1>17 DEF BeginSubscript, ExprRoom, Room
  <2>2. Find(v) \in Block
    BY <1>1, <2>1, FindBinding DEF Name
  <2>3. Local(Call("subscript", Find(v)))
    BY <2>2 DEF Local
  <2> HIDE CallFields
  <2> QED BY <1>15, <1>16, <1>17, <2>1, <2>3 DEF BeginSubscript
<1>18. ASSUME BeginAssign PROVE CallInv' /\ Steps(<<Call("assign", <<>>), Call("expr", <<>>)>>)
  <2>1. calls # <<>> /\ Top.at \in Expressions /\ Len(calls) < MaxCalls /\ Local(Call("assign", <<>>))
    BY <1>2, <1>16, <1>18 DEF BeginAssign, ExprRoom, Room, Local
  <2> HIDE CallFields
  <2> QED BY <1>15, <1>16, <1>18, <2>1 DEF BeginAssign
<1>19. ASSUME BeginBinary PROVE CallInv' /\ Steps(<<Call("right", <<>>), Call("expr", <<>>)>>)
  <2>1. calls # <<>> /\ Top.at \in Expressions /\ Len(calls) < MaxCalls /\ Local(Call("right", <<>>))
    BY <1>2, <1>16, <1>19 DEF BeginBinary, ExprRoom, Room, Local
  <2> HIDE CallFields
  <2> QED BY <1>15, <1>16, <1>19, <2>1 DEF BeginBinary
<1>20. ASSUME RightOperand PROVE CallInv' /\ Steps(<<Call("combine", value), Call("expr", <<>>)>>)
  <2>1. calls # <<>> /\ Top.at = "right" /\ Local(Call("combine", value))
    BY <1>2, <1>20 DEF RightOperand, Local
  <2>2. Top.at \in Expressions /\ Len(calls) < MaxCalls
    BY <1>1, <1>16, <2>1, TopInPlace DEF Roomy
  <2> HIDE CallFields
  <2> QED BY <1>15, <1>16, <1>20, <2>1, <2>2 DEF RightOperand
<1>21. ASSUME BeginCall PROVE CallInv' /\ Steps(<<Call("call", <<>>), Call("expr", <<>>)>>)
  <2>1. calls # <<>> /\ Top.at \in Expressions /\ Len(calls) < MaxCalls /\ Local(Call("call", <<>>))
    BY <1>2, <1>16, <1>21 DEF BeginCall, ExprRoom, Room, Local
  <2> HIDE CallFields
  <2> QED BY <1>15, <1>16, <1>21, <2>1 DEF BeginCall
<1> HIDE CallFields
<1> QED
  BY <1>4, <1>5, <1>6, <1>8, <1>9, <1>10, <1>13, <1>14, <1>17, <1>18, <1>19, <1>20, <1>21

\* What the running visitor has in locals after each of the branches.
Arms(l) == Call("endArm", [out |-> created + 2, else |-> IF l THEN created + 3 ELSE NoBlock])
LastArm == Call("endArm", [out |-> Top.locals.out, else |-> NoBlock])
Condition == Call("while", [condition |-> created + 1, last |-> insert])
LoopBody == Call("endBody", [condition |-> Top.locals.condition, last |-> Top.locals.last, out |-> created + 2])

LEMMA BranchFrames ==
  ASSUME ShapeInv
  PROVE  /\ BeginSelection => CallInv' /\ Steps(<<Arms(Top.locals), Call("stmt", <<>>)>>)
         /\ EndArm => CallInv' /\ IF Top.locals.else = NoBlock THEN Steps(<<>>) ELSE Steps(<<LastArm, Call("stmt", <<>>)>>)
         /\ BeginIteration => CallInv' /\ Steps(<<Condition, Call("expr", <<>>)>>)
         /\ BeginBody => CallInv' /\ Steps(<<LoopBody, Call("stmt", <<>>)>>)
<1>1. CallInv /\ ContextInv
  BY DEF ShapeInv
<1>2. \A p : At(p) => calls # <<>> /\ Top.at = p /\ Local(Top) /\ (p \in Roomy => Len(calls) < MaxCalls)
  BY <1>1, TopInPlace DEF At
<1>3. ASSUME NEW p \in {"stmt", "if", "endArm", "while"}, At(p), Len(calls) < MaxCalls,
             NEW at \in {"endArm", "endBody", "while"}, NEW q \in {"stmt", "expr"}, q \in Child(at),
             NEW l, Local(Call(at, l)), Continue(<<Call(at, l), Call(q, <<>>)>>)
      PROVE  CallInv' /\ Steps(<<Call(at, l), Call(q, <<>>)>>)
  <2>1. calls # <<>> /\ Top.at = p
    BY <1>2, <1>3
  <2>2. /\ Sibling(Top.at, at) /\ Top.at # "endFunction" /\ at \in Place \ {"endFunction"}
        /\ q \in Place \ {"endFunction"} /\ q \notin Roomy
    <3>1. Top.at \in Statements \ Bodies /\ at \in Statements
      BY <2>1 DEF Bodies, Statements, Loops
    <3> QED BY <2>1, <3>1, Siblings DEF Place, Expressions, Statements, Roomy
  <2>3. Local(Call(q, <<>>)) /\ Len(calls) <= MaxCalls
    BY <1>1, <1>3, <2>1, TopInPlace, BoundsAssumption, CallFields DEF Local
  <2>4. \A a, k : Call(a, k).at = a
    BY CallFields
  <2> QED BY <1>1, <1>3, <2>1, <2>2, <2>3, <2>4, CallOn
<1>4. "stmt" \in Child("endArm") /\ "stmt" \in Child("endBody") /\ "expr" \in Child("while")
  BY DEF Child, AfterStatement, AfterExpression, Statements, Expressions, Operators
<1>5. created \in Nat /\ N \in Nat /\ created <= N /\ insert \in 0..N
  BY <1>1, NAssumption DEF ContextInv
<1>6. ASSUME BeginSelection PROVE CallInv' /\ Steps(<<Arms(Top.locals), Call("stmt", <<>>)>>)
  <2>1. /\ At("if") /\ (IF Top.locals THEN created + 3 ELSE created + 2) <= N
        /\ Continue(<<Call("endArm", [out |-> created + 2, else |-> IF Top.locals THEN created + 3 ELSE NoBlock]), Call("stmt", <<>>)>>)
    BY <1>6 DEF BeginSelection
  <2> DEFINE e == IF Top.locals THEN created + 3 ELSE NoBlock
  <2>2. created + 2 \in Block /\ e \in 0..N
    BY <1>5, <2>1 DEF Block, NoBlock
  <2>3. Local(Call("endArm", [out |-> created + 2, else |-> e]))
    <3> HIDE DEF e
    <3> QED BY <2>2, CallFields DEF Local
  <2>4. Len(calls) < MaxCalls
    BY <1>2, <2>1 DEF Roomy
  <2>5. Continue(<<Call("endArm", [out |-> created + 2, else |-> e]), Call("stmt", <<>>)>>)
    BY <2>1
  <2> HIDE DEF e
  <2>6. CallInv' /\ Steps(<<Call("endArm", [out |-> created + 2, else |-> e]), Call("stmt", <<>>)>>)
    BY <1>3, <1>4, <2>1, <2>3, <2>4, <2>5
  <2> QED BY <2>6 DEF Arms, e
<1>7. ASSUME EndArm
      PROVE CallInv' /\ IF Top.locals.else = NoBlock THEN Steps(<<>>) ELSE Steps(<<LastArm, Call("stmt", <<>>)>>)
  <2>1. /\ At("endArm") /\ calls # <<>>
        /\ Top.locals.else # NoBlock => Continue(<<LastArm, Call("stmt", <<>>)>>)
        /\ Top.locals.else = NoBlock => Continue(<<>>)
    BY <1>2, <1>7 DEF EndArm, LastArm
  <2>2. Local(LastArm) /\ Len(calls) < MaxCalls
    BY <1>2, <1>5, <2>1, CallFields DEF Roomy, Local, LastArm, NoBlock
  <2>3. CASE Top.locals.else = NoBlock
    BY <1>1, <2>1, <2>3, Return
  <2>4. CASE Top.locals.else # NoBlock
    BY <1>3, <1>4, <2>1, <2>2, <2>4 DEF LastArm
  <2> QED BY <2>3, <2>4
<1>8. ASSUME BeginIteration PROVE CallInv' /\ Steps(<<Condition, Call("expr", <<>>)>>)
  <2>1. At("stmt") /\ created < N /\ Len(calls) < MaxCalls /\ Continue(<<Condition, Call("expr", <<>>)>>)
    BY <1>8 DEF BeginIteration, Room, Condition
  <2>2. insert \in Block /\ created + 1 \in Block
    BY <1>1, <1>2, <1>5, <2>1 DEF ContextInv, Block
  <2>3. Local(Condition)
    BY <2>2, CallFields DEF Local, Condition
  <2> QED BY <1>3, <1>4, <2>1, <2>3 DEF Condition
<1>9. ASSUME BeginBody PROVE CallInv' /\ Steps(<<LoopBody, Call("stmt", <<>>)>>)
  <2>1. At("while") /\ created + 2 <= N /\ Continue(<<LoopBody, Call("stmt", <<>>)>>)
    BY <1>9 DEF BeginBody, LoopBody
  <2>2. Top.locals \in [condition : Block, last : Block] /\ created + 2 \in Block /\ Len(calls) < MaxCalls
    BY <1>2, <1>5, <2>1 DEF Local, Block, Roomy
  <2>3. Local(LoopBody)
    BY <2>2, CallFields DEF Local, LoopBody
  <2> QED BY <1>3, <1>4, <2>1, <2>2, <2>3 DEF LoopBody
<1> QED
  BY <1>6, <1>7, <1>8, <1>9

\* The visitors after an action: those below, and the new ones.
LEMMA After ==
  ASSUME CallInv, CallInv', NEW s, Steps(s)
  PROVE  /\ Len(calls) \in Nat \ {0} /\ Len(calls') \in Nat /\ Len(calls') = Len(calls) - 1 + Len(s) /\ Len(s) \in 0..2
         /\ DOMAIN calls' = 1..Len(calls') /\ DOMAIN calls = 1..Len(calls)
         /\ calls # <<>> /\ (calls' = <<>> <=> Len(calls') = 0)
         /\ Top = calls[Len(calls)] /\ Top' = calls'[Len(calls')]
         /\ \A k \in 1..Len(calls') :
              \/ k < Len(calls) /\ calls'[k] = calls[k]
              \/ k = Len(calls) /\ Len(s) >= 1 /\ calls'[k] = s[1]
              \/ k = Len(calls) + 1 /\ Len(s) = 2 /\ calls'[k] = s[2]
         /\ \A k \in 1..Len(calls) - 1 : k \in 1..Len(calls') /\ calls'[k] = calls[k]
         /\ Len(s) >= 1 => Len(calls) \in 1..Len(calls') /\ calls'[Len(calls)] = s[1]
         /\ Len(s) = 2 => Len(calls) + 1 \in 1..Len(calls') /\ calls'[Len(calls) + 1] = s[2]
<1>1. /\ Len(calls) \in Nat \ {0} /\ Len(s) \in 0..2 /\ Len(calls') = Len(calls) - 1 + Len(s)
      /\ \A k \in 1..Len(calls) - 1 : calls'[k] = calls[k]
      /\ \A k \in 1..Len(s) : calls'[Len(calls) - 1 + k] = s[k]
  BY DEF Steps
<1>2. DOMAIN calls' = 1..Len(calls') /\ DOMAIN calls = 1..Len(calls) /\ calls # <<>> /\ (calls' = <<>> <=> Len(calls') = 0)
  <2>1. \A S, q : q \in Seq(S) => DOMAIN q = 1..Len(q) /\ (q = <<>> <=> Len(q) = 0)
    BY LenProperties, EmptySeq
  <2> QED BY <1>1, <2>1 DEF CallInv
<1>3. Len(s) >= 1 => Len(calls) \in 1..Len(calls') /\ calls'[Len(calls)] = s[1]
  <2>1. Len(s) >= 1 => 1 \in 1..Len(s) /\ Len(calls) - 1 + 1 = Len(calls) /\ Len(calls) \in 1..Len(calls')
    BY <1>1
  <2>2. Len(s) >= 1 => calls'[Len(calls) - 1 + 1] = s[1]
    BY <1>1, <2>1
  <2> QED BY <2>1, <2>2
<1>4. Len(s) = 2 => Len(calls) + 1 \in 1..Len(calls') /\ calls'[Len(calls) + 1] = s[2]
  <2>1. Len(s) = 2 => 2 \in 1..Len(s) /\ Len(calls) - 1 + 2 = Len(calls) + 1 /\ Len(calls) + 1 \in 1..Len(calls')
    BY <1>1
  <2>2. Len(s) = 2 => calls'[Len(calls) - 1 + 2] = s[2]
    BY <1>1, <2>1
  <2> QED BY <2>1, <2>2
<1>5. ASSUME NEW k \in 1..Len(calls')
      PROVE  \/ k < Len(calls) /\ calls'[k] = calls[k]
             \/ k = Len(calls) /\ Len(s) >= 1 /\ calls'[k] = s[1]
             \/ k = Len(calls) + 1 /\ Len(s) = 2 /\ calls'[k] = s[2]
  <2>1. CASE k < Len(calls)
    BY <2>1, <1>1
  <2>2. CASE k = Len(calls)
    BY <2>2, <1>1, <1>3
  <2>3. CASE k = Len(calls) + 1
    BY <2>3, <1>1, <1>4
  <2>4. k < Len(calls) \/ k = Len(calls) \/ k = Len(calls) + 1
    BY <1>1
  <2> QED BY <2>1, <2>2, <2>3, <2>4
<1>6. \A k \in 1..Len(calls) - 1 : k \in 1..Len(calls') /\ calls'[k] = calls[k]
  BY <1>1
<1>7. Len(calls') \in Nat /\ Top = calls[Len(calls)] /\ Top' = calls'[Len(calls')]
  BY <1>1 DEF Top
<1> QED
  BY <1>1, <1>2, <1>3, <1>4, <1>5, <1>6, <1>7

\* No scope is entered or left.
LEMMA OwnersKept ==
  ASSUME CallInv, CallInv', NEW own, Owners(own), NEW s, Steps(s),
         Len(inner') = Len(inner), calls' # <<>>,
         Len(s) = 0 => ~ Enters(Top),
         Len(s) >= 1 => (Enters(s[1]) <=> Enters(Top)),
         Len(s) = 2 => ~ Enters(s[2])
  PROVE  Owners(own)'
<1> DEFINE n == Len(calls)
<1>1. /\ n \in Nat \ {0} /\ Len(calls') \in Nat /\ Len(calls') = n - 1 + Len(s) /\ Len(s) \in 0..2
      /\ \A k \in 1..Len(calls') :
           \/ k < n /\ calls'[k] = calls[k]
           \/ k = n /\ Len(s) >= 1 /\ calls'[k] = s[1]
           \/ k = n + 1 /\ Len(s) = 2 /\ calls'[k] = s[2]
      /\ Top = calls[n] /\ calls # <<>>
  BY After, EmptySeq
<1> HIDE DEF n
<1>2. \A k \in 1..Len(calls') : Enters(calls'[k]) => k \in 1..n /\ Enters(calls[k])
  BY <1>1
<1>3. \A k \in 1..n : Enters(calls[k]) => k \in 1..Len(calls') /\ Enters(calls'[k])
  <2> SUFFICES ASSUME NEW k \in 1..n, Enters(calls[k]) PROVE k \in 1..Len(calls') /\ Enters(calls'[k])
    OBVIOUS
  <2>1. CASE k < n
    BY <2>1, <1>1
  <2>2. CASE k = n
    <3>1. Len(s) >= 1
      BY <2>2, <1>1
    <3>2. k \in 1..Len(calls') /\ ~ (k < n)
      BY <2>2, <3>1, <1>1
    <3>3. calls'[k] = s[1] /\ Enters(Top)
      BY <2>2, <3>1, <3>2, <1>1
    <3> QED BY <3>1, <3>2, <3>3
  <2>3. k < n \/ k = n
    BY <1>1
  <2> QED BY <2>1, <2>2, <2>3
<1>4. /\ own \in Seq(Nat) /\ Len(own) = Len(inner)
      /\ Len(own) >= 2 /\ own[2] = 2
      /\ \A m, j \in 1..Len(own) : 1 < m /\ m < j => own[m] < own[j]
      /\ \A j \in 1..Len(own) : j > 2 => own[j] \in 1..n /\ Enters(calls[own[j]])
      /\ \A k \in 1..n : Enters(calls[k]) => \E j \in 1..Len(own) : j > 2 /\ own[j] = k
  BY <1>1 DEF Owners, n
<1>5. \A j \in 1..Len(own) : j > 2 => own[j] \in 1..Len(calls') /\ Enters(calls'[own[j]])
  BY <1>3, <1>4
<1>6. \A k \in 1..Len(calls') : Enters(calls'[k]) => \E j \in 1..Len(own) : j > 2 /\ own[j] = k
  BY <1>2, <1>4
<1> QED
  BY <1>4, <1>5, <1>6 DEF Owners

\* A scope is entered.
LEMMA OwnersOpened ==
  ASSUME CallInv, CallInv', NEW own, Owners(own), NEW n, n = Len(calls), NEW c, Steps(<<c>>), n > 2,
         Len(inner') = Len(inner) + 1, Len(inner) \in Nat, ~ Enters(Top), Enters(c)
  PROVE  Owners(Append(own, n))'
<1> DEFINE new == Append(own, n)
           s == <<c>>
<1>0. Len(s) = 1 /\ s[1] = c /\ Steps(s) /\ Len(<<>>) = 0
  BY Pairs
<1> HIDE DEF s
<1>1. /\ n \in Nat \ {0} /\ Len(calls') = n
      /\ \A k \in 1..n : (k < n => calls'[k] = calls[k]) /\ (k = n => calls'[k] = c)
      /\ Top = calls[n] /\ calls # <<>>
  <2>1. n \in Nat \ {0} /\ Len(calls') = n - 1 + 1 /\ Top = calls[n] /\ calls # <<>>
    <3>1. Len(calls) \in Nat \ {0} /\ Len(calls') = Len(calls) - 1 + Len(s) /\ Top = calls[Len(calls)] /\ calls # <<>>
      BY <1>0, After
    <3> QED BY <1>0, <3>1
  <2>2. Len(calls') = n
    BY <2>1
  <2>3. \A k \in 1..n : (k < n => calls'[k] = calls[k]) /\ (k = n => calls'[k] = c)
    BY <1>0, <2>1, <2>2, After
  <2> QED BY <2>1, <2>2, <2>3
<1>2. n > 2
  OBVIOUS
<1>3. /\ own \in Seq(Nat) /\ Len(own) = Len(inner) /\ Len(own) \in Nat
      /\ Len(own) >= 2 /\ own[2] = 2
      /\ \A m, j \in 1..Len(own) : 1 < m /\ m < j => own[m] < own[j]
      /\ \A j \in 1..Len(own) : j > 2 => own[j] \in 1..n /\ Enters(calls[own[j]])
      /\ \A k \in 1..n : Enters(calls[k]) => \E j \in 1..Len(own) : j > 2 /\ own[j] = k
  BY <1>1, LenProperties DEF Owners
<1>4. /\ new \in Seq(Nat) /\ Len(new) = Len(own) + 1
      /\ \A j \in 1..Len(own) : new[j] = own[j]
      /\ new[Len(own) + 1] = n
  BY <1>1, <1>3, AppendProperties
<1> HIDE DEF new
<1>5. \A j \in 1..Len(own) : j > 1 => own[j] < n
  <2> SUFFICES ASSUME NEW j \in 1..Len(own), j > 1 PROVE own[j] < n
    OBVIOUS
  <2>1. CASE j = 2
    BY <2>1, <1>2, <1>3
  <2>2. CASE j > 2
    <3>1. own[j] \in 1..n /\ Enters(calls[own[j]])
      BY <2>2, <1>3
    <3>2. own[j] # n
      BY <3>1, <1>1
    <3> QED BY <3>1, <3>2, <1>1
  <2> QED BY <2>1, <2>2, <1>3
<1>6. \A j \in 1..Len(new) : j > 2 => new[j] \in 1..n /\ Enters(calls'[new[j]])
  <2> SUFFICES ASSUME NEW j \in 1..Len(new), j > 2 PROVE new[j] \in 1..n /\ Enters(calls'[new[j]])
    OBVIOUS
  <2>1. CASE j = Len(own) + 1
    BY <2>1, <1>1, <1>4
  <2>2. CASE j \in 1..Len(own)
    <3>1. own[j] \in 1..n /\ Enters(calls[own[j]])
      BY <2>2, <1>3
    <3>2. j > 1
      BY <2>2, <1>3
    <3>3. own[j] < n /\ new[j] = own[j]
      BY <2>2, <3>2, <1>4, <1>5
    <3>4. own[j] \in 1..n - 1
      BY <3>1, <3>3, <1>1
    <3> QED BY <3>1, <3>3, <3>4, <1>1
  <2> QED BY <2>1, <2>2, <1>3, <1>4
<1>7. \A m, j \in 1..Len(new) : 1 < m /\ m < j => new[m] < new[j]
  <2> SUFFICES ASSUME NEW m \in 1..Len(new), NEW j \in 1..Len(new), 1 < m, m < j PROVE new[m] < new[j]
    OBVIOUS
  <2>1. m \in 1..Len(own) /\ new[m] = own[m]
    BY <1>3, <1>4
  <2>2. CASE j = Len(own) + 1
    BY <2>1, <2>2, <1>4, <1>5
  <2>3. CASE j \in 1..Len(own)
    BY <2>1, <2>3, <1>3, <1>4
  <2> QED BY <2>2, <2>3, <1>3, <1>4
<1>8. \A k \in 1..n : Enters(calls'[k]) => \E j \in 1..Len(new) : j > 2 /\ new[j] = k
  <2> SUFFICES ASSUME NEW k \in 1..n, Enters(calls'[k]) PROVE \E j \in 1..Len(new) : j > 2 /\ new[j] = k
    OBVIOUS
  <2>1. CASE k = n
    <3>1. Len(own) + 1 \in 1..Len(new) /\ Len(own) + 1 > 2 /\ new[Len(own) + 1] = k
      BY <2>1, <1>3, <1>4
    <3> QED BY <3>1
  <2>2. CASE k < n
    <3>1. PICK j \in 1..Len(own) : j > 2 /\ own[j] = k
      BY <2>2, <1>1, <1>3
    <3>2. new[j] = k
      BY <3>1, <1>4
    <3>3. j \in 1..Len(new)
      BY <1>3, <1>4
    <3> QED BY <3>1, <3>2, <3>3
  <2>3. k = n \/ k < n
    BY <1>1
  <2> QED BY <2>1, <2>2, <2>3
<1>9. Len(new) = Len(inner') /\ Len(new) >= 2 /\ new[2] = 2 /\ calls' # <<>>
  <2>1. calls' # <<>>
    BY <1>1, EmptySeq
  <2> QED BY <1>3, <1>4, <2>1
<1>10. Owners(new)'
  BY <1>1, <1>4, <1>6, <1>7, <1>8, <1>9 DEF Owners
<1> QED
  BY <1>10 DEF new

\* The innermost scope is left.
LEMMA OwnersClosed ==
  ASSUME CallInv, CallInv', NEW own, Owners(own), Steps(<<>>), Len(calls) > 1,
         Len(inner') = Len(inner) - 1, Enters(Top)
  PROVE  Owners(Front(own))'
<1> DEFINE n == Len(calls)
           L == Len(own)
           new == Front(own)
<1>1. /\ n \in Nat \ {0} /\ Len(calls') = n - 1
      /\ \A k \in 1..n - 1 : calls'[k] = calls[k]
      /\ Top = calls[n] /\ calls # <<>>
  BY After, EmptySeq, Pairs
<1>2. n > 1
  OBVIOUS
<1>3. /\ own \in Seq(Nat) /\ L = Len(inner) /\ L \in Nat /\ own # <<>>
      /\ L >= 2 /\ own[2] = 2
      /\ \A m, j \in 1..L : 1 < m /\ m < j => own[m] < own[j]
      /\ \A j \in 1..L : j > 2 => own[j] \in 1..n /\ Enters(calls[own[j]])
      /\ \A k \in 1..n : Enters(calls[k]) => \E j \in 1..L : j > 2 /\ own[j] = k
  BY <1>1, LenProperties, EmptySeq DEF Owners
<1>4. new \in Seq(Nat) /\ Len(new) = L - 1 /\ \A j \in 1..L - 1 : new[j] = own[j]
  BY <1>3, FrontProperties
<1>5. Len(inner') = L - 1
  BY <1>3
<1> HIDE DEF n, new, L
<1>6. L > 2 /\ own[L] = n
  <2>1. PICK j \in 1..L : j > 2 /\ own[j] = n
    <3>1. n \in 1..n
      BY <1>1
    <3> QED BY <1>1, <1>3, <3>1
  <2>2. ~ (j < L)
    <3>1. j < L => own[L] \in 1..n /\ own[j] < own[L]
      BY <1>3, <2>1
    <3> QED BY <3>1, <2>1, <1>1
  <2> QED BY <2>1, <2>2, <1>3
<1>7. \A j \in 1..L - 1 : j > 2 => own[j] \in 1..n - 1 /\ Enters(calls'[own[j]])
  <2> SUFFICES ASSUME NEW j \in 1..L - 1, j > 2 PROVE own[j] \in 1..n - 1 /\ Enters(calls'[own[j]])
    OBVIOUS
  <2>1. own[j] \in 1..n /\ Enters(calls[own[j]]) /\ own[j] < own[L]
    <3>1. j \in 1..L /\ L \in 1..L /\ 1 < j /\ j < L
      BY <1>3, <1>6
    <3>2. own[j] < own[L]
      BY <3>1, <1>3
    <3>3. own[j] \in 1..n /\ Enters(calls[own[j]])
      BY <3>1, <1>3
    <3> QED BY <3>2, <3>3
  <2>2. own[j] \in 1..n - 1
    BY <2>1, <1>6, <1>1
  <2> QED BY <2>1, <2>2, <1>1
<1>8. \A k \in 1..n - 1 : Enters(calls'[k]) => \E j \in 1..L - 1 : j > 2 /\ own[j] = k
  <2> SUFFICES ASSUME NEW k \in 1..n - 1, Enters(calls'[k]) PROVE \E j \in 1..L - 1 : j > 2 /\ own[j] = k
    OBVIOUS
  <2>1. k \in 1..n /\ Enters(calls[k]) /\ k # n
    BY <1>1
  <2>2. PICK j \in 1..L : j > 2 /\ own[j] = k
    BY <2>1, <1>3
  <2>3. j # L
    BY <2>1, <2>2, <1>6
  <2> QED BY <2>2, <2>3, <1>3
<1>9. calls' # <<>>
  BY <1>1, <1>2, EmptySeq
<1>10. /\ Len(new) = Len(inner') /\ Len(new) >= 2 /\ new[2] = 2
       /\ \A j \in 1..Len(new) : j > 2 => new[j] \in 1..n - 1 /\ Enters(calls'[new[j]])
       /\ \A m, j \in 1..Len(new) : 1 < m /\ m < j => new[m] < new[j]
       /\ \A k \in 1..n - 1 : Enters(calls'[k]) => \E j \in 1..Len(new) : j > 2 /\ new[j] = k
  <2>1. Len(new) = Len(inner') /\ Len(new) >= 2 /\ 2 \in 1..L - 1
    BY <1>3, <1>4, <1>5, <1>6
  <2>2. new[2] = 2
    BY <2>1, <1>3, <1>4
  <2>3. \A j \in 1..Len(new) : j > 2 => new[j] \in 1..n - 1 /\ Enters(calls'[new[j]])
    BY <1>4, <1>7
  <2>4. \A m, j \in 1..Len(new) : 1 < m /\ m < j => new[m] < new[j]
    <3>1. \A j \in 1..L - 1 : j \in 1..L
      BY <1>3
    <3> QED BY <3>1, <1>3, <1>4
  <2>5. \A k \in 1..n - 1 : Enters(calls'[k]) => \E j \in 1..Len(new) : j > 2 /\ new[j] = k
    BY <1>4, <1>8
  <2> QED BY <2>1, <2>2, <2>3, <2>4, <2>5
<1>11. Owners(new)'
  BY <1>1, <1>4, <1>9, <1>10 DEF Owners
<1> QED
  BY <1>11 DEF new

\* A visitor that has called another waits for it.
LEMMA Waiting ==
  ASSUME CallInv, NEW k \in 2..Len(calls)
  PROVE  calls[k - 1].at \in {"endFunction"} \cup AfterStatement \cup AfterExpression
<1>1. k \in 1..Len(calls) /\ k > 1
  BY LenProperties DEF CallInv
<1>2. calls[k].at \in Child(calls[k - 1].at)
  BY <1>1 DEF CallInv
<1> QED
  BY <1>2 DEF Child

\* When the requests are met, the context is in order.
LEMMA ContextStep ==
  ASSUME CallInv, CallInv', ContextInv, NEW s, Steps(s),
         inner' \in Seq([Name -> 0..N]), inner' # <<>>, inner'[1] = Unbound,
         created' \in 0..N, insert' \in Block, cur' = insert', outBB' \in 0..N,
         value' \in {"int", "float", "none"}, {in_loop, is_entered, req_lval}' \subseteq BOOLEAN,
         ~ is_entered',
         Len(s) = 1 => s[1].at # "compound" \/ Len(calls) # 2,
         req_lval' <=> Len(s) = 1 /\ s[1].at = "var",
         Len(s) = 2 => s[2].at \notin {"compound", "var"},
         \A k \in 1..Len(s) : s[k].at \in {"decls", "stmts"} => s[k].locals \/ (Len(calls) = 2 /\ k = 1),
         in_loop' => \/ Len(s) >= 1 /\ s[1].at \in Loops /\ outBB' = s[1].locals.last
                     \/ /\ in_loop /\ outBB' = outBB
                        /\ Top.at \in Loops => Len(s) >= 1 /\ s[1].at \in Loops /\ s[1].locals.last = Top.locals.last
  PROVE  ContextInv'
<1> DEFINE n == Len(calls)
<1>1. /\ n \in Nat \ {0} /\ Len(calls') \in Nat /\ Len(calls') = n - 1 + Len(s) /\ Len(s) \in 0..2
      /\ calls' = <<>> <=> Len(calls') = 0
      /\ Top = calls[n] /\ Top' = calls'[Len(calls')]
  BY After
<1>2. /\ \A k \in 1..Len(calls') :
           \/ k < n /\ calls'[k] = calls[k]
           \/ k = n /\ Len(s) >= 1 /\ calls'[k] = s[1]
           \/ k = n + 1 /\ Len(s) = 2 /\ calls'[k] = s[2]
      /\ \A k \in 1..n - 1 : k \in 1..Len(calls') /\ calls'[k] = calls[k]
      /\ Len(s) >= 1 => n \in 1..Len(calls') /\ calls'[n] = s[1]
      /\ Len(s) = 2 => n + 1 \in 1..Len(calls') /\ calls'[n + 1] = s[2]
  BY After
<1> HIDE DEF n
<1>3. /\ Len(s) = 1 => Top' = s[1] /\ calls' # <<>> /\ Len(calls') = n
      /\ Len(s) = 2 => Top' = s[2] /\ Len(calls') = n + 1
  <2>1. CASE Len(s) = 1
    <3>1. Len(calls') = n /\ calls' # <<>>
      BY <2>1, <1>1
    <3> QED BY <2>1, <3>1, <1>1, <1>2
  <2>2. CASE Len(s) = 2
    <3>1. Len(calls') = n + 1
      BY <2>2, <1>1
    <3> QED BY <2>2, <3>1, <1>1, <1>2
  <2> QED BY <2>1, <2>2
<1>4. Len(s) = 0 /\ calls' # <<>> => Top'.at \notin {"compound", "var"}
  <2> SUFFICES ASSUME Len(s) = 0, calls' # <<>> PROVE Top'.at \notin {"compound", "var"}
    OBVIOUS
  <2>1. n \in 2..Len(calls) /\ Top' = calls[n - 1]
    <3>1. Len(calls') = n - 1 /\ n - 1 \in 1..n - 1
      BY <1>1
    <3> QED BY <3>1, <1>1, <1>2 DEF n
  <2> QED BY <2>1, Waiting DEF AfterStatement, AfterExpression, Operators
<1>5. is_entered' <=> calls' # <<>> /\ Top'.at = "compound" /\ Len(calls') = 2
  <2>1. ~ (calls' # <<>> /\ Top'.at = "compound" /\ Len(calls') = 2)
    <3>1. CASE Len(s) = 0
      BY <3>1, <1>4
    <3>2. CASE Len(s) = 1
      BY <3>2, <1>3 DEF n
    <3>3. CASE Len(s) = 2
      BY <3>3, <1>3
    <3> QED BY <3>1, <3>2, <3>3, <1>1
  <2> QED BY <2>1
<1>6. req_lval' <=> calls' # <<>> /\ Top'.at = "var"
  <2>1. CASE Len(s) = 0
    BY <2>1, <1>4
  <2>2. CASE Len(s) = 1
    BY <2>2, <1>3
  <2>3. CASE Len(s) = 2
    BY <2>3, <1>3
  <2> QED BY <2>1, <2>2, <2>3, <1>1
<1>7. in_loop' => \E p \in 1..Len(calls') : calls'[p].at \in Loops /\ outBB' = calls'[p].locals.last
  <2> SUFFICES ASSUME in_loop' PROVE \E p \in 1..Len(calls') : calls'[p].at \in Loops /\ outBB' = calls'[p].locals.last
    OBVIOUS
  <2>1. CASE Len(s) >= 1 /\ s[1].at \in Loops /\ outBB' = s[1].locals.last
    BY <2>1, <1>2
  <2>2. CASE /\ in_loop /\ outBB' = outBB
             /\ Top.at \in Loops => Len(s) >= 1 /\ s[1].at \in Loops /\ s[1].locals.last = Top.locals.last
    <3>1. PICK p \in 1..n : calls[p].at \in Loops /\ outBB = calls[p].locals.last
      BY <2>2 DEF ContextInv, n
    <3>2. CASE p = n
      <4>1. Len(s) >= 1 /\ s[1].at \in Loops /\ s[1].locals.last = outBB
        BY <1>1, <2>2, <3>1, <3>2
      <4> QED BY <4>1, <1>2, <2>2
    <3>3. CASE p # n
      <4>1. p \in 1..n - 1
        BY <1>1, <3>3
      <4>2. p \in 1..Len(calls') /\ calls'[p] = calls[p]
        BY <4>1, <1>2
      <4> QED BY <4>2, <2>2, <3>1
    <3> QED BY <3>2, <3>3
  <2> QED BY <2>1, <2>2
<1>8. \A k \in 1..Len(calls') : calls'[k].at \in {"decls", "stmts"} /\ k # 2 => calls'[k].locals
  <2> SUFFICES ASSUME NEW k \in 1..Len(calls'), calls'[k].at \in {"decls", "stmts"}, k # 2 PROVE calls'[k].locals
    OBVIOUS
  <2>1. CASE k < n /\ calls'[k] = calls[k]
    <3>1. k \in 1..Len(calls)
      BY <2>1, <1>1 DEF n
    <3> QED BY <2>1, <3>1 DEF ContextInv
  <2>2. CASE k = n /\ Len(s) >= 1 /\ calls'[k] = s[1]
    <3>1. 1 \in 1..Len(s) /\ n # 2
      BY <2>2, <1>1
    <3> QED BY <2>2, <3>1 DEF n
  <2>3. CASE k = n + 1 /\ Len(s) = 2 /\ calls'[k] = s[2]
    <3>1. 2 \in 1..Len(s) /\ 2 # 1
      BY <2>3
    <3> QED BY <2>3, <3>1
  <2> QED BY <2>1, <2>2, <2>3, <1>2
<1>9. insert' \in 0..N /\ insert' >= 1
  BY NAssumption DEF Block
<1> QED
  BY <1>5, <1>6, <1>7, <1>8, <1>9 DEF ContextInv

\* No scope is entered or left.
ScopesKept == ShapeInv' /\ \A own : Owners(own) => Owners(own)'

\* Actions that enter and leave no scope.
LEMMA ShapeKept ==
  ASSUME ShapeInv, CallInv', NEW s, Steps(s),
         inner' \in Seq([Name -> 0..N]), Len(inner') = Len(inner), inner'[1] = Unbound,
         created' \in 0..N, insert' \in Block, cur' = insert', outBB' \in 0..N,
         value' \in {"int", "float", "none"}, in_loop' \in BOOLEAN, req_lval' \in BOOLEAN,
         Top.at \notin {"endFunction", "compound"}, is_entered' = is_entered,
         Len(s) = 0 => Top.at \notin {"decls", "stmts"},
         Len(s) >= 1 => \/ s[1].at \in {Top.at, "stmts"} /\ Top.at \in {"decls", "stmts"} /\ s[1].locals = Top.locals
                        \/ Top.at \notin {"decls", "stmts"} /\ s[1].at \notin {"decls", "stmts"},
         Len(s) = 1 /\ s[1].at = "compound" => Top.at = "stmt",
         req_lval' <=> Len(s) = 1 /\ s[1].at = "var",
         Len(s) = 2 => s[2].at \notin {"compound", "decls", "stmts", "var"},
         in_loop' => \/ Len(s) >= 1 /\ s[1].at \in Loops /\ outBB' = s[1].locals.last
                     \/ /\ in_loop /\ outBB' = outBB
                        /\ Top.at \in Loops => Len(s) >= 1 /\ s[1].at \in Loops /\ s[1].locals.last = Top.locals.last
  PROVE  ScopesKept
<1>1. CallInv /\ ContextInv
  BY DEF ShapeInv
<1>2. \E own : Owners(own)
  BY DEF ShapeInv
<1>3. /\ Len(calls) \in Nat \ {0} /\ calls # <<>> /\ Len(s) \in 0..2 /\ Len(calls') = Len(calls) - 1 + Len(s)
      /\ calls' = <<>> <=> Len(calls') = 0
      /\ Top = calls[Len(calls)] /\ Len(calls) \in 1..Len(calls)
  BY <1>1, After
<1>4. Len(calls) > 1 /\ (Top.at = "stmt" => Len(calls) # 2)
  <2>1. Len(calls) # 1
    BY <1>1, <1>3, TopInPlace
  <2>2. Len(calls) = 2 => Top.at \in Bodies
    <3>1. Len(calls) = 2 => 1 \in 1..Len(calls) /\ Top.at \in Child(calls[1].at) /\ calls[1].at = "endFunction"
      <4>1. Len(calls) = 2 => Len(calls) - 1 = 1 /\ Top.at \in Child(calls[Len(calls) - 1].at) /\ 1 \in 1..Len(calls)
        BY <1>1, <1>3, TopInPlace
      <4> QED BY <1>1, <4>1 DEF CallInv
    <3> QED BY <3>1 DEF Child
  <2>3. Top.at = "stmt" => Top.at \notin Bodies
    BY DEF Bodies
  <2>4. Len(calls) > 1
    <3>1. \A n \in Nat \ {0} : n # 1 => n > 1
      OBVIOUS
    <3> QED BY <1>3, <2>1, <3>1
  <2> QED BY <2>2, <2>3, <2>4
<1>5. inner' # <<>>
  BY <1>1, EmptySeq DEF ContextInv
<1>6. \A k \in 1..Len(s) : s[k].at \in {"decls", "stmts"} => s[k].locals \/ (Len(calls) = 2 /\ k = 1)
  <2> SUFFICES ASSUME NEW k \in 1..Len(s), s[k].at \in {"decls", "stmts"} PROVE s[k].locals \/ (Len(calls) = 2 /\ k = 1)
    OBVIOUS
  <2>1. k = 1 /\ Len(s) >= 1
    BY <1>3
  <2>2. Top.at \in {"decls", "stmts"} /\ s[1].locals = Top.locals
    BY <2>1
  <2>3. Len(calls) # 2 => Top.locals
    BY <1>1, <1>3, <2>2 DEF ContextInv
  <2> QED BY <2>1, <2>2, <2>3
<1>7. ~ is_entered'
  BY <1>1 DEF ContextInv
<1>8. {in_loop, is_entered, req_lval}' \subseteq BOOLEAN
  BY <1>1 DEF ContextInv
<1>9. ContextInv'
  <2>1. Len(s) = 1 => s[1].at # "compound" \/ Len(calls) # 2
    BY <1>4
  <2>2. Len(s) = 2 => s[2].at \notin {"compound", "var"}
    OBVIOUS
  <2> QED BY <1>1, <1>5, <1>6, <1>7, <1>8, <2>1, <2>2, ContextStep
<1>10. ASSUME NEW own, Owners(own) PROVE Owners(own)'
  <2>1. Len(s) = 0 => ~ Enters(Top)
    BY DEF Enters
  <2>2. Len(s) >= 1 => (Enters(s[1]) <=> Enters(Top))
    BY DEF Enters
  <2>3. Len(s) = 2 => ~ Enters(s[2])
    BY DEF Enters
  <2>4. calls' # <<>>
    BY <1>3, <1>4
  <2>5. Len(inner') = Len(inner)
    OBVIOUS
  <2> QED BY <1>1, <1>10, <2>1, <2>2, <2>3, <2>4, <2>5, OwnersKept
<1>11. (\E own : Owners(own))'
  BY <1>2, <1>10
<1> QED
  BY <1>9, <1>10, <1>11 DEF ShapeInv, ScopesKept

\* Nothing is called and nothing returns.
LEMMA SameFrames ==
  ASSUME CallInv, calls # <<>>, calls' = calls
  PROVE  CallInv' /\ Steps(<<Top>>)
<1>1. CallInv'
  BY DEF CallInv
<1>2. Len(calls) \in Nat \ {0} /\ Top = calls[Len(calls)]
  BY TopInPlace
<1>3. Len(<<Top>>) = 1 /\ <<Top>>[1] = Top
  BY Pairs
<1>4. \A k \in 1..Len(<<Top>>) : calls'[Len(calls) - 1 + k] = <<Top>>[k]
  <2>1. \A k \in 1..1 : k = 1 /\ Len(calls) - 1 + k = Len(calls)
    BY <1>2
  <2> QED BY <1>2, <1>3, <2>1
<1>5. /\ Len(<<Top>>) \in 0..2 /\ Len(calls') = Len(calls) - 1 + Len(<<Top>>)
      /\ \A k \in 1..Len(calls) - 1 : calls'[k] = calls[k]
  BY <1>2, <1>3
<1> QED
  BY <1>1, <1>2, <1>4, <1>5 DEF Steps

\* The shape is an invariant.
LEMMA ShapeInit == Init => ShapeInv
<1> SUFFICES ASSUME Init PROVE ShapeInv
  OBVIOUS
<1>1. calls = <<>> /\ <<>> \in Seq(ToSet(<<>>)) /\ Len(<<>>) = 0
  BY Pairs DEF Init
<1>2. CallInv
  BY <1>1, BoundsAssumption DEF CallInv
<1>3. inner = <<Unbound>> /\ Unbound \in [Name -> 0..N]
  BY NAssumption DEF Init, Unbound, NoBlock
<1>4. inner \in Seq([Name -> 0..N]) /\ inner # <<>> /\ inner[1] = Unbound /\ Len(inner) = 1
  BY <1>3
<1>5. ContextInv
  <2>1. Len(calls) = 0 /\ created = 0
    BY <1>1 DEF Init
  <2>2. {in_loop, is_entered, req_lval} \subseteq BOOLEAN /\ ~ is_entered /\ ~ req_lval /\ ~ in_loop
    BY DEF Init
  <2> QED BY <1>1, <1>4, <2>1, <2>2, NAssumption DEF ContextInv, Init, NoBlock
<1>6. Owners(<<0>>)
  <2>1. <<0>> \in Seq(Nat) /\ Len(<<0>>) = 1 /\ 1..Len(<<0>>) = {1} /\ 1..Len(calls) = {}
    BY <1>1
  <2> QED BY <1>1, <1>4, <2>1 DEF Owners
<1> QED
  BY <1>2, <1>5, <1>6 DEF ShapeInv

\* The quiet actions of expressions and statements: the context is as it was.
LEMMA ShapeQuiet ==
  ASSUME ShapeInv
  PROVE  /\ BeginStatements \/ NextStatement \/ Statement \/ EndReturn \/ EndBinary \/ EndCall => ScopesKept
         /\ BeginAssign \/ AssignTarget \/ BeginBinary \/ RightOperand \/ BeginCall => ScopesKept
         /\ \A t \in {"int", "float"} : Num(t) => ScopesKept
         /\ \A v \in Scalar : ScalarVar(v) => ScopesKept
         /\ \A v \in Array : BeginSubscript(v) => ScopesKept
<1>1. CallInv /\ ContextInv
  BY DEF ShapeInv
<1>2. ASSUME NEW s, CallInv', Steps(s), calls # <<>>,
             UNCHANGED <<created, cur, outBB, in_loop, is_entered, inner>>, insert' = insert,
             value' \in {"int", "float", "none"}, req_lval' \in BOOLEAN,
             Top.at \notin {"endFunction", "compound"},
             Len(s) = 0 => Top.at \notin {"decls", "stmts"} \cup Loops,
             Len(s) >= 1 => \/ s[1].at \in {Top.at, "stmts"} /\ Top.at \in {"decls", "stmts"} /\ s[1].locals = Top.locals
                            \/ Top.at \notin {"decls", "stmts"} \cup Loops /\ s[1].at \notin {"decls", "stmts"},
             Len(s) = 1 /\ s[1].at = "compound" => Top.at = "stmt",
             req_lval' <=> Len(s) = 1 /\ s[1].at = "var",
             Len(s) = 2 => s[2].at \notin {"compound", "decls", "stmts", "var"}
      PROVE  ScopesKept
  <2>1. /\ created' \in 0..N /\ insert' \in Block /\ cur' = insert' /\ outBB' \in 0..N
        /\ in_loop' \in BOOLEAN /\ is_entered' = is_entered /\ in_loop' = in_loop /\ outBB' = outBB
    BY <1>1, <1>2, NAssumption DEF ContextInv, Block
  <2>2. inner' \in Seq([Name -> 0..N]) /\ Len(inner') = Len(inner) /\ inner'[1] = Unbound
    BY <1>1, <1>2 DEF ContextInv
  <2>3. Top.at \in Loops => Len(s) >= 1 /\ s[1].at \in Loops /\ s[1].locals.last = Top.locals.last
    <3>1. Top.at \in Loops => Top.at \notin {"decls", "stmts"} /\ Len(s) # 0 /\ ~ (Len(s) >= 1)
      BY <1>2 DEF Loops
    <3>2. Len(s) \in 0..2
      BY <1>2 DEF Steps
    <3> QED BY <3>1, <3>2
  <2> QED BY <1>2, <2>1, <2>2, <2>3, ShapeKept
<1> DEFINE Same == UNCHANGED <<created, cur, outBB, in_loop, is_entered, inner>> /\ insert' = insert
           Value == value' \in {"int", "float", "none"}
<1>3. ASSUME CallInv', Steps(<<>>), calls # <<>>, Same, Value, ~ req_lval', req_lval' \in BOOLEAN,
             Top.at \notin {"endFunction", "compound", "decls", "stmts"} \cup Loops
      PROVE  ScopesKept
  <2> DEFINE s == <<>>
  <2>1. Len(s) = 0 /\ Steps(s)
    BY <1>3, Pairs
  <2> HIDE DEF s
  <2> QED BY <1>2, <1>3, <2>1
<1>4. ASSUME NEW c, CallInv', Steps(<<c>>), calls # <<>>, Same, Value, req_lval' \in BOOLEAN, req_lval' <=> c.at = "var",
             \/ Top.at = "decls" /\ c.at = "stmts" /\ c.locals = Top.locals
             \/ Top.at = "stmt" /\ c.at \notin {"decls", "stmts"}
             \/ Top.at \in Operators /\ c.at \notin {"decls", "stmts", "compound"}
      PROVE  ScopesKept
  <2> DEFINE s == <<c>>
  <2>1. Len(s) = 1 /\ Steps(s) /\ s[1] = c
    BY <1>4, Pairs
  <2> HIDE DEF s
  <2>2. Top.at \notin {"endFunction", "compound"} \cup Loops /\ (Top.at \in {"decls", "stmts"} => Top.at = "decls")
    BY <1>4 DEF Operators, Loops
  <2>4. Top.at \in Operators \cup {"stmt"} => Top.at \notin {"decls", "stmts"} \cup Loops
    BY DEF Operators, Loops
  <2>3. /\ Len(s) >= 1 => \/ s[1].at \in {Top.at, "stmts"} /\ Top.at \in {"decls", "stmts"} /\ s[1].locals = Top.locals
                          \/ Top.at \notin {"decls", "stmts"} \cup Loops /\ s[1].at \notin {"decls", "stmts"}
        /\ Len(s) = 1 /\ s[1].at = "compound" => Top.at = "stmt"
        /\ req_lval' <=> Len(s) = 1 /\ s[1].at = "var"
    BY <1>4, <2>1, <2>2, <2>4
  <2> QED BY <1>2, <1>4, <2>1, <2>2, <2>3
<1>5. ASSUME NEW c, NEW d, CallInv', Steps(<<c, d>>), calls # <<>>, Same, Value, req_lval' \in BOOLEAN, ~ req_lval',
             \/ Top.at = "stmts" /\ c = Top
             \/ Top.at \in {"stmt", "expr", "var", "right"} /\ c.at \notin {"decls", "stmts"},
             d.at \in {"stmt", "expr"}
      PROVE  ScopesKept
  <2> DEFINE s == <<c, d>>
  <2>1. Len(s) = 2 /\ Steps(s) /\ s[1] = c /\ s[2] = d
    BY <1>5, Pairs
  <2> HIDE DEF s
  <2>2. Top.at \notin {"endFunction", "compound", "decls"} \cup Loops
    BY <1>5 DEF Loops
  <2>3. /\ Len(s) >= 1 => \/ s[1].at \in {Top.at, "stmts"} /\ Top.at \in {"decls", "stmts"} /\ s[1].locals = Top.locals
                          \/ Top.at \notin {"decls", "stmts"} \cup Loops /\ s[1].at \notin {"decls", "stmts"}
        /\ Len(s) = 2 => s[2].at \notin {"compound", "decls", "stmts", "var"}
        /\ req_lval' <=> Len(s) = 1 /\ s[1].at = "var"
    BY <1>5, <2>1, <2>2
  <2> QED BY <1>2, <1>5, <2>1, <2>2, <2>3
<1>6. \A p : At(p) => calls # <<>> /\ Top.at = p
  BY DEF At
<1>7. AfterAlloca = insert
  BY <1>1 DEF AfterAlloca, ContextInv
<1>8. /\ Top.at # "var" /\ calls # <<>> => ~ req_lval
      /\ req_lval \in BOOLEAN /\ value \in {"int", "float", "none"}
  BY <1>1 DEF ContextInv
<1>9. ASSUME EndReturn \/ EndBinary \/ EndCall PROVE ScopesKept
  <2>1. Same /\ Value /\ UNCHANGED req_lval
    BY <1>8, <1>9 DEF EndReturn, EndBinary, EndCall, cfg, context
  <2>2. calls # <<>> /\ Top.at \in {"return", "combine", "call"}
    BY <1>6, <1>9 DEF EndReturn, EndBinary, EndCall
  <2>3. Top.at \notin {"endFunction", "compound", "decls", "stmts", "var"} \cup Loops
    BY <2>2 DEF Loops
  <2>4. CallInv' /\ Steps(<<>>)
    BY <1>9, Frames
  <2> HIDE DEF Same, Value
  <2> QED BY <1>3, <1>8, <2>1, <2>2, <2>3, <2>4
<1>10. ASSUME NEW t \in {"int", "float"}, Num(t) PROVE ScopesKept
  <2>1. Same /\ Value /\ UNCHANGED req_lval
    BY <1>7, <1>10 DEF Num, cfg, context
  <2>2. calls # <<>> /\ Top.at = "expr"
    BY <1>6, <1>10 DEF Num
  <2>3. Top.at \notin {"endFunction", "compound", "decls", "stmts", "var"} \cup Loops
    BY <2>2 DEF Loops
  <2>4. CallInv' /\ Steps(<<>>)
    BY <1>10, Frames
  <2> HIDE DEF Same, Value
  <2> QED BY <1>3, <1>8, <2>1, <2>2, <2>3, <2>4
<1>11. ASSUME NEW v \in Scalar, ScalarVar(v) PROVE ScopesKept
  <2>1. Same /\ Value /\ req_lval' = FALSE
    BY <1>11 DEF ScalarVar, cfg
  <2>2. calls # <<>> /\ Top.at \in {"expr", "var"}
    BY <1>6, <1>11 DEF ScalarVar
  <2>3. Top.at \notin {"endFunction", "compound", "decls", "stmts"} \cup Loops
    BY <2>2 DEF Loops
  <2>4. CallInv' /\ Steps(<<>>)
    BY <1>11, Frames
  <2> HIDE DEF Same, Value
  <2> QED BY <1>3, <2>1, <2>2, <2>3, <2>4
<1>12. ASSUME BeginStatements PROVE ScopesKept
  <2>1. Same /\ Value /\ UNCHANGED req_lval
    BY <1>8, <1>12 DEF BeginStatements, cfg, context
  <2>2. calls # <<>> /\ Top.at = "decls"
    BY <1>6, <1>12 DEF BeginStatements
  <2>3. CallInv' /\ Steps(<<Call("stmts", Top.locals)>>)
    BY <1>12, Frames
  <2> HIDE DEF Same, Value
  <2> QED BY <1>4, <1>8, <2>1, <2>2, <2>3, CallFields
<1>13. ASSUME NextStatement PROVE ScopesKept
  <2>1. Same /\ Value /\ UNCHANGED req_lval
    BY <1>8, <1>13 DEF NextStatement, cfg, context
  <2>2. calls # <<>> /\ Top.at = "stmts"
    BY <1>6, <1>13 DEF NextStatement
  <2>3. CallInv' /\ Steps(<<Top, Call("stmt", <<>>)>>)
    BY <1>13, Frames
  <2> HIDE DEF Same, Value
  <2> QED BY <1>5, <1>8, <2>1, <2>2, <2>3, CallFields
<1>14. ASSUME Statement PROVE ScopesKept
  <2>1. Same /\ Value /\ UNCHANGED req_lval
    BY <1>8, <1>14 DEF Statement, cfg, context
  <2>2. calls # <<>> /\ Top.at = "stmt" /\ ~ req_lval /\ req_lval \in BOOLEAN
    BY <1>6, <1>8, <1>14 DEF Statement
  <2>3. CallInv'
    BY <1>14, Frames
  <2> HIDE DEF Same, Value
  <2>4. CASE \E at \in {"compound", "return", "expr"} : Steps(<<Call(at, <<>>)>>)
    BY <2>1, <2>2, <2>3, <2>4, <1>4, CallFields
  <2>5. CASE Steps(<<>>)
    <3>1. Top.at \notin {"endFunction", "compound", "decls", "stmts"} \cup Loops
      BY <2>2 DEF Loops
    <3> QED BY <2>1, <2>2, <2>3, <2>5, <3>1, <1>3
  <2>6. CASE \E else \in BOOLEAN : Steps(<<Call("if", else), Call("expr", <<>>)>>)
    BY <2>1, <2>2, <2>3, <2>6, <1>5, CallFields
  <2>7. CASE Steps(<<Call("return", <<>>), Call("expr", <<>>)>>)
    BY <2>1, <2>2, <2>3, <2>7, <1>5, CallFields
  <2> QED BY <2>4, <2>5, <2>6, <2>7, <1>14, Frames
<1>15. ASSUME AssignTarget PROVE ScopesKept
  <2>1. Same /\ Value /\ req_lval' = TRUE
    BY <1>8, <1>15 DEF AssignTarget, cfg
  <2>2. calls # <<>> /\ Top.at \in Operators
    BY <1>6, <1>15 DEF AssignTarget, Operators
  <2>3. CallInv' /\ Steps(<<Call("var", <<>>)>>)
    BY <1>15, Frames
  <2> HIDE DEF Same, Value
  <2> QED BY <1>4, <2>1, <2>2, <2>3, CallFields
<1>16. ASSUME NEW at \in Operators, NEW l, CallInv', Steps(<<Call(at, l), Call("expr", <<>>)>>), calls # <<>>, Same, Value,
              ~ req_lval', req_lval' \in BOOLEAN, Top.at \in {"expr", "var", "right"}
       PROVE  ScopesKept
  <2>1. at \notin {"decls", "stmts"}
    BY DEF Operators
  <2> HIDE DEF Same, Value
  <2> QED BY <1>5, <1>16, <2>1, CallFields
<1>17. ASSUME NEW v \in Array, BeginSubscript(v) PROVE ScopesKept
  <2>1. Same /\ Value /\ req_lval' = FALSE
    BY <1>8, <1>17 DEF BeginSubscript, cfg
  <2>2. calls # <<>> /\ Top.at \in {"expr", "var"}
    BY <1>6, <1>17 DEF BeginSubscript
  <2>3. CallInv' /\ Steps(<<Call("subscript", Find(v)), Call("expr", <<>>)>>)
    BY <1>17, Frames
  <2> HIDE DEF Same, Value
  <2> QED BY <1>16, <2>1, <2>2, <2>3 DEF Operators
<1>18. ASSUME BeginAssign PROVE ScopesKept
  <2>1. Same /\ Value /\ UNCHANGED req_lval /\ calls # <<>> /\ Top.at = "expr"
    BY <1>6, <1>8, <1>18 DEF BeginAssign, cfg, context
  <2> HIDE DEF Same, Value
  <2> QED BY <1>8, <1>16, <1>18, <2>1, Frames DEF Operators
<1>19. ASSUME BeginBinary PROVE ScopesKept
  <2>1. Same /\ Value /\ UNCHANGED req_lval /\ calls # <<>> /\ Top.at = "expr"
    BY <1>6, <1>8, <1>19 DEF BeginBinary, cfg, context
  <2> HIDE DEF Same, Value
  <2> QED BY <1>8, <1>16, <1>19, <2>1, Frames DEF Operators
<1>20. ASSUME RightOperand PROVE ScopesKept
  <2>1. Same /\ Value /\ UNCHANGED req_lval /\ calls # <<>> /\ Top.at = "right"
    BY <1>6, <1>8, <1>20 DEF RightOperand, cfg, context
  <2> HIDE DEF Same, Value
  <2> QED BY <1>8, <1>16, <1>20, <2>1, Frames DEF Operators
<1>21. ASSUME BeginCall PROVE ScopesKept
  <2>1. Same /\ Value /\ UNCHANGED req_lval /\ calls # <<>> /\ Top.at = "expr"
    BY <1>6, <1>8, <1>21 DEF BeginCall, cfg, context
  <2> HIDE DEF Same, Value
  <2> QED BY <1>8, <1>16, <1>21, <2>1, Frames DEF Operators
<1> QED
  BY <1>9, <1>10, <1>11, <1>12, <1>13, <1>14, <1>15, <1>17, <1>18, <1>19, <1>20, <1>21

\* The actions on blocks.
LEMMA ShapeBranches ==
  ASSUME ShapeInv, BeginSelection \/ EndArm \/ BeginIteration \/ BeginBody \/ EndBody \/ EndSubscript
  PROVE  ScopesKept
<1>1. CallInv /\ ContextInv
  BY DEF ShapeInv
<1>2. \A p : At(p) => calls # <<>> /\ Top.at = p /\ Local(Top)
  BY <1>1, TopInPlace DEF At
<1>3. /\ insert \in 0..N /\ (calls # <<>> => insert \in Block)
      /\ created \in Nat /\ created <= N /\ N \in Nat /\ outBB \in 0..N
      /\ in_loop \in BOOLEAN /\ req_lval \in BOOLEAN /\ value \in {"int", "float", "none"}
      /\ Top.at # "var" /\ calls # <<>> => ~ req_lval
  BY <1>1, NAssumption DEF ContextInv, Block
<1> DEFINE Going == /\ created' \in 0..N /\ insert' \in Block /\ cur' = insert' /\ inner' = inner
                    /\ is_entered' = is_entered /\ req_lval' = req_lval /\ value' \in {"int", "float", "none"}
<1>4. ASSUME Going PROVE inner' \in Seq([Name -> 0..N]) /\ Len(inner') = Len(inner) /\ inner'[1] = Unbound
  BY <1>1, <1>4 DEF ContextInv
<1>5. ASSUME Going, CallInv', Steps(<<>>), Top.at \in {"endArm", "endBody", "subscript"}, calls # <<>>,
             in_loop' \in BOOLEAN, outBB' = outBB, in_loop' => in_loop /\ Top.at # "endBody"
      PROVE  ScopesKept
  <2> DEFINE s == <<>>
  <2>1. Len(s) = 0 /\ Steps(s)
    BY <1>5, Pairs
  <2> HIDE DEF s
  <2>2. outBB' \in 0..N /\ req_lval' \in BOOLEAN /\ ~ req_lval'
    BY <1>3, <1>5
  <2>3. Top.at \notin {"endFunction", "compound", "decls", "stmts"} /\ (in_loop' => in_loop /\ Top.at \notin Loops)
    BY <1>5 DEF Loops
  <2>4. /\ created' \in 0..N /\ insert' \in Block /\ cur' = insert'
        /\ is_entered' = is_entered /\ value' \in {"int", "float", "none"}
    BY <1>5
  <2> HIDE DEF Going
  <2>5. inner' \in Seq([Name -> 0..N]) /\ Len(inner') = Len(inner) /\ inner'[1] = Unbound
    BY <1>4, <1>5
  <2> QED BY <1>5, <2>1, <2>2, <2>3, <2>4, <2>5, ShapeKept
<1>6. ASSUME Going, NEW c, NEW d, CallInv', Steps(<<c, d>>), calls # <<>>,
             Top.at \in {"if", "endArm", "stmt", "while"}, c.at \in {"endArm", "while", "endBody"}, d.at \in {"stmt", "expr"},
             in_loop' \in BOOLEAN, outBB' \in 0..N,
             \/ (in_loop' => in_loop) /\ outBB' = outBB /\ Top.at # "while"
             \/ (in_loop' => in_loop) /\ outBB' = outBB /\ c.at = "endBody" /\ c.locals.last = Top.locals.last
             \/ c.at = "while" /\ c.locals.last = outBB'
      PROVE  ScopesKept
  <2> DEFINE s == <<c, d>>
  <2>1. Len(s) = 2 /\ Steps(s) /\ s[1] = c /\ s[2] = d
    BY <1>6, Pairs
  <2> HIDE DEF s
  <2>2. req_lval' \in BOOLEAN /\ ~ req_lval'
    BY <1>3, <1>6
  <2>3. /\ Top.at \notin {"endFunction", "compound", "decls", "stmts"} /\ s[1].at \notin {"decls", "stmts"}
        /\ s[2].at \notin {"compound", "decls", "stmts", "var"}
    BY <1>6, <2>1
  <2>4. in_loop' => \/ Len(s) >= 1 /\ s[1].at \in Loops /\ outBB' = s[1].locals.last
                    \/ /\ in_loop /\ outBB' = outBB
                       /\ Top.at \in Loops => Len(s) >= 1 /\ s[1].at \in Loops /\ s[1].locals.last = Top.locals.last
    <3> SUFFICES ASSUME in_loop'
                 PROVE  \/ Len(s) >= 1 /\ s[1].at \in Loops /\ outBB' = s[1].locals.last
                        \/ /\ in_loop /\ outBB' = outBB
                           /\ Top.at \in Loops => Len(s) >= 1 /\ s[1].at \in Loops /\ s[1].locals.last = Top.locals.last
      OBVIOUS
    <3>1. Len(s) >= 1
      BY <2>1
    <3>2. CASE (in_loop' => in_loop) /\ outBB' = outBB /\ Top.at # "while"
      BY <1>6, <3>2 DEF Loops
    <3>3. CASE (in_loop' => in_loop) /\ outBB' = outBB /\ c.at = "endBody" /\ c.locals.last = Top.locals.last
      BY <2>1, <3>1, <3>3 DEF Loops
    <3>4. CASE c.at = "while" /\ c.locals.last = outBB'
      BY <2>1, <3>1, <3>4 DEF Loops
    <3> QED BY <1>6, <3>2, <3>3, <3>4
  <2>5. /\ created' \in 0..N /\ insert' \in Block /\ cur' = insert'
        /\ is_entered' = is_entered /\ value' \in {"int", "float", "none"}
    BY <1>6
  <2> HIDE DEF Going
  <2>6. inner' \in Seq([Name -> 0..N]) /\ Len(inner') = Len(inner) /\ inner'[1] = Unbound
    BY <1>4, <1>6
  <2>7. /\ Len(s) = 0 => Top.at \notin {"decls", "stmts"}
        /\ Len(s) = 1 /\ s[1].at = "compound" => Top.at = "stmt"
        /\ req_lval' <=> Len(s) = 1 /\ s[1].at = "var"
    BY <2>1, <2>2
  <2> QED BY <1>6, <2>1, <2>2, <2>3, <2>4, <2>5, <2>6, <2>7, ShapeKept
<1>7. CASE BeginSelection
  <2>1. /\ At("if") /\ created' \in 0..N /\ insert' = created + 1 /\ created + 1 <= N /\ cur' = insert' /\ inner' = inner
        /\ is_entered' = is_entered /\ req_lval' = req_lval /\ value' = "none" /\ in_loop' = in_loop /\ outBB' = outBB
    BY <1>3, <1>7 DEF BeginSelection
  <2>2. Going /\ in_loop' \in BOOLEAN /\ outBB' \in 0..N /\ calls # <<>> /\ Top.at = "if"
    BY <1>2, <1>3, <2>1 DEF Block
  <2>3. CallInv' /\ Steps(<<Arms(Top.locals), Call("stmt", <<>>)>>)
    BY <1>7, BranchFrames
  <2>4. Arms(Top.locals).at = "endArm" /\ Call("stmt", <<>>).at = "stmt"
    BY CallFields DEF Arms
  <2> HIDE DEF Going
  <2> QED BY <1>6, <2>1, <2>2, <2>3, <2>4
<1>8. CASE EndArm
  <2>1. /\ At("endArm") /\ created' = created /\ cur' = insert' /\ inner' = inner
        /\ insert' = (IF Top.locals.else # NoBlock THEN Top.locals.else ELSE Top.locals.out)
        /\ is_entered' = is_entered /\ req_lval' = req_lval /\ value' = "none" /\ in_loop' = in_loop /\ outBB' = outBB
    BY <1>8 DEF EndArm
  <2>2. calls # <<>> /\ Top.at = "endArm" /\ Top.locals \in [out : Block, else : 0..N]
    BY <1>2, <2>1 DEF Local
  <2>3. Going /\ in_loop' \in BOOLEAN /\ outBB' \in 0..N
    BY <1>3, <2>1, <2>2 DEF Block, NoBlock
  <2>4. CallInv' /\ IF Top.locals.else = NoBlock THEN Steps(<<>>) ELSE Steps(<<LastArm, Call("stmt", <<>>)>>)
    BY <1>8, BranchFrames
  <2>5. LastArm.at = "endArm" /\ Call("stmt", <<>>).at = "stmt"
    BY CallFields DEF LastArm
  <2> HIDE DEF Going
  <2>6. CASE Top.locals.else = NoBlock
    BY <1>5, <2>1, <2>2, <2>3, <2>4, <2>6
  <2>7. CASE Top.locals.else # NoBlock
    BY <1>6, <2>1, <2>2, <2>3, <2>4, <2>5, <2>7
  <2> QED BY <2>6, <2>7
<1>9. CASE BeginIteration
  <2>1. /\ At("stmt") /\ created' = created + 1 /\ created < N /\ insert' = created + 1 /\ cur' = insert' /\ inner' = inner
        /\ is_entered' = is_entered /\ req_lval' = req_lval /\ value' = value /\ in_loop' = TRUE /\ outBB' = insert
    BY <1>3, <1>9 DEF BeginIteration
  <2>2. Going /\ in_loop' \in BOOLEAN /\ outBB' \in 0..N /\ calls # <<>> /\ Top.at = "stmt"
    BY <1>2, <1>3, <2>1 DEF Block
  <2>3. CallInv' /\ Steps(<<Condition, Call("expr", <<>>)>>)
    BY <1>9, BranchFrames
  <2>4. Condition.at = "while" /\ Condition.locals.last = insert /\ Call("expr", <<>>).at = "expr"
    BY CallFields DEF Condition
  <2> HIDE DEF Going
  <2> QED BY <1>6, <2>1, <2>2, <2>3, <2>4
<1>10. CASE BeginBody
  <2>1. /\ At("while") /\ created' = created + 2 /\ created + 2 <= N /\ insert' = created + 1 /\ cur' = insert' /\ inner' = inner
        /\ is_entered' = is_entered /\ req_lval' = req_lval /\ value' = "none" /\ in_loop' = in_loop /\ outBB' = outBB
    BY <1>3, <1>10 DEF BeginBody
  <2>2. Going /\ in_loop' \in BOOLEAN /\ outBB' \in 0..N /\ calls # <<>> /\ Top.at = "while"
    BY <1>2, <1>3, <2>1 DEF Block
  <2>3. CallInv' /\ Steps(<<LoopBody, Call("stmt", <<>>)>>)
    BY <1>10, BranchFrames
  <2>4. LoopBody.at = "endBody" /\ LoopBody.locals.last = Top.locals.last /\ Call("stmt", <<>>).at = "stmt"
    BY CallFields DEF LoopBody
  <2> HIDE DEF Going
  <2> QED BY <1>6, <2>1, <2>2, <2>3, <2>4
<1>11. CASE EndBody
  <2>1. /\ At("endBody") /\ created' = created /\ cur' = insert' /\ inner' = inner
        /\ insert' = Top.locals.out
        /\ is_entered' = is_entered /\ req_lval' = req_lval /\ value' = "none" /\ in_loop' = FALSE /\ outBB' = outBB
    BY <1>11 DEF EndBody
  <2>2. calls # <<>> /\ Top.at = "endBody" /\ Top.locals.out \in Block
    BY <1>2, <2>1 DEF Local
  <2>3. Going
    BY <1>3, <2>1, <2>2
  <2>4. CallInv' /\ Steps(<<>>)
    BY <1>11, Frames
  <2> HIDE DEF Going
  <2> QED BY <1>5, <2>1, <2>2, <2>3, <2>4
<1>12. CASE EndSubscript
  <2>1. /\ At("subscript") /\ created' = created + 2 /\ created + 2 <= N /\ cur' = insert' /\ inner' = inner
        /\ insert' = created + 1
        /\ is_entered' = is_entered /\ req_lval' = req_lval /\ value' = "int" /\ in_loop' = in_loop /\ outBB' = outBB
    BY <1>12 DEF EndSubscript
  <2>2. Going /\ calls # <<>> /\ Top.at = "subscript"
    BY <1>2, <1>3, <2>1 DEF Block
  <2>3. CallInv' /\ Steps(<<>>)
    BY <1>12, Frames
  <2> HIDE DEF Going
  <2> QED BY <1>3, <1>5, <2>1, <2>2, <2>3
<1> QED
  BY <1>7, <1>8, <1>9, <1>10, <1>11, <1>12

\* A declaration binds a name in the innermost scope.
LEMMA ShapeDeclare ==
  ASSUME ShapeInv, NEW v \in Locals, Declare(v)
  PROVE  /\ ScopesKept /\ Steps(<<Top>>) /\ Home \in Block
         /\ Len(inner) \in Nat /\ Len(inner) >= 2 /\ Len(inner') = Len(inner)
         /\ \A n \in 1..Len(inner), w \in Name :
              inner'[n][w] = IF n = Len(inner) /\ w = v /\ inner[n][w] = NoBlock THEN Home ELSE inner[n][w]
<1>1. CallInv /\ ContextInv
  BY DEF ShapeInv
<1>2. PICK own : Owners(own)
  BY DEF ShapeInv
<1>3. calls # <<>> /\ Top.at = "decls" /\ calls' = calls /\ UNCHANGED <<created, context, value>> /\ insert' = AfterAlloca
  BY <1>1, TopInPlace DEF Declare, At, cfg
<1>4. insert' = insert /\ cur' = cur /\ outBB' = outBB /\ in_loop' = in_loop /\ is_entered' = is_entered /\ req_lval' = req_lval
  BY <1>1, <1>3 DEF AfterAlloca, context, ContextInv
<1>5. CallInv' /\ Steps(<<Top>>)
  BY <1>1, <1>3, SameFrames
<1>6. /\ Len(inner) \in Nat /\ Len(inner) >= 2 /\ inner \in Seq([Name -> 0..N]) /\ v \in Name
      /\ DOMAIN inner = 1..Len(inner) /\ \A n \in 1..Len(inner) : inner[n] \in [Name -> 0..N]
  BY <1>1, <1>2, <1>3, NamesAssumption, LenProperties, ElementOfSeq DEF Owners, ContextInv, Name
<1>7. Home \in Block
  <2>1. insert \in Block
    BY <1>1, <1>3, NAssumption DEF ContextInv, Block
  <2>2. in_loop => outBB \in Block
    <3> SUFFICES ASSUME in_loop PROVE outBB \in Block
      OBVIOUS
    <3>1. PICK p \in 1..Len(calls) : calls[p].at \in Loops /\ outBB = calls[p].locals.last
      BY <1>1 DEF ContextInv
    <3>2. Local(calls[p])
      BY <1>1, <3>1 DEF CallInv
    <3> QED BY <3>1, <3>2 DEF Local, Loops
  <2> QED BY <2>1, <2>2 DEF Home
<1> DEFINE f == inner[Len(inner)]
           g == [f EXCEPT ![v] = IF f[v] = NoBlock THEN Home ELSE f[v]]
<1>8. inner' = [inner EXCEPT ![Len(inner)] = g]
  BY <1>6 DEF Declare, Push
<1>9. f \in [Name -> 0..N] /\ Len(inner) \in 1..Len(inner)
  BY <1>6
<1>10. g \in [Name -> 0..N] /\ \A w \in Name : g[w] = IF w = v /\ f[w] = NoBlock THEN Home ELSE f[w]
  <2>1. Home \in 0..N
    BY <1>7, NAssumption DEF Block
  <2> HIDE DEF f
  <2>2. f[v] \in 0..N
    BY <1>6, <1>9
  <2>3. (IF f[v] = NoBlock THEN Home ELSE f[v]) \in 0..N
    BY <2>1, <2>2
  <2> QED BY <1>6, <1>9, <2>3
<1>11. f = inner[Len(inner)]
  OBVIOUS
<1> HIDE DEF f, g
<1>12. inner' \in Seq([Name -> 0..N]) /\ Len(inner') = Len(inner) /\ \A n \in 1..Len(inner) : inner'[n] = IF n = Len(inner) THEN g ELSE inner[n]
  BY <1>6, <1>8, <1>9, <1>10, ExceptSeq
<1>13. inner'[1] = Unbound
  <2>1. 1 \in 1..Len(inner) /\ 1 # Len(inner)
    BY <1>6
  <2> QED BY <1>1, <1>12, <2>1 DEF ContextInv
<1>14. \A n \in 1..Len(inner), w \in Name :
         inner'[n][w] = IF n = Len(inner) /\ w = v /\ inner[n][w] = NoBlock THEN Home ELSE inner[n][w]
  BY <1>10, <1>11, <1>12
<1>15. ScopesKept
  <2> DEFINE s == <<Top>>
  <2>1. Len(s) = 1 /\ Steps(s) /\ s[1] = Top
    BY <1>5, Pairs
  <2> HIDE DEF s
  <2>2. /\ created' \in 0..N /\ insert' \in Block /\ cur' = insert' /\ outBB' \in 0..N
        /\ value' \in {"int", "float", "none"} /\ in_loop' \in BOOLEAN /\ req_lval' \in BOOLEAN /\ ~ req_lval'
    BY <1>1, <1>3, <1>4, NAssumption DEF ContextInv, Block
  <2>3. Top.at \notin {"endFunction", "compound"} \cup Loops /\ (in_loop' => in_loop /\ outBB' = outBB)
    BY <1>3, <1>4 DEF Loops
  <2>4. /\ Len(s) >= 1 => \/ s[1].at \in {Top.at, "stmts"} /\ Top.at \in {"decls", "stmts"} /\ s[1].locals = Top.locals
                          \/ Top.at \notin {"decls", "stmts"} /\ s[1].at \notin {"decls", "stmts"}
        /\ Len(s) # 0 /\ Len(s) # 2 /\ s[1].at = "decls"
    BY <1>3, <2>1
  <2> QED BY <1>4, <1>5, <1>12, <1>13, <2>1, <2>2, <2>3, <2>4, ShapeKept
<1> QED
  BY <1>5, <1>6, <1>7, <1>12, <1>14, <1>15

\* The call of the body.
LEMMA ShapeBeginFunction ==
  ASSUME ShapeInv, BeginFunction
  PROVE  /\ ShapeInv' /\ Owners(<<0, 2>>)'
         /\ Len(inner') = 2 /\ inner'[2] = [v \in Name |-> IF v \in Params THEN Entry ELSE NoBlock]
         /\ calls' = <<Call("endFunction", <<>>), Call("compound", <<>>)>> /\ Len(calls') = 2
         /\ calls'[1].at = "endFunction" /\ calls'[2].at = "compound"
<1>1. CallInv /\ ContextInv
  BY DEF ShapeInv
<1>2. /\ calls = <<>> /\ created' = 1 /\ insert' = 1 /\ cur' = 1 /\ is_entered' = TRUE
      /\ outBB' = outBB /\ in_loop' = in_loop /\ req_lval' = req_lval /\ value' = value
      /\ inner' = Append(inner, [v \in Name |-> IF v \in Params THEN Entry ELSE NoBlock])
      /\ calls' = <<Call("endFunction", <<>>), Call("compound", <<>>)>>
  BY DEF BeginFunction, Entry
<1>3. PICK old : Owners(old)
  BY DEF ShapeInv
<1> DEFINE params == [v \in Name |-> IF v \in Params THEN Entry ELSE NoBlock]
           body == calls'
<1>4. params \in [Name -> 0..N]
  BY NAssumption DEF Entry, NoBlock
<1>5. inner \in Seq([Name -> 0..N]) /\ Len(inner) = 1 /\ inner[1] = Unbound
  BY <1>1, <1>2, <1>3 DEF ContextInv, Owners
<1> HIDE DEF params
<1>6. /\ inner' \in Seq([Name -> 0..N]) /\ Len(inner') = 2 /\ inner'[1] = Unbound /\ inner'[2] = params
  <2>1. inner' = Append(inner, params)
    BY <1>2 DEF params
  <2>2. /\ Append(inner, params) \in Seq([Name -> 0..N]) /\ Len(Append(inner, params)) = Len(inner) + 1
        /\ \A k \in 1..Len(inner) : Append(inner, params)[k] = inner[k]
        /\ Append(inner, params)[Len(inner) + 1] = params
    <3>1. inner \in Seq([Name -> 0..N]) /\ params \in [Name -> 0..N]
      BY <1>4, <1>5
    <3> DEFINE F == [Name -> 0..N]
    <3> HIDE DEF F
    <3>2. inner \in Seq(F) /\ params \in F
      BY <3>1 DEF F
    <3> QED BY <3>2, AppendProperties DEF F
  <2>3. 1 \in 1..Len(inner) /\ Len(inner) + 1 = 2
    BY <1>5
  <2> QED BY <1>5, <2>1, <2>2, <2>3
<1>7. /\ body \in Seq(ToSet(body)) /\ Len(body) = 2
      /\ body[1].at = "endFunction" /\ body[2].at = "compound"
  BY <1>2, Pairs, CallFields
<1>8. \A k \in 1..2 : k = 1 \/ k = 2
  OBVIOUS
<1>9. CallInv'
  <2>1. \A k \in 1..2 :
          /\ body[k].at \in Place /\ Local(body[k])
          /\ k = 1 <=> body[k].at = "endFunction"
          /\ k > 1 => body[k].at \in Child(body[k - 1].at)
          /\ body[k].at \notin Roomy
    <3> SUFFICES ASSUME NEW k \in 1..2
                 PROVE  /\ body[k].at \in Place /\ Local(body[k])
                        /\ k = 1 <=> body[k].at = "endFunction"
                        /\ k > 1 => body[k].at \in Child(body[k - 1].at)
                        /\ body[k].at \notin Roomy
      OBVIOUS
    <3> HIDE DEF body
    <3>1. CASE k = 1
      BY <3>1, <1>7 DEF Place, Local, Roomy
    <3>2. CASE k = 2
      <4>1. k - 1 = 1
        BY <3>2
      <4> QED BY <4>1, <3>2, <1>7 DEF Place, Statements, Bodies, Local, Child, Roomy
    <3> QED BY <3>1, <3>2, <1>8
  <2>2. 2 <= MaxCalls + 1
    BY BoundsAssumption
  <2> QED BY <1>7, <2>1, <2>2 DEF CallInv
<1>10. ContextInv'
  <2>1. Top' = body[2] /\ body # <<>>
    BY <1>7, EmptySeq DEF Top
  <2>2. inner' # <<>>
    <3>1. Len(inner') # 0
      BY <1>6
    <3> QED BY <3>1, Pairs
  <2>3. ~ req_lval /\ ~ in_loop /\ {in_loop, is_entered, req_lval} \subseteq BOOLEAN
    <3>1. Len(calls) = 0
      BY <1>2, Pairs
    <3> QED BY <1>1, <1>2, <3>1 DEF ContextInv
  <2>4. \A k \in 1..Len(body) : body[k].at \notin {"decls", "stmts"}
    BY <1>7, <1>8
  <2>5. /\ outBB' \in 0..N /\ created' \in 0..N /\ insert' \in 0..N /\ insert' >= 1 /\ cur' = insert'
        /\ value' \in {"int", "float", "none"} /\ {in_loop, is_entered, req_lval}' \subseteq BOOLEAN
    BY <1>1, <1>2, NAssumption DEF ContextInv
  <2>6. is_entered' <=> calls' # <<>> /\ Top'.at = "compound" /\ Len(calls') = 2
    BY <1>2, <1>7, <2>1
  <2>7. req_lval' <=> calls' # <<>> /\ Top'.at = "var"
    BY <1>2, <1>7, <2>1, <2>3
  <2>8. ~ in_loop'
    BY <1>2, <2>3
  <2> HIDE DEF body
  <2> QED BY <1>6, <2>2, <2>4, <2>5, <2>6, <2>7, <2>8 DEF ContextInv, body
<1>11. Owners(<<0, 2>>)'
  <2>1. /\ <<0, 2>> \in Seq(Nat) /\ Len(<<0, 2>>) = 2 /\ <<0, 2>>[2] = 2
    BY Pairs
  <2>2. \A m, n \in 1..2 : 1 < m => ~ (m < n)
    OBVIOUS
  <2>3. \A n \in 1..2 : ~ (n > 2)
    OBVIOUS
  <2>4. \A k \in 1..2 : ~ Enters(body[k])
    BY <1>7, <1>8 DEF Enters
  <2>5. body # <<>>
    BY <1>7, EmptySeq
  <2> HIDE DEF body
  <2>6. Len(calls') = 2 /\ calls' # <<>> /\ \A k \in 1..2 : ~ Enters(calls'[k])
    BY <1>7, <2>4, <2>5 DEF body
  <2> QED BY <1>6, <2>1, <2>2, <2>3, <2>6 DEF Owners
<1>12. ShapeInv'
  BY <1>9, <1>10, <1>11 DEF ShapeInv
<1> QED
  BY <1>2, <1>6, <1>7, <1>11, <1>12 DEF params

\* When the function ends, the global scope is left.
LEMMA ShapeEndFunction ==
  ASSUME ShapeInv, EndFunction
  PROVE  ShapeInv' /\ Owners(<<0>>)' /\ calls' = <<>> /\ Len(inner') = 1
<1>1. CallInv /\ ContextInv
  BY DEF ShapeInv
<1>2. /\ calls # <<>> /\ Top.at = "endFunction" /\ inner' = Front(inner)
      /\ UNCHANGED <<created, insert, context, value>>
  BY DEF EndFunction, At
<1>3. CallInv' /\ Steps(<<>>)
  BY Frames
<1>4. Len(calls) = 1
  BY <1>1, <1>2, TopInPlace
<1>5. PICK old : Owners(old)
  BY DEF ShapeInv
<1>6. Len(inner) = 2
  <2>1. old \in Seq(Nat) /\ Len(old) = Len(inner) /\ Len(old) >= 2 /\ Len(old) \in Nat
    BY <1>2, <1>5, LenProperties DEF Owners
  <2>2. ~ (Len(old) > 2)
    <3> SUFFICES ASSUME Len(old) > 2 PROVE FALSE
      OBVIOUS
    <3>1. 3 \in 1..Len(old) /\ 3 > 2
      BY <2>1
    <3>2. old[3] \in 1..1 /\ Enters(calls[old[3]])
      BY <1>4, <1>5, <3>1 DEF Owners
    <3>3. old[3] = 1 /\ calls[1].at = "endFunction"
      BY <1>1, <1>4, <3>2 DEF CallInv
    <3> QED BY <3>2, <3>3 DEF Enters
  <2> QED BY <2>1, <2>2
<1>7. inner' \in Seq([Name -> 0..N]) /\ Len(inner') = 1 /\ inner'[1] = Unbound /\ inner' # <<>>
  <2>1. /\ Front(inner) \in Seq([Name -> 0..N]) /\ Len(Front(inner)) = Len(inner) - 1
        /\ \A k \in 1..Len(inner) - 1 : Front(inner)[k] = inner[k]
    BY <1>1, FrontProperties DEF ContextInv
  <2>2. Len(inner) - 1 = 1 /\ 1 \in 1..Len(inner) - 1
    BY <1>6
  <2>3. inner' \in Seq([Name -> 0..N]) /\ Len(inner') = 1 /\ inner'[1] = Unbound
    BY <1>1, <1>2, <2>1, <2>2 DEF ContextInv
  <2> QED BY <2>3, EmptySeq
<1>8. calls' = <<>> /\ Len(calls') = 0
  <2> DEFINE s == <<>>
  <2>1. Len(s) = 0 /\ Steps(s)
    BY <1>3, Pairs
  <2> HIDE DEF s
  <2>2. Len(calls') = Len(calls) - 1 + Len(s) /\ (calls' = <<>> <=> Len(calls') = 0)
    BY <1>1, <1>3, <2>1, After
  <2> QED BY <1>4, <2>1, <2>2
<1>9. ContextInv'
  <2>1. /\ created' \in 0..N /\ insert' \in Block /\ cur' = insert' /\ outBB' \in 0..N
        /\ value' \in {"int", "float", "none"} /\ {in_loop, is_entered, req_lval}' \subseteq BOOLEAN
        /\ ~ is_entered' /\ ~ req_lval' /\ (in_loop' => in_loop /\ outBB' = outBB)
    BY <1>1, <1>2, NAssumption DEF ContextInv, context, Block
  <2>2. Top.at \notin Loops
    BY <1>2 DEF Loops
  <2> DEFINE s == <<>>
  <2>3. Len(s) = 0 /\ Steps(s) /\ 1..Len(s) = {}
    BY <1>3, Pairs
  <2> HIDE DEF s
  <2>4. /\ Len(s) = 1 => s[1].at # "compound" \/ Len(calls) # 2
        /\ req_lval' <=> Len(s) = 1 /\ s[1].at = "var"
        /\ Len(s) = 2 => s[2].at \notin {"compound", "var"}
        /\ \A k \in 1..Len(s) : s[k].at \in {"decls", "stmts"} => s[k].locals \/ (Len(calls) = 2 /\ k = 1)
    BY <2>1, <2>3
  <2> QED BY <1>1, <1>3, <1>7, <2>1, <2>2, <2>3, <2>4, ContextStep
<1>10. Owners(<<0>>)'
  <2>1. <<0>> \in Seq(Nat) /\ Len(<<0>>) = 1 /\ 1..Len(<<0>>) = {1} /\ 1..Len(calls') = {}
    BY <1>8
  <2> QED BY <1>7, <1>8, <2>1 DEF Owners
<1> QED
  BY <1>3, <1>7, <1>8, <1>9, <1>10 DEF ShapeInv

\* A compound statement but the body of the function enters a scope.
LEMMA ShapeBeginCompound ==
  ASSUME ShapeInv, BeginCompound, NEW n, n = Len(calls)
  PROVE  /\ ShapeInv' /\ Steps(<<Call("decls", ~ is_entered)>>)
         /\ is_entered => inner' = inner /\ \A own : Owners(own) => Owners(own)'
         /\ ~ is_entered => inner' = Append(inner, Unbound) /\ \A own : Owners(own) => Owners(Append(own, n))'
<1>1. CallInv /\ ContextInv
  BY DEF ShapeInv
<1>2. /\ calls # <<>> /\ Top.at = "compound"
      /\ inner' = (IF is_entered THEN inner ELSE Append(inner, Unbound)) /\ is_entered' = FALSE
      /\ UNCHANGED <<created, insert, cur, outBB, in_loop, req_lval, value>>
  BY DEF BeginCompound, At, cfg
<1> DEFINE c == Call("decls", ~ is_entered)
<1>3. CallInv' /\ Steps(<<c>>)
  BY Frames
<1>4. c.at = "decls" /\ (c.locals <=> ~ is_entered)
  BY CallFields
<1> HIDE DEF c
<1>5. (is_entered <=> n = 2) /\ n > 1 /\ is_entered \in BOOLEAN
  <2>1. Len(calls) \in Nat \ {0} /\ Len(calls) # 1
    BY <1>1, <1>2, TopInPlace
  <2>2. is_entered <=> Len(calls) = 2
    BY <1>1, <1>2 DEF ContextInv
  <2> QED BY <1>1, <2>1, <2>2 DEF ContextInv
<1>6. Unbound \in [Name -> 0..N]
  BY NAssumption DEF Unbound, NoBlock
<1>7. inner \in Seq([Name -> 0..N]) /\ Len(inner) \in Nat \ {0} /\ inner[1] = Unbound
  BY <1>1, EmptySeq DEF ContextInv
<1>8. ~ is_entered => /\ inner' \in Seq([Name -> 0..N]) /\ Len(inner') = Len(inner) + 1
                      /\ inner'[1] = Unbound
  <2> DEFINE F == [Name -> 0..N]
  <2> HIDE DEF F
  <2>1. inner \in Seq(F) /\ Unbound \in F
    BY <1>6, <1>7 DEF F
  <2>2. /\ Append(inner, Unbound) \in Seq(F) /\ Len(Append(inner, Unbound)) = Len(inner) + 1
        /\ \A k \in 1..Len(inner) : Append(inner, Unbound)[k] = inner[k]
    BY <2>1, AppendProperties
  <2>3. 1 \in 1..Len(inner)
    BY <1>7
  <2> QED BY <1>2, <1>7, <2>2, <2>3 DEF F
<1>9. inner' \in Seq([Name -> 0..N]) /\ inner'[1] = Unbound /\ inner' # <<>>
  <2>1. inner' \in Seq([Name -> 0..N]) /\ inner'[1] = Unbound
    BY <1>2, <1>7, <1>8
  <2>2. Len(inner') # 0
    BY <1>2, <1>7, <1>8
  <2> QED BY <2>1, <2>2, Pairs
<1> DEFINE s == <<c>>
<1>10. Len(s) = 1 /\ Steps(s) /\ s[1] = c /\ 1..Len(s) = {1}
  BY <1>3, Pairs
<1> HIDE DEF s
<1>11. ContextInv'
  <2>1. /\ created' \in 0..N /\ insert' \in Block /\ cur' = insert' /\ outBB' \in 0..N
        /\ value' \in {"int", "float", "none"} /\ {in_loop, is_entered, req_lval}' \subseteq BOOLEAN
        /\ ~ is_entered' /\ ~ req_lval' /\ (in_loop' => in_loop /\ outBB' = outBB)
    <3>1. insert \in Block
      BY <1>1, <1>2, NAssumption DEF ContextInv, Block
    <3>2. ~ is_entered' /\ ~ req_lval /\ {in_loop, is_entered, req_lval} \subseteq BOOLEAN
      BY <1>1, <1>2 DEF ContextInv
    <3>3. {in_loop, is_entered, req_lval}' \subseteq BOOLEAN /\ ~ req_lval' /\ (in_loop' => in_loop)
      BY <1>2, <3>2
    <3> QED BY <1>1, <1>2, <3>1, <3>2, <3>3 DEF ContextInv
  <2>2. Top.at \notin Loops
    BY <1>2 DEF Loops
  <2>3. /\ Len(s) = 1 => s[1].at # "compound" \/ Len(calls) # 2
        /\ req_lval' <=> Len(s) = 1 /\ s[1].at = "var"
        /\ Len(s) = 2 => s[2].at \notin {"compound", "var"}
        /\ \A k \in 1..Len(s) : s[k].at \in {"decls", "stmts"} => s[k].locals \/ (Len(calls) = 2 /\ k = 1)
    BY <1>4, <1>5, <1>10, <2>1
  <2> QED BY <1>1, <1>3, <1>9, <1>10, <2>1, <2>2, <2>3, ContextStep
<1>12. ~ Enters(Top) /\ (Enters(c) <=> ~ is_entered)
  BY <1>2, <1>4 DEF Enters
<1>13. ASSUME is_entered, NEW own, Owners(own) PROVE Owners(own)'
  <2>1. Len(calls') # 0
    <3>1. Len(calls') = Len(calls) - 1 + Len(s) /\ Len(calls) \in Nat \ {0}
      BY <1>1, <1>3, <1>10, After
    <3> QED BY <1>10, <3>1
  <2>2. calls' # <<>>
    BY <2>1, Pairs
  <2>3. Len(inner') = Len(inner)
    BY <1>2, <1>13
  <2> QED BY <1>1, <1>3, <1>10, <1>12, <1>13, <2>2, <2>3, OwnersKept
<1>14. ASSUME ~ is_entered, NEW own, Owners(own) PROVE Owners(Append(own, n))'
  <2>1. n > 2 /\ n = Len(calls)
    BY <1>5, <1>14
  <2> QED BY <1>1, <1>3, <1>7, <1>8, <1>12, <1>14, <2>1, OwnersOpened
<1>15. (\E own : Owners(own))'
  <2>1. PICK own : Owners(own)
    BY DEF ShapeInv
  <2>2. CASE is_entered
    BY <1>13, <2>1, <2>2
  <2>3. CASE ~ is_entered
    BY <1>14, <2>1, <2>3
  <2> QED BY <2>2, <2>3
<1> QED
  BY <1>2, <1>3, <1>11, <1>13, <1>14, <1>15 DEF ShapeInv, c

\* A compound statement that has entered a scope leaves it.
LEMMA ShapeEndCompound ==
  ASSUME ShapeInv, EndCompound
  PROVE  /\ ShapeInv' /\ Steps(<<>>) /\ calls' # <<>>
         /\ ~ Top.locals => inner' = inner /\ \A own : Owners(own) => Owners(own)'
         /\ Top.locals => inner' = Front(inner) /\ \A own : Owners(own) => Owners(Front(own))'
<1>1. CallInv /\ ContextInv
  BY DEF ShapeInv
<1>2. /\ calls # <<>> /\ Top.at = "stmts" /\ inner' = (IF Top.locals THEN Front(inner) ELSE inner)
      /\ UNCHANGED <<created, insert, context>> /\ value' = "none"
  BY DEF EndCompound, At, cfg
<1>3. CallInv' /\ Steps(<<>>)
  BY Frames
<1>4. Len(calls) \in Nat \ {0} /\ Len(calls) > 1
  <2>1. Len(calls) \in Nat \ {0} /\ Len(calls) # 1
    BY <1>1, <1>2, TopInPlace
  <2> QED BY <2>1
<1>5. Top.locals \in BOOLEAN /\ (Enters(Top) <=> Top.locals)
  BY <1>1, <1>2, TopInPlace DEF Local, Enters
<1> DEFINE s == <<>>
<1>6. Len(s) = 0 /\ Steps(s) /\ 1..Len(s) = {}
  BY <1>3, Pairs
<1> HIDE DEF s
<1>7. calls' # <<>>
  <2>1. Len(calls') = Len(calls) - 1 + Len(s) /\ (calls' = <<>> <=> Len(calls') = 0)
    BY <1>1, <1>3, <1>6, After
  <2> QED BY <1>4, <1>6, <2>1
<1>8. /\ Front(inner) \in Seq([Name -> 0..N]) /\ Len(inner) \in Nat \ {0} /\ Len(Front(inner)) = Len(inner) - 1
      /\ \A k \in 1..Len(inner) - 1 : Front(inner)[k] = inner[k]
  BY <1>1, FrontProperties DEF ContextInv
<1>9. Len(inner) >= 2
  BY <1>1, <1>2 DEF ShapeInv, Owners
<1>10. inner' \in Seq([Name -> 0..N]) /\ inner'[1] = Unbound /\ inner' # <<>>
  <2>1. 1 \in 1..Len(inner) - 1
    BY <1>8, <1>9
  <2>2. inner' \in Seq([Name -> 0..N]) /\ inner'[1] = Unbound
    BY <1>1, <1>2, <1>8, <2>1 DEF ContextInv
  <2>3. Len(inner') # 0
    BY <1>2, <1>8, <1>9
  <2> QED BY <2>2, <2>3, Pairs
<1>11. ContextInv'
  <2>1. /\ created' \in 0..N /\ insert' \in Block /\ cur' = insert' /\ outBB' \in 0..N
        /\ value' \in {"int", "float", "none"} /\ {in_loop, is_entered, req_lval}' \subseteq BOOLEAN
        /\ ~ is_entered' /\ ~ req_lval' /\ (in_loop' => in_loop /\ outBB' = outBB)
    BY <1>1, <1>2, NAssumption DEF ContextInv, context, Block
  <2>2. Top.at \notin Loops
    BY <1>2 DEF Loops
  <2>3. /\ Len(s) = 1 => s[1].at # "compound" \/ Len(calls) # 2
        /\ req_lval' <=> Len(s) = 1 /\ s[1].at = "var"
        /\ Len(s) = 2 => s[2].at \notin {"compound", "var"}
        /\ \A k \in 1..Len(s) : s[k].at \in {"decls", "stmts"} => s[k].locals \/ (Len(calls) = 2 /\ k = 1)
    BY <1>6, <2>1
  <2> QED BY <1>1, <1>3, <1>6, <1>10, <2>1, <2>2, <2>3, ContextStep
<1>12. ASSUME ~ Top.locals, NEW own, Owners(own) PROVE Owners(own)'
  <2>1. Len(inner') = Len(inner) /\ ~ Enters(Top)
    BY <1>2, <1>5, <1>12
  <2> QED BY <1>1, <1>3, <1>6, <1>7, <1>12, <2>1, OwnersKept
<1>13. ASSUME Top.locals, NEW own, Owners(own) PROVE Owners(Front(own))'
  <2>1. Len(inner') = Len(inner) - 1 /\ Enters(Top)
    BY <1>2, <1>5, <1>8, <1>13
  <2> QED BY <1>1, <1>3, <1>4, <1>13, <2>1, OwnersClosed
<1>14. (\E own : Owners(own))'
  <2>1. PICK own : Owners(own)
    BY DEF ShapeInv
  <2>2. CASE Top.locals
    BY <1>13, <2>1, <2>2
  <2>3. CASE ~ Top.locals
    BY <1>12, <2>1, <2>3
  <2> QED BY <2>2, <2>3
<1> QED
  BY <1>2, <1>3, <1>7, <1>11, <1>12, <1>13, <1>14 DEF ShapeInv

LEMMA ShapeStep == ShapeInv /\ [Next]_vars => ShapeInv'
<1> SUFFICES ASSUME ShapeInv, [Next]_vars PROVE ShapeInv'
  OBVIOUS
<1>1. CASE BeginFunction \/ EndFunction \/ BeginCompound \/ EndCompound
  BY <1>1, ShapeBeginFunction, ShapeEndFunction, ShapeBeginCompound, ShapeEndCompound
<1>2. CASE \E v \in Locals : Declare(v)
  BY <1>2, ShapeDeclare DEF ScopesKept
<1>3. CASE BeginSelection \/ EndArm \/ BeginIteration \/ BeginBody \/ EndBody \/ EndSubscript
  BY <1>3, ShapeBranches DEF ScopesKept
<1>4. CASE \/ BeginStatements \/ NextStatement \/ Statement \/ EndReturn \/ EndBinary \/ EndCall
           \/ BeginAssign \/ AssignTarget \/ BeginBinary \/ RightOperand \/ BeginCall
           \/ \E t \in {"int", "float"} : Num(t)
           \/ \E v \in Scalar : ScalarVar(v)
           \/ \E v \in Array : BeginSubscript(v)
  BY <1>4, ShapeQuiet DEF ScopesKept
<1>5. CASE UNCHANGED vars
  <2>1. UNCHANGED <<created, insert, cur, outBB, in_loop, is_entered, req_lval, inner, calls, value>>
    BY <1>5 DEF vars, cfg, context
  <2>2. CallInv'
    BY <2>1 DEF ShapeInv, CallInv
  <2>3. ContextInv'
    BY <2>1 DEF ShapeInv, ContextInv, Top
  <2>4. (\E own : Owners(own))'
    BY <2>1 DEF ShapeInv, Owners
  <2> QED BY <2>2, <2>3, <2>4 DEF ShapeInv
<1> QED
  BY <1>1, <1>2, <1>3, <1>4, <1>5 DEF Next

\* Between two functions the context is as the next one needs it (the scopes and the
\* flags in the visitors of cminusf_builder.cpp).
THEOREM ContextAlwaysRestored == Spec => []ContextRestored
<1>1. ShapeInv => ContextRestored
  <2> SUFFICES ASSUME ShapeInv, calls = <<>> PROVE inner = <<Unbound>> /\ ~ in_loop /\ ~ is_entered /\ ~ req_lval
    BY DEF ContextRestored
  <2>1. Len(calls) = 0
    BY Pairs
  <2>2. ~ in_loop /\ ~ is_entered /\ ~ req_lval
    BY <2>1 DEF ShapeInv, ContextInv
  <2>3. Len(inner) = 1 /\ inner \in Seq([Name -> 0..N]) /\ inner[1] = Unbound
    BY DEF ShapeInv, ContextInv, Owners
  <2>4. inner = <<Unbound>>
    BY <2>3
  <2> QED BY <2>2, <2>4
<1> QED
  BY <1>1, ShapeInit, ShapeStep, PTL DEF Spec

----------------------------------------------------------------------------
(* How often a block is in a list. *)

LEMMA TimesFinite ==
  ASSUME NEW S, NEW s \in Seq(S), NEW x
  PROVE  /\ IsFiniteSet({n \in 1..Len(s) : s[n] = x}) /\ Times(s, x) = Cardinality({n \in 1..Len(s) : s[n] = x})
         /\ Times(s, x) \in Nat
<1>1. Len(s) \in Nat /\ DOMAIN s = 1..Len(s)
  BY LenProperties
<1>2. IsFiniteSet(1..Len(s))
  BY <1>1, FS_Interval
<1> DEFINE A == {n \in 1..Len(s) : s[n] = x}
<1>3. IsFiniteSet(A)
  BY <1>2, FS_Subset
<1>4. Times(s, x) = Cardinality(A)
  BY <1>1 DEF Times
<1> HIDE DEF A
<1>5. Cardinality(A) \in Nat
  BY <1>3, FS_CardinalityType
<1> QED
  BY <1>3, <1>4, <1>5 DEF A

\* A list without repetitions has what it has once.
LEMMA TimesDistinct ==
  ASSUME NEW S, NEW s \in Seq(S), NEW x, \A m, n \in 1..Len(s) : s[m] = s[n] => m = n
  PROVE  Times(s, x) = IF x \in ToSet(s) THEN 1 ELSE 0
<1>1. Len(s) \in Nat /\ DOMAIN s = 1..Len(s)
  BY LenProperties
<1> DEFINE A == {n \in 1..Len(s) : s[n] = x}
<1>2. Times(s, x) = Cardinality(A)
  <2>1. DOMAIN s = 1..Len(s)
    BY <1>1
  <2> QED BY <2>1 DEF Times
<1>3. CASE x \in ToSet(s)
  <2>1. PICK n \in 1..Len(s) : s[n] = x
    BY <1>1, <1>3 DEF ToSet
  <2>2. A = {n}
    BY <2>1
  <2> QED BY <1>2, <1>3, <2>2, FS_Singleton
<1>4. CASE x \notin ToSet(s)
  <2>1. A = {}
    BY <1>1, <1>4 DEF ToSet
  <2> QED BY <1>2, <1>4, <2>1, FS_EmptySet
<1> QED
  BY <1>3, <1>4

LEMMA TimesConcat ==
  ASSUME NEW S, NEW s \in Seq(S), NEW t \in Seq(S), NEW x
  PROVE  Times(s \o t, x) = Times(s, x) + Times(t, x)
<1> DEFINE k == Len(s)
           l == Len(t)
           A == {n \in 1..k : s[n] = x}
           B == {n \in 1..l : t[n] = x}
           C == {n \in k + 1..k + l : t[n - k] = x}
           D == {n \in 1..k + l : (s \o t)[n] = x}
<1>1. k \in Nat /\ l \in Nat
  BY LenProperties
<1>2. /\ s \o t \in Seq(S) /\ Len(s \o t) = k + l
      /\ \A i \in 1..k + l : (s \o t)[i] = IF i <= k THEN s[i] ELSE t[i - k]
  BY ConcatProperties
<1>3. /\ Times(s, x) = Cardinality(A) /\ IsFiniteSet(A) /\ Cardinality(A) \in Nat
      /\ Times(t, x) = Cardinality(B) /\ IsFiniteSet(B) /\ Cardinality(B) \in Nat
      /\ Times(s \o t, x) = Cardinality(D)
  <2>1. Times(s, x) = Cardinality(A) /\ IsFiniteSet(A) /\ Times(s, x) \in Nat
    BY TimesFinite
  <2>2. Times(t, x) = Cardinality(B) /\ IsFiniteSet(B) /\ Times(t, x) \in Nat
    BY TimesFinite
  <2>3. Times(s \o t, x) = Cardinality(D)
    <3>1. Times(s \o t, x) = Cardinality({n \in 1..Len(s \o t) : (s \o t)[n] = x})
      BY <1>2, TimesFinite
    <3> QED BY <1>2, <3>1
  <2> HIDE DEF A, B, D
  <2> QED BY <2>1, <2>2, <2>3
<1> DEFINE f == [n \in B |-> n + k]
<1>4. f \in Bijection(B, C)
  <2>1. \A n \in B : f[n] \in C
    <3>1. TAKE n \in B
    <3>2. n + k \in k + 1..k + l /\ (n + k) - k = n
      BY <1>1
    <3> QED BY <3>2
  <2>2. f \in [B -> C]
    BY <2>1
  <2>3. \A m, n \in B : f[m] = f[n] => m = n
    BY <1>1
  <2>4. \A c \in C : \E n \in B : f[n] = c
    <3>1. TAKE c \in C
    <3>2. c - k \in B /\ (c - k) + k = c
      BY <1>1
    <3> QED BY <3>2
  <2> HIDE DEF f, B, C
  <2> QED BY <2>2, <2>3, <2>4 DEF Bijection, Injection, Surjection, IsInjective
<1>5. IsFiniteSet(C) /\ Cardinality(C) = Cardinality(B)
  <2> HIDE DEF f, B, C
  <2>1. ExistsBijection(B, C)
    BY <1>4 DEF ExistsBijection
  <2> QED BY <1>3, <2>1, FS_Bijection
<1>6. D = A \cup C /\ A \cap C = {}
  <2>1. ASSUME NEW n \in D PROVE n \in A \cup C
    BY <1>1, <1>2
  <2>2. ASSUME NEW n \in A PROVE n \in D
    <3>1. n \in 1..k + l /\ n <= k
      BY <1>1
    <3> QED BY <3>1, <1>2
  <2>3. ASSUME NEW n \in C PROVE n \in D
    <3>1. n \in 1..k + l /\ ~ (n <= k)
      BY <1>1
    <3> QED BY <3>1, <1>2
  <2>4. A \cap C = {}
    BY <1>1
  <2> HIDE DEF A, C, D
  <2> QED BY <2>1, <2>2, <2>3, <2>4
<1> HIDE DEF A, B, C, D, k, l
<1>7. Cardinality(A \cup C) = Cardinality(A) + Cardinality(C) - Cardinality(A \cap C)
  BY <1>3, <1>5, FS_Union
<1>8. Cardinality(A \cap C) = 0
  BY <1>6, FS_EmptySet
<1>9. Cardinality(D) = Cardinality(A) + Cardinality(B)
  BY <1>3, <1>5, <1>6, <1>7, <1>8
<1> QED
  BY <1>3, <1>9

LEMMA TimesEmpty == \A x : Times(<<>>, x) = 0
<1> TAKE x
<1>1. <<>> \in Seq({}) /\ ToSet(<<>>) = {}
  BY Pairs
<1>2. \A m, n \in 1..Len(<<>>) : <<>>[m] = <<>>[n] => m = n
  <2>1. Len(<<>>) = 0
    BY Pairs
  <2> QED BY <2>1
<1> QED
  BY <1>1, <1>2, TimesDistinct

----------------------------------------------------------------------------
(* What the visitors in progress know of the blocks. *)

\* The blocks that a visitor will branch to or go on in, and those that it will
\* end or go on in.
Targets(c) ==
  IF c.at = "endArm" THEN {c.locals.out, c.locals.else} \ {NoBlock}
  ELSE IF c.at = "while" THEN {c.locals.condition}
  ELSE IF c.at = "endBody" THEN {c.locals.condition, c.locals.out}
  ELSE {}
Pending(c) ==
  IF c.at = "endArm" THEN {c.locals.out, c.locals.else} \ {NoBlock}
  ELSE IF c.at = "while" THEN {c.locals.last}
  ELSE IF c.at = "endBody" THEN {c.locals.last, c.locals.out}
  ELSE {}

\* The visitors that add no instruction when they go on: control may be in a block
\* that has its terminator.
Done == {"endFunction", "stmts", "endArm", "endBody"}

\* The lists of the blocks mirror each other and match the terminators.
BlockInv ==
  /\ last \in [Block -> {"open", "br", "ret"}]
  /\ succ \in [Block -> Seq(Block)] /\ pre \in [Block -> Seq(Block)]
  /\ \A b \in Block : last[b] = "br" <=> succ[b] # <<>>
  /\ \A b \in Block : b > created => last[b] = "open"
  /\ \A b \in Block : Len(succ[b]) <= 2 /\ Len(pre[b]) <= 2
  /\ \A b \in Block : ToSet(succ[b]) \subseteq 2..created
  /\ pre[Entry] = <<>>
  /\ \A b \in Block : b > created => pre[b] = <<>>
  /\ \A b, c \in Block : Times(succ[b], c) = Times(pre[c], b)

\* A block without a terminator is the insert block, or a visitor waits to end it.
OpenInv ==
  /\ calls # <<>> => insert \in 1..created
  /\ calls # <<>> /\ Top.at \notin Done => last[insert] = "open"
  /\ \A k \in 1..Len(calls) : \A b \in Pending(calls[k]) : b \in 1..created /\ last[b] = "open" /\ b # insert
  /\ \A j, k \in 1..Len(calls) : j < k => Pending(calls[j]) \cap Pending(calls[k]) = {}
  /\ \A b \in 1..created : last[b] = "open" => \/ calls # <<>> /\ b = insert
                                               \/ \E k \in 1..Len(calls) : b \in Pending(calls[k])

\* What the predecessor lists of a visitor's targets have so far.
Lists(g, c) ==
  /\ c.at = "endArm" => /\ c.locals.out # c.locals.else
                        /\ Len(g[c.locals.out]) <= (IF c.locals.else = NoBlock THEN 1 ELSE 0)
  /\ c.at \in Loops => g[c.locals.condition] = <<>>
  /\ c.at = "endBody" => c.locals.condition # c.locals.out /\ c.locals.last # c.locals.out

\* The targets of a visitor are newer than those of the visitors below.
TargetInv ==
  /\ \A k \in 1..Len(calls) : Targets(calls[k]) \subseteq 2..created /\ Lists(pre, calls[k])
  /\ \A j, k \in 1..Len(calls) : j < k => \A x \in Targets(calls[j]), y \in Targets(calls[k]) : x < y

GraphInv == BlockInv /\ OpenInv /\ TargetInv

\* An action works on the insert block, the blocks the running visitor waits for
\* and new ones.
LEMMA OpenStep ==
  ASSUME CallInv, CallInv', OpenInv, NEW s, Steps(s), NEW t,
         created \in Nat, created' \in Nat, created <= created',
         t = {insert} \cup Pending(Top) \cup (created + 1)..created',
         \A b \in 1..created : b \notin t => last'[b] = last[b],
         insert' \in t, calls' # <<>> => insert' \in 1..created',
         calls' # <<>> /\ Top'.at \notin Done => last'[insert'] = "open",
         Len(s) >= 1 => \A b \in Pending(s[1]) : b \in t /\ b \in 1..created' /\ last'[b] = "open" /\ b # insert',
         Len(s) = 2 => Pending(s[2]) = {},
         \A b \in t : b \in 1..created' /\ last'[b] = "open" =>
           \/ calls' # <<>> /\ b = insert'
           \/ Len(s) >= 1 /\ b \in Pending(s[1])
  PROVE  OpenInv'
<1> DEFINE n == Len(calls)
           P(k) == Pending(calls'[k])
<1>1. /\ n \in Nat \ {0} /\ Len(calls') \in Nat /\ Len(calls') = n - 1 + Len(s) /\ Len(s) \in 0..2
      /\ \A k \in 1..Len(calls') :
           \/ k < n /\ calls'[k] = calls[k]
           \/ k = n /\ Len(s) >= 1 /\ calls'[k] = s[1]
           \/ k = n + 1 /\ Len(s) = 2 /\ calls'[k] = s[2]
      /\ Top = calls[n] /\ calls # <<>>
      /\ \A k \in 1..n - 1 : k \in 1..Len(calls') /\ calls'[k] = calls[k]
      /\ Len(s) >= 1 => n \in 1..Len(calls') /\ calls'[n] = s[1]
  BY After
<1>2. ASSUME NEW k \in 1..Len(calls'), k < n, NEW b \in P(k)
      PROVE  b \in Pending(calls[k]) /\ b \in 1..created /\ last'[b] = "open" /\ b \notin t
  <2>1. b \in Pending(calls[k]) /\ k \in 1..n /\ n \in 1..n
    BY <1>1, <1>2
  <2>2. b \in 1..created /\ last[b] = "open" /\ b # insert
    BY <2>1 DEF OpenInv
  <2>3. Pending(calls[k]) \cap Pending(calls[n]) = {}
    BY <1>2, <2>1 DEF OpenInv
  <2>4. b \notin t
    BY <1>1, <2>1, <2>2, <2>3
  <2> QED BY <2>1, <2>2, <2>4
<1>3. ASSUME NEW k \in 1..Len(calls'), k >= n, NEW b \in P(k)
      PROVE  k = n /\ Len(s) >= 1 /\ b \in Pending(s[1]) /\ b \in t
  BY <1>1, <1>3
<1>4. ASSUME NEW k \in 1..Len(calls'), NEW b \in P(k)
      PROVE  b \in 1..created' /\ last'[b] = "open" /\ b # insert'
  <2>1. CASE k < n
    BY <1>2, <1>4, <2>1
  <2>2. CASE k >= n
    BY <1>3, <1>4, <2>2
  <2> QED BY <1>1, <2>1, <2>2
<1>5. ASSUME NEW j \in 1..Len(calls'), NEW k \in 1..Len(calls'), j < k PROVE P(j) \cap P(k) = {}
  <2>1. CASE k < n
    <3>1. calls'[j] = calls[j] /\ calls'[k] = calls[k] /\ j \in 1..n /\ k \in 1..n
      BY <1>1, <1>5, <2>1
    <3> QED BY <1>5, <3>1 DEF OpenInv
  <2>2. CASE k >= n /\ j < n
    BY <1>2, <1>3, <2>2
  <2>3. CASE j >= n
    <3>1. k # n /\ k >= n
      BY <1>1, <1>5, <2>3
    <3>2. P(k) = {}
      BY <1>3, <3>1
    <3> HIDE DEF P
    <3> QED BY <3>2
  <2> QED BY <1>1, <2>1, <2>2, <2>3
<1>6. ASSUME NEW b \in 1..created', last'[b] = "open"
      PROVE  (calls' # <<>> /\ b = insert') \/ \E k \in 1..Len(calls') : b \in P(k)
  <2>1. CASE b \in t
    BY <1>1, <1>6, <2>1
  <2>2. CASE b \notin t
    <3>1. b \in 1..created /\ last[b] = "open" /\ b # insert /\ b \notin Pending(Top)
      BY <1>6, <2>2
    <3>2. PICK k \in 1..n : b \in Pending(calls[k])
      BY <3>1 DEF OpenInv
    <3>3. k # n
      BY <1>1, <3>1, <3>2
    <3>4. k \in 1..n - 1
      BY <1>1, <3>3
    <3> QED BY <1>1, <3>2, <3>4
  <2> QED BY <2>1, <2>2
<1> QED
  BY <1>4, <1>5, <1>6 DEF OpenInv

\* The lists of a visitor's targets are what counts.
LEMMA SameLists ==
  ASSUME NEW c, NEW g, NEW h, Local(c), Lists(g, c), \A b \in Targets(c) : g[b] = h[b]
  PROVE  Lists(h, c)
<1>1. CASE c.at = "endArm"
  <2>1. c.locals.out \in Targets(c)
    BY <1>1, NAssumption DEF Local, Targets, Block, NoBlock
  <2> QED BY <1>1, <2>1 DEF Lists, Loops
<1>2. CASE c.at \in Loops
  <2>1. c.locals.condition \in Targets(c)
    BY <1>2 DEF Targets, Loops
  <2> QED BY <1>2, <2>1 DEF Lists, Loops
<1>3. CASE c.at # "endArm" /\ c.at \notin Loops
  BY <1>3 DEF Lists, Loops
<1> QED
  BY <1>1, <1>2, <1>3

\* New targets are new blocks, and only lists of the running visitor's targets grow.
LEMMA TargetStep ==
  ASSUME CallInv, CallInv', TargetInv, NEW s, Steps(s),
         created \in Nat \ {0}, created' \in Nat, created <= created',
         Len(s) >= 1 => /\ \A b \in Targets(s[1]) : b \in Targets(Top) \/ b \in (created + 1)..created'
                        /\ Lists(pre', s[1]),
         Len(s) = 2 => Targets(s[2]) = {} /\ Lists(pre', s[2]),
         \A b \in 1..created : b \notin Targets(Top) => pre'[b] = pre[b]
  PROVE  TargetInv'
<1> DEFINE n == Len(calls)
           T(k) == Targets(calls'[k])
<1>1. /\ n \in Nat \ {0} /\ Len(calls') \in Nat /\ Len(calls') = n - 1 + Len(s) /\ Len(s) \in 0..2
      /\ \A k \in 1..Len(calls') :
           \/ k < n /\ calls'[k] = calls[k]
           \/ k = n /\ Len(s) >= 1 /\ calls'[k] = s[1]
           \/ k = n + 1 /\ Len(s) = 2 /\ calls'[k] = s[2]
      /\ Top = calls[n] /\ calls # <<>>
  BY After
<1>2. n \in 1..n /\ Targets(Top) \subseteq 2..created
  BY <1>1 DEF TargetInv
<1>3. ASSUME NEW k \in 1..Len(calls'), k < n
      PROVE  T(k) \subseteq 2..created /\ \A x \in T(k) : (\A y \in Targets(Top) : x < y) /\ pre'[x] = pre[x]
  <2>1. calls'[k] = calls[k] /\ k \in 1..n
    BY <1>1, <1>3
  <2>2. T(k) \subseteq 2..created
    BY <2>1 DEF TargetInv
  <2>3. ASSUME NEW x \in T(k) PROVE \A y \in Targets(Top) : x < y
    BY <1>1, <1>2, <1>3, <2>1 DEF TargetInv
  <2>4. ASSUME NEW x \in T(k) PROVE pre'[x] = pre[x]
    <3>1. x \in 1..created
      BY <2>2
    <3>2. x \notin Targets(Top)
      BY <2>3, <3>1
    <3> QED BY <3>1, <3>2
  <2> QED BY <2>2, <2>3, <2>4
<1>4. ASSUME NEW k \in 1..Len(calls'), k >= n, NEW x \in T(k)
      PROVE  k = n /\ Len(s) >= 1 /\ x \in Targets(s[1]) /\ (x \in Targets(Top) \/ x \in (created + 1)..created')
  <2>1. CASE k = n
    <3>1. Len(s) >= 1 /\ T(k) = Targets(s[1])
      BY <1>1, <2>1
    <3> QED BY <1>4, <2>1, <3>1
  <2>2. CASE k = n + 1
    <3>1. Len(s) = 2 /\ T(k) = Targets(s[2])
      BY <1>1, <2>2
    <3> QED BY <1>4, <3>1
  <2> QED BY <1>1, <1>4, <2>1, <2>2
<1>5. ASSUME NEW k \in 1..Len(calls') PROVE T(k) \subseteq 2..created'
  <2>1. CASE k < n
    BY <1>3, <2>1
  <2>2. CASE k >= n
    <3> SUFFICES ASSUME NEW x \in T(k) PROVE x \in 2..created'
      OBVIOUS
    <3>1. x \in Targets(Top) \/ x \in (created + 1)..created'
      BY <1>4, <2>2
    <3> QED BY <1>2, <3>1
  <2> QED BY <1>1, <2>1, <2>2
<1>6. ASSUME NEW k \in 1..Len(calls') PROVE Lists(pre', calls'[k])
  <2>1. CASE k < n
    <3>1. calls'[k] = calls[k] /\ k \in 1..n
      BY <1>1, <2>1
    <3>2. Lists(pre, calls'[k]) /\ Local(calls'[k])
      BY <3>1 DEF TargetInv, CallInv
    <3> QED BY <1>3, <2>1, <3>2, SameLists
  <2>2. CASE k = n
    BY <1>1, <2>2
  <2>3. CASE k = n + 1
    BY <1>1, <2>3
  <2> QED BY <1>1, <2>1, <2>2, <2>3
<1>7. ASSUME NEW j \in 1..Len(calls'), NEW k \in 1..Len(calls'), j < k, NEW x \in T(j), NEW y \in T(k) PROVE x < y
  <2>1. CASE k < n
    <3>1. calls'[j] = calls[j] /\ calls'[k] = calls[k] /\ j \in 1..n /\ k \in 1..n
      BY <1>1, <1>7, <2>1
    <3> QED BY <1>7, <3>1 DEF TargetInv
  <2>2. CASE k >= n
    <3>1. k = n /\ (y \in Targets(Top) \/ y \in (created + 1)..created')
      BY <1>4, <2>2
    <3>2. j < n
      BY <1>1, <1>7, <3>1
    <3>3. x \in 2..created /\ \A z \in Targets(Top) : x < z
      BY <1>3, <3>2
    <3> QED BY <3>1, <3>3
  <2> QED BY <1>1, <2>1, <2>2
<1> QED
  BY <1>5, <1>6, <1>7 DEF TargetInv

\* A branch from open blocks to targets that have room in their lists.
LEMMA Branching ==
  ASSUME BlockInv, created \in 0..N, created' \in 0..N, created <= created',
         NEW from \in Seq(Block), NEW to \in Seq(Block), AddEdges(from, to),
         \A m, n \in 1..Len(from) : from[m] = from[n] => m = n,
         \A m, n \in 1..Len(to) : to[m] = to[n] => m = n,
         to # <<>>, Len(to) <= 2,
         \A b \in ToSet(from) : b <= created /\ last[b] = "open",
         \A c \in ToSet(to) : c \in 2..created' /\ Len(pre[c]) + Len(from) <= 2,
         last' \in [Block -> {"open", "br", "ret"}],
         \A b \in ToSet(from) : last'[b] = "br",
         \A b \in Block : b \notin ToSet(from) =>
           \/ last'[b] = last[b]
           \/ last[b] = "open" /\ last'[b] = "ret" /\ b <= created'
  PROVE  /\ BlockInv'
         /\ \A b \in Block : b \notin ToSet(from) => succ'[b] = succ[b]
         /\ \A b \in Block : b \in ToSet(from) => ToSet(succ'[b]) = ToSet(to)
         /\ \A b \in Block : b \notin ToSet(to) => pre'[b] = pre[b]
<1> DEFINE F == ToSet(from)
           T == ToSet(to)
<1>1. /\ succ \in [Block -> Seq(Block)] /\ pre \in [Block -> Seq(Block)] /\ N \in Nat
      /\ Len(from) \in Nat /\ Len(to) \in Nat /\ DOMAIN to = 1..Len(to) /\ DOMAIN from = 1..Len(from)
      /\ created \in Nat /\ created' \in Nat
  <2>1. N \in Nat /\ created \in Nat /\ created' \in Nat
    BY NAssumption
  <2>2. Len(from) \in Nat /\ Len(to) \in Nat /\ DOMAIN to = 1..Len(to) /\ DOMAIN from = 1..Len(from)
    BY LenProperties
  <2>3. succ \in [Block -> Seq(Block)] /\ pre \in [Block -> Seq(Block)]
    BY DEF BlockInv
  <2> QED BY <2>1, <2>2, <2>3
<1>2. F \subseteq Block /\ T \subseteq Block
  <2>1. (\A n \in 1..Len(from) : from[n] \in Block) /\ (\A n \in 1..Len(to) : to[n] \in Block)
    BY ElementOfSeq
  <2> QED BY <1>1, <2>1 DEF ToSet
<1>3. /\ succ' = [b \in Block |-> IF b \in F THEN succ[b] \o to ELSE succ[b]]
      /\ pre' = [b \in Block |-> IF b \in T THEN pre[b] \o from ELSE pre[b]]
  BY DEF AddEdges
<1>4. \A b \in F : b <= created /\ last[b] = "open" /\ last'[b] = "br"
  OBVIOUS
<1>5. \A c \in T : c \in 2..created' /\ Len(pre[c]) + Len(from) <= 2
  OBVIOUS
<1>6. \A b \in Block : b \notin F => \/ last'[b] = last[b]
                                     \/ last[b] = "open" /\ last'[b] = "ret" /\ b <= created'
  OBVIOUS
<1>7. \A x : Times(to, x) = (IF x \in T THEN 1 ELSE 0) /\ Times(from, x) = (IF x \in F THEN 1 ELSE 0)
  BY TimesDistinct
<1> HIDE DEF F, T
<1>8. ASSUME NEW b \in F PROVE succ[b] = <<>> /\ succ'[b] = to
  <2>1. b \in Block /\ last[b] # "br"
    BY <1>2, <1>4, <1>8
  <2>2. succ[b] = <<>>
    BY <2>1 DEF BlockInv
  <2>3. <<>> \o to = to
    BY ConcatEmptySeq
  <2> QED BY <1>3, <1>8, <2>1, <2>2, <2>3
<1>9. ASSUME NEW b \in Block, b \notin F PROVE succ'[b] = succ[b]
  BY <1>3, <1>9
<1>10. ASSUME NEW b \in Block, b \notin T PROVE pre'[b] = pre[b]
  BY <1>3, <1>10
<1>11. ASSUME NEW b \in T
       PROVE  /\ pre'[b] = pre[b] \o from /\ pre[b] \in Seq(Block) /\ pre'[b] \in Seq(Block)
              /\ Len(pre'[b]) = Len(pre[b]) + Len(from)
  <2>1. b \in Block /\ pre'[b] = pre[b] \o from
    BY <1>2, <1>3, <1>11
  <2>2. pre[b] \in Seq(Block)
    BY <1>1, <2>1
  <2>3. pre[b] \o from \in Seq(Block) /\ Len(pre[b] \o from) = Len(pre[b]) + Len(from)
    BY <2>2, ConcatProperties
  <2> QED BY <2>1, <2>2, <2>3
<1>12. succ' \in [Block -> Seq(Block)]
  <2>1. \A b \in Block : succ'[b] \in Seq(Block)
    BY <1>1, <1>8, <1>9
  <2>2. \A b \in Block : (IF b \in F THEN succ[b] \o to ELSE succ[b]) \in Seq(Block)
    BY <1>3, <2>1
  <2> QED BY <1>3, <2>2
<1>13. pre' \in [Block -> Seq(Block)]
  <2>1. \A b \in Block : pre'[b] \in Seq(Block)
    BY <1>1, <1>10, <1>11
  <2>2. \A b \in Block : (IF b \in T THEN pre[b] \o from ELSE pre[b]) \in Seq(Block)
    BY <1>3, <2>1
  <2> QED BY <1>3, <2>2
<1>14. ASSUME NEW b \in Block PROVE last'[b] = "br" <=> succ'[b] # <<>>
  <2>1. CASE b \in F
    BY <1>4, <1>8, <2>1
  <2>2. CASE b \notin F
    <3>1. last'[b] = "br" <=> last[b] = "br"
      BY <1>6, <2>2
    <3> QED BY <1>9, <2>2, <3>1 DEF BlockInv
  <2> QED BY <2>1, <2>2
<1>15. ASSUME NEW b \in Block, b > created' PROVE last'[b] = "open" /\ pre'[b] = <<>>
  <2>1. b > created /\ b \notin F /\ b \notin T /\ ~ (b <= created')
    BY <1>1, <1>4, <1>5, <1>15 DEF Block
  <2>2. last[b] = "open" /\ pre[b] = <<>>
    BY <2>1 DEF BlockInv
  <2> QED BY <1>6, <1>10, <2>1, <2>2
<1>16. ASSUME NEW b \in Block PROVE Len(succ'[b]) <= 2
  <2>1. CASE b \in F
    BY <1>8, <2>1
  <2>2. CASE b \notin F
    BY <1>9, <2>2 DEF BlockInv
  <2> QED BY <2>1, <2>2
<1>17. ASSUME NEW b \in Block PROVE Len(pre'[b]) <= 2
  <2>1. CASE b \in T
    BY <1>5, <1>11, <2>1
  <2>2. CASE b \notin T
    BY <1>10, <2>2 DEF BlockInv
  <2> QED BY <2>1, <2>2
<1>18. ASSUME NEW b \in Block PROVE ToSet(succ'[b]) \subseteq 2..created'
  <2>1. CASE b \in F
    <3>1. ToSet(succ'[b]) = T
      BY <1>8, <2>1 DEF T
    <3> QED BY <1>5, <3>1
  <2>2. CASE b \notin F
    <3>1. ToSet(succ[b]) \subseteq 2..created
      BY DEF BlockInv
    <3>2. 2..created \subseteq 2..created'
      BY <1>1
    <3>3. succ'[b] = succ[b]
      BY <1>9, <2>2
    <3> QED BY <3>1, <3>2, <3>3
  <2> QED BY <2>1, <2>2
<1>19. pre'[Entry] = <<>>
  <2>1. Entry \in Block /\ Entry \notin T
    BY <1>1, <1>5, NAssumption DEF Entry, Block
  <2> QED BY <1>10, <2>1 DEF BlockInv
<1>20. ASSUME NEW b \in Block, NEW c \in Block PROVE Times(succ'[b], c) = Times(pre'[c], b)
  <2>1. Times(succ[b], c) = Times(pre[c], b) /\ Times(succ[b], c) \in Nat
    BY <1>1, TimesFinite DEF BlockInv
  <2>2. Times(succ'[b], c) = Times(succ[b], c) + (IF b \in F /\ c \in T THEN 1 ELSE 0)
    <3>1. CASE b \in F
      <4>1. Times(succ[b], c) = 0
        BY <1>8, <3>1, TimesEmpty
      <4>2. Times(succ'[b], c) = IF c \in T THEN 1 ELSE 0
        BY <1>7, <1>8, <3>1
      <4> QED BY <3>1, <4>1, <4>2
    <3>2. CASE b \notin F
      BY <1>9, <2>1, <3>2
    <3> QED BY <3>1, <3>2
  <2>3. Times(pre'[c], b) = Times(pre[c], b) + (IF b \in F /\ c \in T THEN 1 ELSE 0)
    <3>1. CASE c \in T
      <4>1. Times(pre[c] \o from, b) = Times(pre[c], b) + Times(from, b)
        BY <1>1, TimesConcat
      <4>2. pre'[c] = pre[c] \o from
        BY <1>11, <3>1
      <4> QED BY <1>7, <3>1, <4>1, <4>2
    <3>2. CASE c \notin T
      BY <1>10, <2>1, <3>2
    <3> QED BY <3>1, <3>2
  <2> QED BY <2>1, <2>2, <2>3
<1>21. BlockInv'
  BY <1>12, <1>13, <1>14, <1>15, <1>16, <1>17, <1>18, <1>19, <1>20 DEF BlockInv
<1>22. \A b \in F : ToSet(succ'[b]) = T
  BY <1>8 DEF T
<1> QED
  BY <1>9, <1>10, <1>21, <1>22 DEF F, T

LEMMA PairConcat == \A c, d : <<c>> \o <<d>> = <<c, d>>
<1> TAKE c, d
<1> DEFINE a == <<c>>
           b == <<d>>
           p == <<c, d>>
           S == {c, d}
<1>1. a \in Seq(S) /\ b \in Seq(S) /\ p \in Seq(S)
  OBVIOUS
<1>2. Len(a) = 1 /\ Len(b) = 1 /\ Len(p) = 2 /\ a[1] = c /\ b[1] = d /\ p[1] = c /\ p[2] = d
  OBVIOUS
<1> HIDE DEF a, b, p, S
<1>3. a \o b \in Seq(S) /\ Len(a \o b) = 2 /\ (a \o b)[1] = c /\ (a \o b)[2] = d
  <2>1. /\ a \o b \in Seq(S) /\ Len(a \o b) = Len(a) + Len(b)
        /\ \A i \in 1..Len(a) + Len(b) : (a \o b)[i] = IF i <= Len(a) THEN a[i] ELSE b[i - Len(a)]
    BY <1>1, ConcatProperties
  <2>2. \A i \in 1..2 : (a \o b)[i] = IF i <= 1 THEN a[i] ELSE b[i - 1]
    BY <1>2, <2>1
  <2> QED BY <1>2, <2>1, <2>2
<1>4. \A i \in 1..2 : (a \o b)[i] = p[i]
  <2>1. \A i \in 1..2 : i = 1 \/ i = 2
    OBVIOUS
  <2> QED BY <1>2, <1>3, <2>1
<1>5. a \o b = p
  BY <1>1, <1>2, <1>3, <1>4, SeqEqual
<1> QED
  BY <1>5 DEF a, b, p

LEMMA ElementsOfPair == \A c, d : Len(<<c, d>>) = 2 /\ ToSet(<<c, d>>) = {c, d}
BY Pairs

\* A block branches to two new ones.
LEMMA Fork ==
  ASSUME BlockInv, created \in Nat \ {0}, created' \in 0..N, created <= created', created \in 0..N,
         NEW a \in 1..created, last[a] = "open",
         NEW x \in (created + 1)..created', NEW y \in (created + 1)..created', x # y,
         AddEdges(<<a>>, <<x, y>>),
         last' \in [Block -> {"open", "br", "ret"}], last'[a] = "br",
         \A b \in Block : b # a => last'[b] = last[b] \/ (last[b] = "open" /\ last'[b] = "ret" /\ b <= created')
  PROVE  /\ BlockInv'
         /\ \A b \in Block : b # a => succ'[b] = succ[b]
         /\ ToSet(succ'[a]) = {x, y}
         /\ \A b \in Block : b \notin {x, y} => pre'[b] = pre[b]
         /\ Len(pre'[x]) = 1 /\ Len(pre'[y]) = 1
<1> DEFINE from == <<a>>
           to == <<x, y>>
<1>1. /\ N \in Nat /\ a \in Block /\ x \in Block /\ y \in Block /\ a <= created
      /\ x > created /\ y > created /\ x \in 2..created' /\ y \in 2..created'
  BY NAssumption DEF Block
<1>2. pre[x] = <<>> /\ pre[y] = <<>>
  BY <1>1 DEF BlockInv
<1>3. from \in Seq(Block) /\ to \in Seq(Block)
  BY <1>1
<1>4. /\ Len(from) = 1 /\ Len(to) = 2 /\ Len(<<>>) = 0
      /\ ToSet(from) = {a} /\ ToSet(to) = {x, y} /\ to[1] = x /\ to[2] = y
  <2>1. Len(from) = 1 /\ ToSet(from) = {a}
    BY Pairs
  <2>2. Len(to) = 2 /\ ToSet(to) = {x, y}
    BY ElementsOfPair, Zenon
  <2>3. to[1] = x /\ to[2] = y
    BY Pairs
  <2> QED BY <2>1, <2>2, <2>3, Pairs
<1>5. AddEdges(from, to)
  OBVIOUS
<1> HIDE DEF from, to
<1>6. \A m, n \in 1..Len(from) : from[m] = from[n] => m = n
  BY <1>4
<1>7. \A m, n \in 1..Len(to) : to[m] = to[n] => m = n
  <2>1. \A m \in 1..Len(to) : m = 1 \/ m = 2
    BY <1>4
  <2> QED BY <1>4, <2>1
<1>8. to # <<>> /\ Len(to) <= 2
  BY <1>4
<1>9. \A b \in ToSet(from) : b <= created /\ last[b] = "open" /\ last'[b] = "br"
  BY <1>1, <1>4
<1>10. \A c \in ToSet(to) : c \in 2..created' /\ Len(pre[c]) + Len(from) <= 2
  BY <1>1, <1>2, <1>4
<1>11. \A b \in Block : b \notin ToSet(from) => last'[b] = last[b] \/ (last[b] = "open" /\ last'[b] = "ret" /\ b <= created')
  BY <1>4
<1>12. /\ BlockInv'
       /\ \A b \in Block : b \notin ToSet(from) => succ'[b] = succ[b]
       /\ \A b \in Block : b \in ToSet(from) => ToSet(succ'[b]) = ToSet(to)
       /\ \A b \in Block : b \notin ToSet(to) => pre'[b] = pre[b]
  <2>1. \A b \in ToSet(from) : b <= created /\ last[b] = "open"
    BY <1>9
  <2>2. \A b \in ToSet(from) : last'[b] = "br"
    BY <1>9
  <2>3. \A b \in Block : b \notin ToSet(from) =>
          \/ last'[b] = last[b]
          \/ last[b] = "open" /\ last'[b] = "ret" /\ b <= created'
    BY <1>11
  <2> QED BY <1>3, <1>5, <1>6, <1>7, <1>8, <1>10, <2>1, <2>2, <2>3, Branching
<1>13. \A b \in {x, y} : pre'[b] = pre[b] \o from
  BY <1>1, <1>4, <1>5 DEF AddEdges
<1>14. \A b \in {x, y} : pre'[b] = from
  <2>1. <<>> \o from = from
    BY <1>3, ConcatEmptySeq
  <2> QED BY <1>2, <1>13, <2>1
<1> QED
  BY <1>1, <1>4, <1>12, <1>14

\* Open blocks, one or two, branch to a block that has no predecessors, or one has one.
LEMMA Join ==
  ASSUME BlockInv, created \in 0..N, created' = created,
         NEW from \in Seq(Block), NEW x \in 2..created, AddEdges(from, <<x>>),
         \A m, n \in 1..Len(from) : from[m] = from[n] => m = n,
         \A b \in ToSet(from) : b <= created /\ last[b] = "open",
         Len(pre[x]) + Len(from) <= 2,
         last' = [b \in Block |-> IF b \in ToSet(from) THEN "br" ELSE last[b]]
  PROVE  /\ BlockInv'
         /\ \A b \in Block : b \notin ToSet(from) => succ'[b] = succ[b]
         /\ \A b \in Block : b \in ToSet(from) => ToSet(succ'[b]) = {x}
         /\ \A b \in Block : b # x => pre'[b] = pre[b]
         /\ Len(pre'[x]) = Len(pre[x]) + Len(from)
<1> DEFINE to == <<x>>
<1>1. N \in Nat /\ x \in Block /\ created \in Nat
  BY NAssumption DEF Block
<1>2. to \in Seq(Block)
  BY <1>1
<1>3. Len(to) = 1 /\ ToSet(to) = {x} /\ to[1] = x /\ Len(<<>>) = 0
  BY Pairs
<1>4. AddEdges(from, to)
  OBVIOUS
<1> HIDE DEF to
<1>5. \A m, n \in 1..Len(to) : to[m] = to[n] => m = n
  BY <1>3
<1>6. to # <<>> /\ Len(to) <= 2
  BY <1>3
<1>7. last' \in [Block -> {"open", "br", "ret"}]
  BY DEF BlockInv
<1>8. \A b \in ToSet(from) : last'[b] = "br"
  <2>1. ToSet(from) \subseteq Block
    BY LenProperties, ElementOfSeq DEF ToSet
  <2> QED BY <2>1
<1>9. \A b \in Block : b \notin ToSet(from) => last'[b] = last[b]
  OBVIOUS
<1>10. \A c \in ToSet(to) : c \in 2..created' /\ Len(pre[c]) + Len(from) <= 2
  BY <1>3
<1>11. created' \in 0..N /\ created <= created'
  BY <1>1
<1>12. /\ BlockInv'
       /\ \A b \in Block : b \notin ToSet(from) => succ'[b] = succ[b]
       /\ \A b \in Block : b \in ToSet(from) => ToSet(succ'[b]) = ToSet(to)
       /\ \A b \in Block : b \notin ToSet(to) => pre'[b] = pre[b]
  BY <1>2, <1>4, <1>5, <1>6, <1>7, <1>8, <1>9, <1>10, <1>11, Branching
<1>13. Len(pre'[x]) = Len(pre[x]) + Len(from)
  <2> DEFINE T == ToSet(to)
  <2>1. pre' = [b \in Block |-> IF b \in T THEN pre[b] \o from ELSE pre[b]]
    BY <1>4 DEF AddEdges
  <2>2. x \in T
    BY <1>3
  <2> HIDE DEF T
  <2>3. pre'[x] = pre[x] \o from
    BY <1>1, <2>1, <2>2
  <2>4. pre[x] \in Seq(Block)
    BY <1>1 DEF BlockInv
  <2> QED BY <2>3, <2>4, ConcatProperties
<1> QED
  BY <1>3, <1>12, <1>13

\* The blocks that get a branch in the next action, if any do.
Sources == IF Top.at \in Loops THEN {insert, Top.locals.last} ELSE {insert}

\* The allocas at hand: the one that would be made, those that names are bound to, and
\* the one that a subscript is of.
Used(home) ==
  \/ home = Home
  \/ \E v \in Name : IsBound(v) /\ home = Find(v)
  \/ Top.at = "subscript" /\ home = Top.locals

\* When the visitors s replace the running one, branches are added from the insert
\* block, and from the one before a loop, to targets of the running visitor and to new
\* blocks; what the new visitors will branch to is among these.
Due(b) == b \in Targets(Top) \/ (b > created /\ b <= created')
Grows(s) ==
  /\ created' \in 0..N /\ created <= created'
  /\ \/ insert' = insert \/ insert' \in Targets(Top)
     \/ insert' > created /\ insert' <= created'
  /\ Len(s) >= 1 => /\ \A b \in Targets(s[1]) : Due(b)
                    /\ s[1].at \in Loops => /\ s[1].locals.last = (IF Top.at \in Loops THEN Top.locals.last ELSE insert)
                                            /\ Top.at # "endArm"
                    /\ s[1].at = "subscript" => Used(s[1].locals) /\ Top.at \in {"expr", "var"}
  /\ Len(s) = 2 => Targets(s[2]) = {} /\ s[2].at \notin Loops \cup {"subscript"}
  /\ \A p \in Block : \A b \in ToSet(succ'[p]) : b \in ToSet(succ[p]) \/ (p \in Sources /\ Due(b))

\* Who is visited by a visitor that will insert next is an expression.
LEMMA Caller ==
  ASSUME CallInv, NEW n, n = Len(calls), n > 1
  PROVE  calls[n - 1].at \in Done \/ Top.at \in Expressions
<1>1. calls # <<>>
  BY Pairs
<1>2. n \in 2..Len(calls) /\ n \in 1..n /\ Top = calls[n]
  BY <1>1, TopInPlace
<1>3. calls[n - 1].at \in {"endFunction"} \cup AfterStatement \cup AfterExpression
  BY <1>2, Waiting
<1>4. Top.at \in Child(calls[n - 1].at)
  BY <1>2 DEF CallInv
<1> QED
  BY <1>3, <1>4 DEF Done, AfterStatement, Child

\* Actions that leave the blocks alone.
LEMMA GraphQuiet ==
  ASSUME ShapeInv, GraphInv, CallInv', NEW s, Steps(s), UNCHANGED cfg, insert' = insert,
         Top.at \notin {"endFunction", "endArm"} \cup Loops,
         \A k \in 1..Len(s) : s[k].at \notin {"endArm"} \cup Loops,
         Len(s) >= 1 => Top.at \notin Done \/ s[Len(s)].at \in Done \/ last[insert] = "open",
         Len(s) >= 1 /\ s[1].at = "subscript" => Used(s[1].locals) /\ Top.at \in {"expr", "var"},
         Len(s) = 2 => s[2].at # "subscript"
  PROVE  GraphInv' /\ Grows(s)
<1>1. CallInv /\ ContextInv /\ BlockInv /\ OpenInv /\ TargetInv
  BY DEF ShapeInv, GraphInv
<1>2. UNCHANGED <<created, last, succ, pre>>
  BY DEF cfg
<1>3. \A c : c.at \notin {"endArm"} \cup Loops => Targets(c) = {} /\ Pending(c) = {} /\ \A g : Lists(g, c)
  BY DEF Targets, Pending, Lists, Loops
<1>4. Targets(Top) = {} /\ Pending(Top) = {}
  BY <1>3
<1>5. /\ Len(calls) \in Nat \ {0} /\ Len(s) \in 0..2 /\ calls # <<>> /\ Len(calls') = Len(calls) - 1 + Len(s)
      /\ Top = calls[Len(calls)] /\ Top' = calls'[Len(calls')]
      /\ Len(s) >= 1 => calls'[Len(calls)] = s[1]
      /\ Len(s) = 2 => calls'[Len(calls) + 1] = s[2]
      /\ \A k \in 1..Len(calls) - 1 : calls'[k] = calls[k]
  BY <1>1, After
<1>6. Len(calls) > 1
  BY <1>1, <1>5, TopInPlace
<1>7. created \in Nat \ {0} /\ created \in 0..N /\ insert \in 1..created
  BY <1>1, <1>5, NAssumption DEF ContextInv, OpenInv
<1>8. /\ Len(s) >= 1 => Targets(s[1]) = {} /\ Pending(s[1]) = {} /\ Lists(pre', s[1]) /\ s[1].at \notin Loops
      /\ Len(s) = 2 => Targets(s[2]) = {} /\ Pending(s[2]) = {} /\ Lists(pre', s[2]) /\ s[2].at \notin Loops
  <2>1. (Len(s) >= 1 => 1 \in 1..Len(s)) /\ (Len(s) = 2 => 2 \in 1..Len(s))
    BY <1>5
  <2> QED BY <1>3, <2>1
<1>9. BlockInv'
  BY <1>1, <1>2 DEF BlockInv
<1>10. TargetInv'
  <2>1. \A b \in 1..created : pre'[b] = pre[b]
    BY <1>2
  <2>2. created' \in Nat /\ created <= created'
    BY <1>2, <1>7
  <2> QED BY <1>1, <1>7, <1>8, <2>1, <2>2, TargetStep
<1>11. Top'.at \notin Done => last'[insert'] = "open"
  <2> SUFFICES ASSUME Top'.at \notin Done PROVE last[insert] = "open"
    BY <1>2
  <2>1. CASE Len(s) = 0
    <3>1. Top' = calls[Len(calls) - 1]
      BY <1>5, <1>6, <2>1
    <3>2. Top.at \in Expressions
      BY <1>1, <1>6, <3>1, Caller
    <3> QED BY <1>1, <1>5, <3>2 DEF OpenInv, Done, Expressions, Operators
  <2>2. CASE Len(s) # 0
    <3>1. Top' = s[Len(s)]
      <4>1. CASE Len(s) = 1
        BY <1>5, <4>1
      <4>2. CASE Len(s) = 2
        BY <1>5, <4>2
      <4> QED BY <1>5, <2>2, <4>1, <4>2
    <3>2. Len(s) >= 1
      BY <1>5, <2>2
    <3> QED BY <1>1, <1>5, <3>1, <3>2 DEF OpenInv
  <2> QED BY <2>1, <2>2
<1>12. OpenInv'
  <2> DEFINE t == {insert} \cup Pending(Top) \cup (created + 1)..created'
  <2>1. t = {insert}
    BY <1>2, <1>4, <1>7
  <2>2. /\ insert \in t /\ insert' \in t /\ insert' \in 1..created' /\ created' \in Nat /\ created <= created'
        /\ \A b \in 1..created : b \notin t => last'[b] = last[b]
    BY <1>2, <1>7, <2>1
  <2>3. Len(calls') # 0
    BY <1>5, <1>6
  <2>4. calls' # <<>>
    BY <2>3, Pairs
  <2>5. \A b \in t : b = insert'
    BY <2>1
  <2> HIDE DEF t
  <2>6. t = {insert} \cup Pending(Top) \cup (created + 1)..created'
    BY DEF t
  <2> QED BY <1>1, <1>7, <1>8, <1>11, <2>2, <2>4, <2>5, <2>6, OpenStep
<1>13. Grows(s)
  BY <1>2, <1>7, <1>8 DEF Grows
<1> QED
  BY <1>9, <1>10, <1>12, <1>13 DEF GraphInv

\* What the actions on blocks start from.
LEMMA AtWork ==
  ASSUME ShapeInv, GraphInv, calls # <<>>
  PROVE  /\ CallInv /\ ContextInv /\ BlockInv /\ OpenInv /\ TargetInv
         /\ created \in Nat \ {0} /\ created \in 0..N /\ N \in Nat
         /\ insert \in 1..created /\ insert \in Block
         /\ last \in [Block -> {"open", "br", "ret"}]
         /\ Top.at \notin Done => last[insert] = "open"
         /\ Targets(Top) \subseteq 2..created /\ Lists(pre, Top) /\ Local(Top)
         /\ \A b \in Pending(Top) : b \in 1..created /\ last[b] = "open" /\ b # insert
<1>1. CallInv /\ ContextInv /\ BlockInv /\ OpenInv /\ TargetInv
  BY DEF ShapeInv, GraphInv
<1>2. Len(calls) \in 1..Len(calls) /\ Top = calls[Len(calls)] /\ Local(Top)
  BY <1>1, TopInPlace
<1>3. created \in 0..N /\ N \in Nat /\ insert \in 1..created
  BY <1>1, NAssumption DEF ContextInv, OpenInv
<1>4. created \in Nat \ {0} /\ insert \in Block
  BY <1>3 DEF Block
<1>5. Targets(Top) \subseteq 2..created /\ Lists(pre, Top)
  BY <1>1, <1>2 DEF TargetInv
<1>6. \A b \in Pending(Top) : b \in 1..created /\ last[b] = "open" /\ b # insert
  BY <1>1, <1>2 DEF OpenInv
<1> QED
  BY <1>1, <1>2, <1>3, <1>4, <1>5, <1>6 DEF BlockInv, OpenInv

\* A visitor of a statement or an expression knows no blocks.
LEMMA KnowsNone ==
  ASSUME NEW c, c.at \notin {"endArm"} \cup Loops
  PROVE  Targets(c) = {} /\ Pending(c) = {} /\ \A g : Lists(g, c)
BY DEF Targets, Pending, Lists, Loops

LEMMA GraphSelection ==
  ASSUME ShapeInv, GraphInv, BeginSelection
  PROVE  GraphInv' /\ Grows(<<Arms(Top.locals), Call("stmt", <<>>)>>)
<1> DEFINE l == Top.locals
           false == IF l THEN created + 3 ELSE created + 2
           c == Arms(l)
           d == Call("stmt", <<>>)
           s == <<c, d>>
<1>1. calls # <<>> /\ Top.at = "if"
  BY DEF BeginSelection, At
<1>2. /\ CallInv /\ ContextInv /\ BlockInv /\ OpenInv /\ TargetInv
      /\ created \in Nat \ {0} /\ created \in 0..N /\ N \in Nat
      /\ insert \in 1..created /\ insert \in Block
      /\ last \in [Block -> {"open", "br", "ret"}]
  BY <1>1, AtWork
<1>3. last[insert] = "open" /\ l \in BOOLEAN
  BY <1>1, AtWork DEF Done, Local
<1>4. /\ false <= N /\ created' = false /\ insert' = created + 1
      /\ AddEdges(<<insert>>, <<created + 1, false>>)
      /\ last' = [last EXCEPT ![insert] = "br"]
  BY DEF BeginSelection
<1>5. CallInv' /\ Steps(s)
  BY <1>2, BranchFrames DEF ShapeInv
<1>6. Len(s) = 2 /\ s[1] = c /\ s[2] = d
  BY Pairs
<1>7. c.at = "endArm" /\ c.locals.out = created + 2 /\ c.locals.else = (IF l THEN created + 3 ELSE NoBlock) /\ d.at = "stmt"
  BY CallFields DEF Arms
<1> HIDE DEF s, c, d, l
<1>8. /\ false \in created + 2..created' /\ created' \in Nat /\ created' \in 0..N /\ created < created'
      /\ created + 1 \in created + 1..created' /\ false \in created + 1..created' /\ created + 1 # false
      /\ created + 2 \in created + 1..created'
  BY <1>2, <1>3, <1>4
<1>9. last' \in [Block -> {"open", "br", "ret"}] /\ last'[insert] = "br" /\ \A b \in Block : b # insert => last'[b] = last[b]
  BY <1>2, <1>4
<1>10. /\ BlockInv'
       /\ \A b \in Block : b # insert => succ'[b] = succ[b]
       /\ ToSet(succ'[insert]) = {created + 1, false}
       /\ \A b \in Block : b \notin {created + 1, false} => pre'[b] = pre[b]
       /\ Len(pre'[created + 1]) = 1 /\ Len(pre'[false]) = 1
  <2> DEFINE true == created + 1
  <2>1. created <= created' /\ true \in created + 1..created' /\ true # false /\ false \in created + 1..created'
    BY <1>2, <1>8
  <2>2. AddEdges(<<insert>>, <<true, false>>)
    BY <1>4
  <2>3. \A b \in Block : b # insert => last'[b] = last[b] \/ (last[b] = "open" /\ last'[b] = "ret" /\ b <= created')
    BY <1>9
  <2> HIDE DEF false, true
  <2>4. /\ BlockInv'
        /\ \A b \in Block : b # insert => succ'[b] = succ[b]
        /\ ToSet(succ'[insert]) = {true, false}
        /\ \A b \in Block : b \notin {true, false} => pre'[b] = pre[b]
        /\ Len(pre'[true]) = 1 /\ Len(pre'[false]) = 1
    BY <1>2, <1>3, <1>8, <1>9, <2>1, <2>2, <2>3, Fork
  <2> QED BY <2>4 DEF true
<1>11. Targets(c) = Pending(c) /\ Targets(c) = (IF l THEN {created + 2, created + 3} ELSE {created + 2})
  BY <1>2, <1>3, <1>7 DEF Targets, Pending, NoBlock
<1>12. Targets(d) = {} /\ Pending(d) = {} /\ Lists(pre', d) /\ Targets(Top) = {} /\ Pending(Top) = {} /\ Top.at \notin Loops /\ d.at \notin Loops \cup {"subscript"}
  BY <1>1, <1>7, KnowsNone DEF Loops
<1>13. Lists(pre', c)
  <2>1. CASE l
    <3>1. c.locals.out = created + 2 /\ c.locals.else = created + 3 /\ false = created + 3
      BY <1>7, <2>1
    <3>2. pre'[created + 2] = pre[created + 2] /\ pre[created + 2] = <<>>
      <4>1. created + 2 \in Block /\ created + 2 # created + 1 /\ created + 2 # false /\ created + 2 > created
        BY <1>2, <1>8, <3>1 DEF Block
      <4> HIDE DEF false
      <4> QED BY <1>2, <1>10, <4>1 DEF BlockInv
    <3>3. Len(pre'[c.locals.out]) = 0
      BY <3>1, <3>2, Pairs
    <3>4. c.locals.out # c.locals.else /\ c.locals.else # NoBlock
      BY <1>2, <3>1 DEF NoBlock
    <3> QED BY <1>7, <3>3, <3>4 DEF Lists, Loops
  <2>2. CASE ~ l
    <3>1. c.locals.out = created + 2 /\ c.locals.else = NoBlock /\ false = created + 2
      BY <1>7, <2>2
    <3>2. Len(pre'[c.locals.out]) = 1 /\ c.locals.out # c.locals.else
      BY <1>2, <1>10, <3>1 DEF NoBlock
    <3> QED BY <1>7, <3>1, <3>2 DEF Lists, Loops
  <2> QED BY <2>1, <2>2
<1>14. TargetInv'
  <2>1. \A b \in Targets(c) : b \in created + 1..created'
    BY <1>2, <1>3, <1>4, <1>11
  <2>2. \A b \in 1..created : pre'[b] = pre[b]
    <3>1. \A b \in 1..created : b \in Block /\ b \notin {created + 1, false}
      BY <1>2, <1>8 DEF Block
    <3> QED BY <1>10, <3>1
  <2>3. created <= created'
    BY <1>2, <1>8
  <2> HIDE DEF false
  <2> QED BY <1>2, <1>5, <1>6, <1>8, <1>12, <1>13, <2>1, <2>2, <2>3, TargetStep
<1>15. OpenInv'
  <2> DEFINE t == {insert} \cup Pending(Top) \cup (created + 1)..created'
  <2>1. /\ insert' \in t /\ insert' \in 1..created' /\ created <= created'
        /\ \A b \in 1..created : b \notin t => last'[b] = last[b]
    <3>1. \A b \in 1..created : b \in Block
      BY <1>2 DEF Block
    <3> QED BY <1>2, <1>4, <1>8, <1>9, <3>1
  <2>2. \A b \in created + 1..created' : last'[b] = "open"
    <3>1. \A b \in created + 1..created' : b \in Block /\ b > created /\ b # insert
      BY <1>2, <1>8 DEF Block
    <3> QED BY <1>2, <1>9, <3>1 DEF BlockInv
  <2>3. last'[insert'] = "open"
    BY <1>4, <1>8, <2>2
  <2>4. \A b \in Pending(c) : b \in t /\ b \in 1..created' /\ last'[b] = "open" /\ b # insert'
    <3>1. \A b \in Pending(c) : b \in created + 1..created' /\ b # created + 1
      BY <1>2, <1>3, <1>4, <1>11
    <3> QED BY <1>2, <1>4, <2>2, <3>1
  <2>5. \A b \in t : b \in 1..created' /\ last'[b] = "open" => b = insert' \/ b \in Pending(c)
    <3>1. ASSUME NEW b \in t, last'[b] = "open" PROVE b = insert' \/ b \in Pending(c)
      <4>1. b \in created + 1..created'
        BY <1>9, <1>12, <3>1
      <4> QED BY <1>2, <1>3, <1>4, <1>11, <4>1
    <3> QED BY <3>1
  <2>6. calls' # <<>>
    <3>1. Len(calls') # 0
      BY <1>2, <1>5, <1>6, After
    <3> QED BY <3>1, Pairs
  <2> HIDE DEF t, false
  <2>7. t = {insert} \cup Pending(Top) \cup (created + 1)..created'
    BY DEF t
  <2> QED BY <1>2, <1>5, <1>6, <1>8, <1>12, <2>1, <2>3, <2>4, <2>5, <2>6, <2>7, OpenStep
<1>16. Grows(s)
  <2>1. \A b \in Targets(c) : Due(b)
    BY <1>2, <1>3, <1>4, <1>11 DEF Due
  <2>2. Due(created + 1) /\ Due(false)
    BY <1>2, <1>8 DEF Due
  <2>3. ASSUME NEW p \in Block, NEW b \in ToSet(succ'[p]) PROVE b \in ToSet(succ[p]) \/ (p \in Sources /\ Due(b))
    BY <1>10, <2>2, <2>3 DEF Sources
  <2>4. insert' > created /\ insert' <= created' /\ created <= created' /\ created' \in 0..N
    BY <1>2, <1>4, <1>8
  <2>5. c.at \notin Loops /\ c.at # "subscript"
    BY <1>7 DEF Loops
  <2> HIDE DEF false
  <2> QED BY <1>6, <1>12, <2>1, <2>3, <2>4, <2>5 DEF Grows
<1> QED
  BY <1>10, <1>14, <1>15, <1>16 DEF GraphInv, s, c, d, l

LEMMA StillRunning ==
  ASSUME CallInv, CallInv', NEW s, Steps(s), Top.at # "endFunction"
  PROVE  calls' # <<>> /\ Len(calls) > 1
<1>1. Len(calls') = Len(calls) - 1 + Len(s) /\ Len(s) \in 0..2 /\ Len(calls) \in Nat \ {0} /\ calls # <<>>
  BY After
<1>2. Len(calls) > 1
  BY <1>1, TopInPlace
<1>3. Len(calls') # 0
  BY <1>1, <1>2
<1> QED
  BY <1>2, <1>3, Pairs

LEMMA GraphArm ==
  ASSUME ShapeInv, GraphInv, EndArm
  PROVE  /\ GraphInv'
         /\ Top.locals.else = NoBlock => Steps(<<>>) /\ Grows(<<>>)
         /\ Top.locals.else # NoBlock => Steps(<<LastArm, Call("stmt", <<>>)>>) /\ Grows(<<LastArm, Call("stmt", <<>>)>>)
<1> DEFINE out == Top.locals.out
           else == Top.locals.else
           onward == IF else # NoBlock THEN else ELSE out
           T == {out, else} \ {NoBlock}
<1>1. calls # <<>> /\ Top.at = "endArm"
  BY DEF EndArm, At
<1>2. /\ CallInv /\ ContextInv /\ BlockInv /\ OpenInv /\ TargetInv
      /\ created \in Nat \ {0} /\ created \in 0..N /\ N \in Nat
      /\ insert \in 1..created /\ insert \in Block
      /\ last \in [Block -> {"open", "br", "ret"}]
  BY <1>1, AtWork
<1>3. /\ Targets(Top) = T /\ Pending(Top) = T /\ out \in Block /\ else \in 0..N
      /\ out # else /\ Len(pre[out]) <= (IF else = NoBlock THEN 1 ELSE 0)
  BY <1>1, AtWork DEF Targets, Pending, Lists, Local
<1>4. \A b \in T : b \in 2..created /\ last[b] = "open" /\ b # insert
  BY <1>1, <1>3, AtWork
<1>5. out \in T /\ onward \in T /\ (else # NoBlock => T = {out, else}) /\ (else = NoBlock => T = {out})
  BY <1>2, <1>3 DEF Block, NoBlock
<1>6. /\ IF last[insert] # "open" THEN UNCHANGED <<last, succ, pre>>
         ELSE AddEdges(<<insert>>, <<out>>) /\ last' = [last EXCEPT ![insert] = "br"]
      /\ insert' = onward /\ created' = created
  BY DEF EndArm, IsTerminated
<1>7. CallInv' /\ IF else = NoBlock THEN Steps(<<>>) ELSE Steps(<<LastArm, Call("stmt", <<>>)>>)
  BY <1>2, BranchFrames DEF ShapeInv
<1>8. Len(pre[out]) \in Nat /\ pre[out] \in Seq(Block)
  BY <1>2, <1>3, LenProperties DEF BlockInv
<1> HIDE DEF out, else, onward, T
<1>9. /\ BlockInv'
      /\ \A b \in Block : b # insert => succ'[b] = succ[b] /\ last'[b] = last[b]
      /\ \A b \in ToSet(succ'[insert]) : b \in ToSet(succ[insert]) \/ b = out
      /\ \A b \in Block : b # out => pre'[b] = pre[b]
      /\ Len(pre'[out]) <= Len(pre[out]) + 1
      /\ last'[insert] # "open"
  <2>1. CASE last[insert] # "open"
    <3>1. UNCHANGED <<last, succ, pre, created>>
      BY <1>6, <2>1
    <3>2. BlockInv'
      BY <1>2, <3>1 DEF BlockInv
    <3> QED BY <1>8, <2>1, <3>1, <3>2
  <2>2. CASE last[insert] = "open"
    <3> DEFINE from == <<insert>>
    <3>1. AddEdges(from, <<out>>) /\ last' = [last EXCEPT ![insert] = "br"]
      BY <1>6, <2>2
    <3>2. from \in Seq(Block) /\ Len(from) = 1 /\ ToSet(from) = {insert}
      <4>1. from \in Seq(Block)
        BY <1>2
      <4> QED BY <4>1, Pairs
    <3> HIDE DEF from
    <3>3. \A m, n \in 1..Len(from) : from[m] = from[n] => m = n
      BY <3>2
    <3>4. last' = [b \in Block |-> IF b \in ToSet(from) THEN "br" ELSE last[b]]
      BY <1>2, <3>1, <3>2
    <3>5. out \in 2..created /\ Len(pre[out]) + Len(from) <= 2
      BY <1>3, <1>4, <1>5, <1>8, <3>2
    <3>6. \A b \in ToSet(from) : b <= created /\ last[b] = "open"
      BY <1>2, <2>2, <3>2
    <3>7. /\ BlockInv'
          /\ \A b \in Block : b \notin ToSet(from) => succ'[b] = succ[b]
          /\ \A b \in Block : b \in ToSet(from) => ToSet(succ'[b]) = {out}
          /\ \A b \in Block : b # out => pre'[b] = pre[b]
          /\ Len(pre'[out]) = Len(pre[out]) + Len(from)
      BY <1>2, <1>6, <3>1, <3>2, <3>3, <3>4, <3>5, <3>6, Join
    <3>8. \A b \in Block : b # insert => last'[b] = last[b]
      BY <3>2, <3>4
    <3>9. last'[insert] = "br"
      BY <1>2, <3>2, <3>4
    <3> QED BY <1>2, <1>8, <3>2, <3>7, <3>8, <3>9
  <2> QED BY <2>1, <2>2
<1>10. /\ \A b \in 1..created : b \notin Targets(Top) => pre'[b] = pre[b]
       /\ \A b \in 1..created : b # insert => last'[b] = last[b]
       /\ created' \in Nat /\ created <= created' /\ created' \in 0..N
  <2>1. \A b \in 1..created : b \in Block
    BY <1>2 DEF Block
  <2> QED BY <1>2, <1>3, <1>5, <1>6, <1>9, <2>1
<1>11. insert' \in T /\ last'[insert'] = "open" /\ insert' \in 1..created' /\ insert' # insert
  <2>1. insert' \in 1..created /\ last[insert'] = "open" /\ insert' # insert /\ insert' \in T
    BY <1>4, <1>5, <1>6
  <2> QED BY <1>6, <1>10, <2>1
<1> DEFINE t == {insert} \cup Pending(Top) \cup (created + 1)..created'
<1>12. t = {insert} \cup T
  BY <1>2, <1>3, <1>6
<1>13. /\ insert' \in t /\ \A b \in 1..created : b \notin t => last'[b] = last[b]
       /\ \A b \in T : b \in t /\ b \in 1..created' /\ last'[b] = "open"
       /\ \A b \in t : last'[b] = "open" => b \in T
  BY <1>4, <1>6, <1>9, <1>10, <1>11, <1>12
<1>14. t = {insert} \cup Pending(Top) \cup (created + 1)..created'
  OBVIOUS
<1> HIDE DEF t
<1>15. \A p \in Block : \A b \in ToSet(succ'[p]) : b \in ToSet(succ[p]) \/ (p \in Sources /\ Due(b))
  BY <1>3, <1>5, <1>9 DEF Sources, Due
<1>16. ASSUME NEW s, Steps(s), Len(s) \in {0, 2},
              Len(s) = 0 => else = NoBlock,
              Len(s) = 2 => s[1] = LastArm /\ s[2] = Call("stmt", <<>>) /\ else # NoBlock
       PROVE  GraphInv' /\ Grows(s)
  <2>1. calls' # <<>>
    BY <1>1, <1>2, <1>7, <1>16, StillRunning
  <2>2. Len(s) = 2 => Targets(s[2]) = {} /\ Pending(s[2]) = {} /\ Lists(pre', s[2]) /\ s[2].at \notin Loops \cup {"subscript"}
    BY <1>16, CallFields, KnowsNone DEF Loops
  <2>3. Len(s) >= 1 => Len(s) = 2 /\ s[1].at = "endArm" /\ s[1].locals.out = out /\ s[1].locals.else = NoBlock
    BY <1>16, CallFields DEF LastArm, out
  <2>4. Len(s) >= 1 => Targets(s[1]) = {out} /\ Pending(s[1]) = {out} /\ s[1].at \notin Loops
    BY <1>2, <1>3, <2>3 DEF Targets, Pending, Loops, Block, NoBlock
  <2>5. Len(s) >= 1 => Lists(pre', s[1])
    <3> SUFFICES ASSUME Len(s) >= 1 PROVE Lists(pre', s[1])
      OBVIOUS
    <3>1. Len(pre[out]) <= 0 /\ out # NoBlock /\ Len(pre'[out]) <= Len(pre[out]) + 1
      BY <1>2, <1>3, <1>9, <1>16, <2>3 DEF Block, NoBlock
    <3>2. Len(pre[out]) = 0
      BY <1>8, <3>1
    <3>3. Len(pre'[out]) <= 1
      BY <3>1, <3>2
    <3> QED BY <2>3, <3>1, <3>3 DEF Lists, Loops
  <2>6. TargetInv'
    <3>1. Len(s) >= 1 => /\ \A b \in Targets(s[1]) : b \in Targets(Top) \/ b \in (created + 1)..created'
                         /\ Lists(pre', s[1])
      BY <1>3, <1>5, <2>4, <2>5
    <3> QED BY <1>2, <1>7, <1>10, <1>16, <2>2, <3>1, TargetStep
  <2>7. OpenInv'
    <3>1. Len(s) >= 1 => \A b \in Pending(s[1]) : b \in t /\ b \in 1..created' /\ last'[b] = "open" /\ b # insert'
      <4>1. Len(s) >= 1 => insert' = else /\ out # else
        BY <1>3, <1>6, <1>16, <2>3 DEF onward
      <4> QED BY <1>5, <1>13, <2>4, <4>1
    <3>2. \A b \in t : b \in 1..created' /\ last'[b] = "open" => b = insert' \/ (Len(s) >= 1 /\ b \in Pending(s[1]))
      <4>1. CASE Len(s) = 0
        BY <1>5, <1>6, <1>13, <1>16, <4>1 DEF onward
      <4>2. CASE Len(s) = 2
        <5>1. insert' = else /\ T = {out, else} /\ Len(s) >= 1
          BY <1>5, <1>6, <1>16, <4>2 DEF onward
        <5> QED BY <1>13, <2>4, <5>1
      <4> QED BY <1>16, <4>1, <4>2
    <3> QED BY <1>2, <1>7, <1>10, <1>11, <1>13, <1>14, <1>16, <2>1, <2>2, <3>1, <3>2, OpenStep
  <2>8. Grows(s)
    BY <1>3, <1>5, <1>10, <1>11, <1>15, <2>2, <2>3, <2>4 DEF Grows, Due
  <2> QED BY <1>9, <2>6, <2>7, <2>8 DEF GraphInv
<1>17. CASE else = NoBlock
  <2>1. Len(<<>>) = 0 /\ Steps(<<>>)
    BY <1>7, <1>17, Pairs
  <2> QED BY <1>16, <1>17, <2>1 DEF else
<1>18. CASE else # NoBlock
  <2> DEFINE s == <<LastArm, Call("stmt", <<>>)>>
  <2>1. Len(s) = 2 /\ s[1] = LastArm /\ s[2] = Call("stmt", <<>>) /\ Steps(s)
    BY <1>7, <1>18, Pairs
  <2> HIDE DEF s
  <2>2. GraphInv' /\ Grows(s)
    BY <1>16, <1>18, <2>1
  <2> QED BY <1>18, <2>1, <2>2 DEF else, s
<1> QED
  BY <1>17, <1>18

LEMMA GraphIteration ==
  ASSUME ShapeInv, GraphInv, BeginIteration
  PROVE  GraphInv' /\ Grows(<<Condition, Call("expr", <<>>)>>)
<1> DEFINE c == Condition
           d == Call("expr", <<>>)
           s == <<c, d>>
<1>1. calls # <<>> /\ Top.at = "stmt"
  BY DEF BeginIteration, At
<1>2. /\ CallInv /\ ContextInv /\ BlockInv /\ OpenInv /\ TargetInv
      /\ created \in Nat \ {0} /\ created \in 0..N /\ N \in Nat
      /\ insert \in 1..created /\ insert \in Block
  BY <1>1, AtWork
<1>3. last[insert] = "open"
  BY <1>1, AtWork DEF Done
<1>4. created' = created + 1 /\ created < N /\ insert' = created + 1 /\ UNCHANGED <<last, succ, pre>>
  BY DEF BeginIteration
<1>5. CallInv' /\ Steps(s)
  BY <1>2, BranchFrames DEF ShapeInv
<1>6. Len(s) = 2 /\ s[1] = c /\ s[2] = d
  BY Pairs
<1>7. c.at = "while" /\ c.locals.condition = created + 1 /\ c.locals.last = insert /\ d.at = "expr"
  BY CallFields DEF Condition
<1> HIDE DEF s, c, d
<1>8. created' \in Nat /\ created' \in 0..N /\ created <= created' /\ insert' \in 1..created' /\ insert' \in Block /\ insert' # insert
  BY <1>2, <1>4 DEF Block
<1>9. BlockInv'
  <2>1. \A b \in Block : b > created' => b > created
    BY <1>2, <1>4 DEF Block
  <2>2. \A b \in Block : ToSet(succ'[b]) \subseteq 2..created'
    <3>1. 2..created \subseteq 2..created'
      BY <1>2, <1>4
    <3>2. \A b \in Block : ToSet(succ[b]) \subseteq 2..created
      BY <1>2 DEF BlockInv
    <3> QED BY <1>4, <3>1, <3>2
  <2> QED BY <1>2, <1>4, <2>1, <2>2 DEF BlockInv
<1>10. Targets(c) = {created + 1} /\ Pending(c) = {insert}
  BY <1>7 DEF Targets, Pending
<1>11. Targets(d) = {} /\ Pending(d) = {} /\ Lists(pre', d) /\ Targets(Top) = {} /\ Pending(Top) = {} /\ Top.at \notin Loops /\ d.at \notin Loops \cup {"subscript"}
  BY <1>1, <1>7, KnowsNone DEF Loops
<1>12. last[created + 1] = "open" /\ pre[created + 1] = <<>>
  <2>1. created + 1 \in Block /\ created + 1 > created
    BY <1>2, <1>4 DEF Block
  <2> QED BY <1>2, <2>1 DEF BlockInv
<1>13. Lists(pre', c)
  BY <1>4, <1>7, <1>12 DEF Lists
<1>14. TargetInv'
  <2>1. \A b \in Targets(c) : b \in created + 1..created'
    BY <1>2, <1>4, <1>10
  <2>2. \A b \in 1..created : pre'[b] = pre[b]
    BY <1>4
  <2> QED BY <1>2, <1>5, <1>6, <1>8, <1>11, <1>13, <2>1, <2>2, TargetStep
<1>15. OpenInv'
  <2> DEFINE t == {insert} \cup Pending(Top) \cup (created + 1)..created'
  <2>1. t = {insert, created + 1}
    BY <1>2, <1>4, <1>11
  <2>2. insert' \in t /\ \A b \in 1..created : b \notin t => last'[b] = last[b]
    BY <1>4, <2>1
  <2>3. last'[insert'] = "open"
    BY <1>4, <1>12
  <2>4. \A b \in Pending(c) : b \in t /\ b \in 1..created' /\ last'[b] = "open" /\ b # insert'
    BY <1>2, <1>3, <1>4, <1>8, <1>10, <2>1
  <2>5. \A b \in t : b = insert' \/ b \in Pending(c)
    BY <1>4, <1>10, <2>1
  <2>6. calls' # <<>>
    BY <1>1, <1>2, <1>5, StillRunning
  <2> HIDE DEF t
  <2>7. t = {insert} \cup Pending(Top) \cup (created + 1)..created'
    BY DEF t
  <2> QED BY <1>2, <1>5, <1>6, <1>8, <1>11, <2>2, <2>3, <2>4, <2>5, <2>6, <2>7, OpenStep
<1>16. Grows(s)
  <2>1. \A b \in Targets(c) : Due(b)
    BY <1>2, <1>4, <1>10 DEF Due
  <2>2. c.locals.last = (IF Top.at \in Loops THEN Top.locals.last ELSE insert) /\ Top.at # "endArm" /\ c.at # "subscript"
    BY <1>1, <1>7, <1>11
  <2>3. insert' > created /\ insert' <= created'
    BY <1>2, <1>4
  <2> QED BY <1>4, <1>6, <1>8, <1>11, <2>1, <2>2, <2>3 DEF Grows
<1> QED
  BY <1>9, <1>14, <1>15, <1>16 DEF GraphInv, s, c, d

LEMMA GraphBody ==
  ASSUME ShapeInv, GraphInv, BeginBody
  PROVE  GraphInv' /\ Grows(<<LoopBody, Call("stmt", <<>>)>>)
<1> DEFINE condition == Top.locals.condition
           before == Top.locals.last
           loopBB == created + 1
           out == created + 2
           c == LoopBody
           d == Call("stmt", <<>>)
           s == <<c, d>>
<1>1. calls # <<>> /\ Top.at = "while"
  BY DEF BeginBody, At
<1>2. /\ CallInv /\ ContextInv /\ BlockInv /\ OpenInv /\ TargetInv
      /\ created \in Nat \ {0} /\ created \in 0..N /\ N \in Nat
      /\ insert \in 1..created /\ insert \in Block
      /\ last \in [Block -> {"open", "br", "ret"}]
  BY <1>1, AtWork
<1>3. /\ last[insert] = "open" /\ Targets(Top) = {condition} /\ Pending(Top) = {before}
      /\ condition \in 2..created /\ pre[condition] = <<>>
      /\ before \in 1..created /\ last[before] = "open" /\ before # insert
  BY <1>1, AtWork DEF Done, Targets, Pending, Lists, Loops
<1>4. /\ out <= N /\ created' = created + 2 /\ insert' = loopBB
      /\ AddEdges(<<insert>>, <<loopBB, out>>)
      /\ last' = [last EXCEPT ![insert] = "br"]
  BY DEF BeginBody
<1>5. CallInv' /\ Steps(s)
  BY <1>2, BranchFrames DEF ShapeInv
<1>6. Len(s) = 2 /\ s[1] = c /\ s[2] = d
  BY Pairs
<1>7. c.at = "endBody" /\ c.locals.condition = condition /\ c.locals.last = before /\ c.locals.out = out /\ d.at = "stmt"
  BY CallFields DEF LoopBody
<1>8. /\ loopBB \in created + 1..created' /\ out \in created + 1..created' /\ loopBB # out
      /\ created' \in Nat /\ created' \in 0..N /\ created <= created' /\ insert' \in 1..created'
      /\ created + 1..created' = {loopBB, out}
      /\ loopBB \in Block /\ out \in Block /\ loopBB > created /\ out > created
  BY <1>2, <1>4 DEF Block
<1>9. last' \in [Block -> {"open", "br", "ret"}] /\ last'[insert] = "br" /\ \A b \in Block : b # insert => last'[b] = last[b]
  BY <1>2, <1>4
<1> HIDE DEF s, c, d, condition, before, loopBB, out
<1>10. /\ BlockInv'
       /\ \A b \in Block : b # insert => succ'[b] = succ[b]
       /\ ToSet(succ'[insert]) = {loopBB, out}
       /\ \A b \in Block : b \notin {loopBB, out} => pre'[b] = pre[b]
  <2>1. \A b \in Block : b # insert => last'[b] = last[b] \/ (last[b] = "open" /\ last'[b] = "ret" /\ b <= created')
    BY <1>9
  <2>2. /\ loopBB \in (created + 1)..created' /\ out \in (created + 1)..created' /\ loopBB # out
        /\ created' \in 0..N /\ created <= created' /\ last[insert] = "open"
        /\ AddEdges(<<insert>>, <<loopBB, out>>)
    BY <1>3, <1>4, <1>8
  <2>3. /\ BlockInv'
        /\ \A b \in Block : b # insert => succ'[b] = succ[b]
        /\ ToSet(succ'[insert]) = {loopBB, out}
        /\ \A b \in Block : b \notin {loopBB, out} => pre'[b] = pre[b]
        /\ Len(pre'[loopBB]) = 1 /\ Len(pre'[out]) = 1
    BY <1>2, <1>9, <2>1, <2>2, Fork
  <2> QED BY <2>3
<1>11. Targets(c) = {condition, out} /\ Pending(c) = {before, out}
  BY <1>7 DEF Targets, Pending
<1>12. Targets(d) = {} /\ Pending(d) = {} /\ Lists(pre', d) /\ d.at \notin Loops \cup {"subscript"} /\ c.at \in Loops /\ Top.at \in Loops
  BY <1>1, <1>7, KnowsNone DEF Loops
<1>13. \A b \in 1..created : b \in Block /\ pre'[b] = pre[b] /\ b # loopBB /\ b # out
  <2>1. \A b \in 1..created : b \in Block /\ b # loopBB /\ b # out
    BY <1>2, <1>8 DEF Block
  <2> QED BY <1>10, <2>1
<1>14. Lists(pre', c)
  <2>1. pre'[condition] = <<>> /\ condition # out /\ before # out
    BY <1>2, <1>3, <1>13
  <2> QED BY <1>7, <2>1 DEF Lists
<1>15. TargetInv'
  <2>1. \A b \in Targets(c) : b \in Targets(Top) \/ b \in created + 1..created'
    BY <1>3, <1>8, <1>11
  <2> QED BY <1>2, <1>5, <1>6, <1>8, <1>12, <1>13, <1>14, <2>1, TargetStep
<1>16. OpenInv'
  <2> DEFINE t == {insert} \cup Pending(Top) \cup (created + 1)..created'
  <2>1. t = {insert, before, loopBB, out}
    BY <1>3, <1>8
  <2>2. last'[loopBB] = "open" /\ last'[out] = "open" /\ last'[before] = "open"
    <3>1. last[loopBB] = "open" /\ last[out] = "open" /\ loopBB # insert /\ out # insert
      BY <1>2, <1>8, <1>13 DEF BlockInv
    <3> QED BY <1>3, <1>8, <1>9, <1>13, <3>1
  <2>3. /\ insert' \in t /\ last'[insert'] = "open"
        /\ \A b \in 1..created : b \notin t => last'[b] = last[b]
    BY <1>4, <1>9, <1>13, <2>1, <2>2
  <2>4. \A b \in Pending(c) : b \in t /\ b \in 1..created' /\ last'[b] = "open" /\ b # insert'
    <3>1. before \in 1..created' /\ out \in 1..created' /\ before # loopBB
      BY <1>2, <1>3, <1>8, <1>13
    <3> QED BY <1>4, <1>8, <1>11, <2>1, <2>2, <3>1
  <2>5. \A b \in t : b \in 1..created' /\ last'[b] = "open" => b = insert' \/ b \in Pending(c)
    BY <1>4, <1>9, <1>11, <2>1
  <2>6. calls' # <<>>
    BY <1>1, <1>2, <1>5, StillRunning
  <2> HIDE DEF t
  <2>7. t = {insert} \cup Pending(Top) \cup (created + 1)..created'
    BY DEF t
  <2> QED BY <1>2, <1>5, <1>6, <1>8, <1>12, <2>3, <2>4, <2>5, <2>6, <2>7, OpenStep
<1>17. Grows(s)
  <2>1. Due(loopBB) /\ Due(out) /\ Due(condition)
    BY <1>3, <1>8 DEF Due
  <2>2. \A b \in Targets(c) : Due(b)
    BY <1>11, <2>1
  <2>3. /\ c.locals.last = (IF Top.at \in Loops THEN Top.locals.last ELSE insert) /\ Top.at # "endArm" /\ c.at # "subscript"
        /\ insert \in Sources
    BY <1>1, <1>7, <1>12 DEF Sources, before
  <2>4. insert' > created /\ insert' <= created'
    BY <1>4, <1>8
  <2>5. ASSUME NEW p \in Block, NEW b \in ToSet(succ'[p]) PROVE b \in ToSet(succ[p]) \/ (p \in Sources /\ Due(b))
    BY <1>10, <2>1, <2>3, <2>5
  <2> QED BY <1>6, <1>8, <1>12, <2>2, <2>3, <2>4, <2>5 DEF Grows
<1> QED
  BY <1>10, <1>15, <1>16, <1>17 DEF GraphInv, s, c, d

LEMMA GraphEndBody ==
  ASSUME ShapeInv, GraphInv, EndBody
  PROVE  GraphInv' /\ Grows(<<>>)
<1> DEFINE condition == Top.locals.condition
           before == Top.locals.last
           out == Top.locals.out
           from == (IF IsTerminated(insert) THEN <<>> ELSE <<insert>>)
                     \o (IF IsTerminated(before) THEN <<>> ELSE <<before>>)
           s == <<>>
<1>1. calls # <<>> /\ Top.at = "endBody"
  BY DEF EndBody, At
<1>2. /\ CallInv /\ ContextInv /\ BlockInv /\ OpenInv /\ TargetInv
      /\ created \in Nat \ {0} /\ created \in 0..N /\ N \in Nat
      /\ insert \in 1..created /\ insert \in Block
      /\ last \in [Block -> {"open", "br", "ret"}]
  BY <1>1, AtWork
<1>3. /\ Targets(Top) = {condition, out} /\ Pending(Top) = {before, out} /\ Top.at \in Loops
      /\ condition \in 2..created /\ out \in 2..created /\ before \in 1..created
      /\ pre[condition] = <<>> /\ condition # out /\ before # out
      /\ last[before] = "open" /\ before # insert /\ last[out] = "open" /\ out # insert
  BY <1>1, AtWork DEF Targets, Pending, Lists, Loops
<1>4. /\ AddEdges(from, <<condition>>)
      /\ last' = [b \in Block |-> IF b \in ToSet(from) THEN "br" ELSE last[b]]
      /\ insert' = out /\ created' = created
  BY DEF EndBody
<1>5. CallInv' /\ Steps(s) /\ Len(s) = 0
  BY <1>2, Frames, Pairs DEF ShapeInv
<1>6. before \in Block /\ condition \in Block /\ out \in Block
  BY <1>2, <1>3 DEF Block
<1>7. from = (IF last[insert] # "open" THEN <<>> ELSE <<insert>>) \o <<before>>
  BY <1>3 DEF IsTerminated
<1>8. from = IF last[insert] # "open" THEN <<before>> ELSE <<insert, before>>
  <2>1. <<>> \o <<before>> = <<before>>
    <3>1. <<before>> \in Seq(Block)
      BY <1>6
    <3> QED BY <3>1, ConcatEmptySeq
  <2>2. <<insert>> \o <<before>> = <<insert, before>>
    BY PairConcat
  <2> QED BY <1>7, <2>1, <2>2
<1> HIDE DEF from, s, condition, before, out
<1>9. /\ from \in Seq(Block) /\ Len(from) \in 1..2
      /\ ToSet(from) = (IF last[insert] # "open" THEN {before} ELSE {insert, before})
      /\ \A m, n \in 1..Len(from) : from[m] = from[n] => m = n
  <2>1. CASE last[insert] # "open"
    <3>1. from = <<before>>
      BY <1>8, <2>1
    <3>2. from \in Seq(Block)
      BY <1>6, <3>1
    <3>3. Len(from) = 1 /\ ToSet(from) = {before}
      BY <3>1, Pairs
    <3> QED BY <2>1, <3>2, <3>3
  <2>2. CASE last[insert] = "open"
    <3>1. from = <<insert, before>>
      BY <1>8, <2>2
    <3>2. from \in Seq(Block)
      BY <1>2, <1>6, <3>1
    <3>3. Len(from) = 2 /\ ToSet(from) = {insert, before}
      BY <3>1, ElementsOfPair
    <3>4. from[1] = insert /\ from[2] = before
      BY <3>1
    <3>5. \A m \in 1..Len(from) : m = 1 \/ m = 2
      BY <3>3
    <3> QED BY <1>3, <2>2, <3>2, <3>3, <3>4, <3>5
  <2> QED BY <2>1, <2>2
<1>10. /\ BlockInv'
       /\ \A b \in Block : b \notin ToSet(from) => succ'[b] = succ[b]
       /\ \A b \in Block : b \in ToSet(from) => ToSet(succ'[b]) = {condition}
       /\ \A b \in Block : b # condition => pre'[b] = pre[b]
  <2>1. \A b \in ToSet(from) : b <= created /\ last[b] = "open"
    BY <1>2, <1>3, <1>9
  <2>2. Len(pre[condition]) + Len(from) <= 2
    <3>1. Len(pre[condition]) = 0
      BY <1>3, Pairs
    <3> QED BY <1>9, <3>1
  <2>3. condition \in 2..created
    BY <1>3
  <2>4. \A m, n \in 1..Len(from) : from[m] = from[n] => m = n
    BY <1>9
  <2>5. from \in Seq(Block)
    BY <1>9
  <2>6. AddEdges(from, <<condition>>) /\ created' = created /\ last' = [b \in Block |-> IF b \in ToSet(from) THEN "br" ELSE last[b]]
    BY <1>4
  <2> QED BY <1>2, <2>1, <2>2, <2>3, <2>4, <2>5, <2>6, Join
<1>11. /\ \A b \in 1..created : b \notin Targets(Top) => pre'[b] = pre[b]
       /\ \A b \in 1..created : b \notin {insert, before} => last'[b] = last[b]
       /\ last'[out] = "open" /\ last'[before] = "br" /\ last'[insert] # "open"
       /\ created' \in Nat /\ created <= created' /\ created' \in 0..N /\ insert' \in 1..created'
  <2>1. \A b \in 1..created : b \in Block
    BY <1>2 DEF Block
  <2> QED BY <1>2, <1>3, <1>4, <1>6, <1>9, <1>10, <2>1
<1>12. TargetInv'
  BY <1>2, <1>5, <1>11, TargetStep
<1>13. OpenInv'
  <2> DEFINE t == {insert} \cup Pending(Top) \cup (created + 1)..created'
  <2>1. t = {insert, before, out}
    BY <1>2, <1>3, <1>4
  <2>2. insert' \in t /\ last'[insert'] = "open" /\ \A b \in 1..created : b \notin t => last'[b] = last[b]
    BY <1>4, <1>11, <2>1
  <2>3. \A b \in t : last'[b] = "open" => b = insert'
    BY <1>4, <1>11, <2>1
  <2>4. calls' # <<>>
    BY <1>1, <1>2, <1>5, StillRunning
  <2> HIDE DEF t
  <2>5. t = {insert} \cup Pending(Top) \cup (created + 1)..created'
    BY DEF t
  <2> QED BY <1>2, <1>5, <1>11, <2>2, <2>3, <2>4, <2>5, OpenStep
<1>14. Grows(s)
  <2>1. Due(condition) /\ insert' \in Targets(Top)
    BY <1>3, <1>4 DEF Due
  <2>2. insert \in Sources /\ before \in Sources
    BY <1>3 DEF Sources, before
  <2>3. ASSUME NEW p \in Block, NEW b \in ToSet(succ'[p]) PROVE b \in ToSet(succ[p]) \/ (p \in Sources /\ Due(b))
    BY <1>9, <1>10, <2>1, <2>2, <2>3
  <2> QED BY <1>5, <1>11, <2>1, <2>3 DEF Grows
<1> QED
  BY <1>10, <1>12, <1>13, <1>14 DEF GraphInv, s

LEMMA GraphSubscript ==
  ASSUME ShapeInv, GraphInv, EndSubscript
  PROVE  GraphInv' /\ Grows(<<>>)
<1> DEFINE rightBB == created + 1
           terminateBB == created + 2
           s == <<>>
<1>1. calls # <<>> /\ Top.at = "subscript"
  BY DEF EndSubscript, At
<1>2. /\ CallInv /\ ContextInv /\ BlockInv /\ OpenInv /\ TargetInv
      /\ created \in Nat \ {0} /\ created \in 0..N /\ N \in Nat
      /\ insert \in 1..created /\ insert \in Block
      /\ last \in [Block -> {"open", "br", "ret"}]
  BY <1>1, AtWork
<1>3. last[insert] = "open" /\ Targets(Top) = {} /\ Pending(Top) = {} /\ Top.at \notin Loops
  BY <1>1, AtWork, KnowsNone DEF Done, Loops
<1>4. /\ terminateBB <= N /\ created' = created + 2 /\ insert' = rightBB
      /\ AddEdges(<<insert>>, <<terminateBB, rightBB>>)
      /\ last' = [last EXCEPT ![insert] = "br", ![terminateBB] = "ret"]
  BY DEF EndSubscript
<1>5. CallInv' /\ Steps(s) /\ Len(s) = 0
  BY <1>2, Frames, Pairs DEF ShapeInv
<1>6. /\ rightBB \in created + 1..created' /\ terminateBB \in created + 1..created' /\ rightBB # terminateBB
      /\ created' \in Nat /\ created' \in 0..N /\ created <= created' /\ insert' \in 1..created'
      /\ created + 1..created' = {rightBB, terminateBB}
      /\ rightBB \in Block /\ terminateBB \in Block /\ rightBB > created /\ terminateBB > created /\ terminateBB <= created'
  BY <1>2, <1>4 DEF Block
<1> HIDE DEF rightBB, terminateBB, s
<1>7. \A b \in 1..created : b \in Block /\ b # rightBB /\ b # terminateBB
  BY <1>2, <1>6 DEF Block
<1>8. last[terminateBB] = "open" /\ last[rightBB] = "open"
  BY <1>2, <1>6 DEF BlockInv
<1>9. /\ last' \in [Block -> {"open", "br", "ret"}] /\ last'[insert] = "br" /\ last'[terminateBB] = "ret"
      /\ \A b \in Block : b # insert /\ b # terminateBB => last'[b] = last[b]
  <2>1. insert # terminateBB
    BY <1>2, <1>7
  <2> QED BY <1>2, <1>4, <1>6, <2>1
<1>10. /\ BlockInv'
       /\ \A b \in Block : b # insert => succ'[b] = succ[b]
       /\ ToSet(succ'[insert]) = {terminateBB, rightBB}
       /\ \A b \in Block : b \notin {terminateBB, rightBB} => pre'[b] = pre[b]
  <2>1. \A b \in Block : b # insert => last'[b] = last[b] \/ (last[b] = "open" /\ last'[b] = "ret" /\ b <= created')
    BY <1>6, <1>8, <1>9
  <2>2. /\ rightBB \in (created + 1)..created' /\ terminateBB \in (created + 1)..created' /\ terminateBB # rightBB
        /\ created' \in 0..N /\ created <= created' /\ last[insert] = "open"
        /\ AddEdges(<<insert>>, <<terminateBB, rightBB>>)
        /\ last' \in [Block -> {"open", "br", "ret"}] /\ last'[insert] = "br"
    BY <1>3, <1>4, <1>6, <1>9
  <2>3. /\ BlockInv'
        /\ \A b \in Block : b # insert => succ'[b] = succ[b]
        /\ ToSet(succ'[insert]) = {terminateBB, rightBB}
        /\ \A b \in Block : b \notin {terminateBB, rightBB} => pre'[b] = pre[b]
        /\ Len(pre'[terminateBB]) = 1 /\ Len(pre'[rightBB]) = 1
    BY <1>2, <2>1, <2>2, Fork
  <2> QED BY <2>3
<1>11. TargetInv'
  <2>1. \A b \in 1..created : pre'[b] = pre[b]
    BY <1>7, <1>10
  <2> QED BY <1>2, <1>5, <1>6, <2>1, TargetStep
<1>12. OpenInv'
  <2> DEFINE t == {insert} \cup Pending(Top) \cup (created + 1)..created'
  <2>1. t = {insert, rightBB, terminateBB}
    BY <1>3, <1>6
  <2>2. last'[rightBB] = "open"
    BY <1>2, <1>6, <1>7, <1>8, <1>9
  <2>3. insert' \in t /\ last'[insert'] = "open" /\ \A b \in 1..created : b \notin t => last'[b] = last[b]
    BY <1>4, <1>7, <1>9, <2>1, <2>2
  <2>4. \A b \in t : last'[b] = "open" => b = insert'
    BY <1>4, <1>9, <2>1
  <2>5. calls' # <<>>
    BY <1>1, <1>2, <1>5, StillRunning
  <2> HIDE DEF t
  <2>6. t = {insert} \cup Pending(Top) \cup (created + 1)..created'
    BY DEF t
  <2> QED BY <1>2, <1>5, <1>6, <2>3, <2>4, <2>5, <2>6, OpenStep
<1>13. Grows(s)
  <2>1. Due(rightBB) /\ Due(terminateBB)
    BY <1>6 DEF Due
  <2>2. insert \in Sources /\ insert' > created /\ insert' <= created'
    BY <1>3, <1>4, <1>6 DEF Sources
  <2>3. ASSUME NEW p \in Block, NEW b \in ToSet(succ'[p]) PROVE b \in ToSet(succ[p]) \/ (p \in Sources /\ Due(b))
    BY <1>10, <2>1, <2>2, <2>3
  <2> QED BY <1>5, <1>6, <2>2, <2>3 DEF Grows
<1> QED
  BY <1>10, <1>11, <1>12, <1>13 DEF GraphInv, s

LEMMA GraphReturn ==
  ASSUME ShapeInv, GraphInv, EndReturn
  PROVE  GraphInv' /\ Grows(<<>>)
<1> DEFINE s == <<>>
<1>1. calls # <<>> /\ Top.at = "return"
  BY DEF EndReturn, At
<1>2. /\ CallInv /\ ContextInv /\ BlockInv /\ OpenInv /\ TargetInv
      /\ created \in Nat \ {0} /\ created \in 0..N /\ N \in Nat
      /\ insert \in 1..created /\ insert \in Block
      /\ last \in [Block -> {"open", "br", "ret"}]
  BY <1>1, AtWork
<1>3. last[insert] = "open" /\ Targets(Top) = {} /\ Pending(Top) = {} /\ Top.at \notin Loops
  BY <1>1, AtWork, KnowsNone DEF Done, Loops
<1>4. UNCHANGED <<created, succ, pre, insert>> /\ last' = [last EXCEPT ![insert] = "ret"]
  BY DEF EndReturn
<1>5. CallInv' /\ Steps(s) /\ Len(s) = 0
  BY <1>2, Frames, Pairs DEF ShapeInv
<1> HIDE DEF s
<1>6. last' \in [Block -> {"open", "br", "ret"}] /\ last'[insert] = "ret" /\ \A b \in Block : b # insert => last'[b] = last[b]
  BY <1>2, <1>4
<1>7. BlockInv'
  <2>1. \A b \in Block : last'[b] = "br" <=> succ'[b] # <<>>
    BY <1>2, <1>3, <1>4, <1>6 DEF BlockInv
  <2>2. \A b \in Block : b > created' => last'[b] = "open"
    <3>1. ~ (insert > created)
      BY <1>2
    <3> QED BY <1>2, <1>4, <1>6, <3>1 DEF BlockInv
  <2> QED BY <1>2, <1>4, <1>6, <2>1, <2>2 DEF BlockInv
<1>8. created' \in Nat /\ created' \in 0..N /\ created <= created' /\ insert' \in 1..created' /\ \A b \in 1..created : b \in Block
  BY <1>2, <1>4 DEF Block
<1>9. TargetInv'
  <2>1. \A b \in 1..created : pre'[b] = pre[b]
    BY <1>4
  <2> QED BY <1>2, <1>5, <1>8, <2>1, TargetStep
<1>10. calls' # <<>> /\ Top'.at \in Done
  <2>1. calls' # <<>> /\ Len(calls) > 1
    BY <1>1, <1>2, <1>5, StillRunning
  <2>2. calls[Len(calls) - 1].at \in Done
    BY <1>1, <1>2, <2>1, Caller DEF Expressions, Operators
  <2>3. /\ Len(calls) \in Nat /\ Len(calls') = Len(calls) - 1 /\ Top' = calls'[Len(calls')]
        /\ \A k \in 1..Len(calls) - 1 : calls'[k] = calls[k]
    BY <1>2, <1>5, After
  <2>4. Top' = calls[Len(calls) - 1]
    BY <2>1, <2>3
  <2> QED BY <2>1, <2>2, <2>4
<1>11. OpenInv'
  <2> DEFINE t == {insert} \cup Pending(Top) \cup (created + 1)..created'
  <2>1. t = {insert}
    BY <1>2, <1>3, <1>4
  <2>2. insert' \in t /\ \A b \in 1..created : b \notin t => last'[b] = last[b]
    BY <1>4, <1>6, <1>8, <2>1
  <2>3. \A b \in t : last'[b] # "open"
    BY <1>6, <2>1
  <2> HIDE DEF t
  <2>4. t = {insert} \cup Pending(Top) \cup (created + 1)..created'
    BY DEF t
  <2> QED BY <1>2, <1>5, <1>8, <1>10, <2>2, <2>3, <2>4, OpenStep
<1>12. Grows(s)
  BY <1>4, <1>5, <1>8 DEF Grows
<1> QED
  BY <1>7, <1>9, <1>11, <1>12 DEF GraphInv, s

LEMMA GraphEndFunction ==
  ASSUME ShapeInv, GraphInv, EndFunction
  PROVE  GraphInv' /\ Grows(<<>>) /\ Steps(<<>>)
<1> DEFINE s == <<>>
<1>1. calls # <<>> /\ Top.at = "endFunction"
  BY DEF EndFunction, At
<1>2. /\ CallInv /\ ContextInv /\ BlockInv /\ OpenInv /\ TargetInv
      /\ created \in Nat \ {0} /\ created \in 0..N /\ N \in Nat
      /\ insert \in 1..created /\ insert \in Block
      /\ last \in [Block -> {"open", "br", "ret"}]
  BY <1>1, AtWork
<1>3. Targets(Top) = {} /\ Pending(Top) = {} /\ Top.at \notin Loops
  BY <1>1, KnowsNone DEF Loops
<1>4. UNCHANGED <<created, succ, pre, insert>> /\ last' = [last EXCEPT ![insert] = IF @ = "open" THEN "ret" ELSE @]
  BY DEF EndFunction
<1>5. CallInv' /\ Steps(s) /\ Len(s) = 0
  BY <1>2, Frames, Pairs DEF ShapeInv
<1>6. calls' = <<>>
  BY ShapeEndFunction
<1> HIDE DEF s
<1>7. /\ last' \in [Block -> {"open", "br", "ret"}] /\ last'[insert] = (IF last[insert] = "open" THEN "ret" ELSE last[insert])
      /\ \A b \in Block : b # insert => last'[b] = last[b]
  BY <1>2, <1>4
<1>8. BlockInv'
  <2>1. \A b \in Block : last'[b] = "br" <=> succ'[b] # <<>>
    <3>1. \A b \in Block : last'[b] = "br" <=> last[b] = "br"
      BY <1>2, <1>7
    <3> QED BY <1>2, <1>4, <3>1 DEF BlockInv
  <2>2. \A b \in Block : b > created' => last'[b] = "open"
    <3>1. ~ (insert > created)
      BY <1>2
    <3> QED BY <1>2, <1>4, <1>7, <3>1 DEF BlockInv
  <2> QED BY <1>2, <1>4, <1>7, <2>1, <2>2 DEF BlockInv
<1>9. created' \in Nat /\ created' \in 0..N /\ created <= created' /\ \A b \in 1..created : b \in Block
  BY <1>2, <1>4 DEF Block
<1>10. TargetInv'
  <2>1. \A b \in 1..created : pre'[b] = pre[b]
    BY <1>4
  <2> QED BY <1>2, <1>5, <1>9, <2>1, TargetStep
<1>11. OpenInv'
  <2> DEFINE t == {insert} \cup Pending(Top) \cup (created + 1)..created'
  <2>1. t = {insert}
    BY <1>2, <1>3, <1>4
  <2>2. insert' \in t /\ \A b \in 1..created : b \notin t => last'[b] = last[b]
    BY <1>4, <1>7, <1>9, <2>1
  <2>3. \A b \in t : last'[b] # "open"
    BY <1>7, <2>1
  <2> HIDE DEF t
  <2>4. t = {insert} \cup Pending(Top) \cup (created + 1)..created'
    BY DEF t
  <2> QED BY <1>2, <1>5, <1>6, <1>9, <2>2, <2>3, <2>4, OpenStep
<1>12. Grows(s)
  BY <1>4, <1>5, <1>9 DEF Grows
<1> QED
  BY <1>5, <1>8, <1>10, <1>11, <1>12 DEF GraphInv, s

\* A function begins with an empty entry block.
LEMMA EmptyGraph ==
  ASSUME created = 0, last = [b \in Block |-> "open"], succ = [b \in Block |-> <<>>], pre = succ
  PROVE  BlockInv
<1>1. last \in [Block -> {"open", "br", "ret"}] /\ \A b \in Block : last[b] = "open"
  OBVIOUS
<1>2. \A b \in Block : succ[b] = <<>> /\ pre[b] = <<>>
  OBVIOUS
<1>3. succ \in [Block -> Seq(Block)] /\ pre \in [Block -> Seq(Block)]
  OBVIOUS
<1>4. Entry \in Block
  BY NAssumption DEF Entry, Block
<1>5. Len(<<>>) = 0 /\ ToSet(<<>>) = {}
  BY Pairs
<1>6. \A b, c \in Block : Times(succ[b], c) = Times(pre[c], b)
  BY <1>2, TimesEmpty
<1>7. \A b \in Block : Len(succ[b]) <= 2 /\ Len(pre[b]) <= 2 /\ ToSet(succ[b]) \subseteq 2..created
  BY <1>2, <1>5
<1>8. \A b \in Block : last[b] = "br" <=> succ[b] # <<>>
  BY <1>1, <1>2
<1> QED
  BY <1>1, <1>2, <1>3, <1>4, <1>6, <1>7, <1>8 DEF BlockInv

LEMMA GraphInit == Init => GraphInv
<1> SUFFICES ASSUME Init PROVE GraphInv
  OBVIOUS
<1>1. created = 0 /\ last = [b \in Block |-> "open"] /\ succ = [b \in Block |-> <<>>] /\ pre = succ /\ calls = <<>>
  BY DEF Init
<1>2. BlockInv
  BY <1>1, EmptyGraph
<1>3. Len(calls) = 0
  BY <1>1, Pairs
<1>4. OpenInv /\ TargetInv
  BY <1>1, <1>3 DEF OpenInv, TargetInv
<1> QED
  BY <1>2, <1>4 DEF GraphInv

LEMMA GraphBeginFunction ==
  ASSUME ShapeInv, BeginFunction
  PROVE  GraphInv'
<1>1. /\ created' = 1 /\ last' = [b \in Block |-> "open"] /\ succ' = [b \in Block |-> <<>>] /\ pre' = succ' /\ insert' = 1
  BY DEF BeginFunction, Entry
<1>2. Len(calls') = 2 /\ calls'[1].at = "endFunction" /\ calls'[2].at = "compound" /\ ShapeInv'
  BY ShapeBeginFunction
<1>3. BlockInv'
  <2>1. last' \in [Block -> {"open", "br", "ret"}] /\ \A b \in Block : last'[b] = "open"
    BY <1>1
  <2>2. \A b \in Block : succ'[b] = <<>> /\ pre'[b] = <<>>
    BY <1>1
  <2>3. succ' \in [Block -> Seq(Block)] /\ pre' \in [Block -> Seq(Block)]
    BY <1>1
  <2>4. Entry \in Block
    BY NAssumption DEF Entry, Block
  <2>5. Len(<<>>) = 0 /\ ToSet(<<>>) = {}
    BY Pairs
  <2>6. \A b, c \in Block : Times(succ'[b], c) = Times(pre'[c], b)
    BY <2>2, TimesEmpty
  <2>7. \A b \in Block : Len(succ'[b]) <= 2 /\ Len(pre'[b]) <= 2 /\ ToSet(succ'[b]) \subseteq 2..created'
    BY <2>2, <2>5
  <2>8. \A b \in Block : last'[b] = "br" <=> succ'[b] # <<>>
    BY <2>1, <2>2
  <2> QED BY <2>1, <2>2, <2>3, <2>4, <2>6, <2>7, <2>8 DEF BlockInv
<1>4. \A k \in 1..Len(calls') : calls'[k].at \notin {"endArm"} \cup Loops
  <2>1. \A k \in 1..Len(calls') : k = 1 \/ k = 2
    BY <1>2
  <2> QED BY <1>2, <2>1 DEF Loops
<1>5. \A k \in 1..Len(calls') : Targets(calls'[k]) = {} /\ Pending(calls'[k]) = {} /\ Lists(pre', calls'[k])
  BY <1>4, KnowsNone
<1>6. 1 \in Block
  BY NAssumption DEF Block
<1>7. OpenInv'
  <2>1. calls' # <<>> /\ insert' \in 1..created' /\ last'[insert'] = "open" /\ \A b \in 1..created' : b = insert'
    <3>1. calls' # <<>>
      BY <1>2, Pairs
    <3> QED BY <1>1, <1>6, <3>1
  <2> QED BY <1>5, <2>1 DEF OpenInv
<1>8. TargetInv'
  BY <1>5 DEF TargetInv
<1> QED
  BY <1>3, <1>7, <1>8 DEF GraphInv

\* The rest of the actions leave the blocks alone.
Growth == GraphInv' /\ \E s : Len(s) \in 0..2 /\ Steps(s) /\ Grows(s)

LEMMA GraphQuietActions ==
  ASSUME ShapeInv, GraphInv
  PROVE  /\ BeginCompound \/ BeginStatements \/ NextStatement \/ EndCompound \/ Statement => Growth
         /\ BeginAssign \/ AssignTarget \/ BeginBinary \/ RightOperand \/ EndBinary \/ BeginCall \/ EndCall => Growth
         /\ \A v \in Locals : Declare(v) => Growth
         /\ \A t \in {"int", "float"} : Num(t) => Growth
         /\ \A v \in Scalar : ScalarVar(v) => Growth
         /\ \A v \in Array : BeginSubscript(v) => Growth
<1>1. CallInv /\ ContextInv
  BY DEF ShapeInv
<1>2. AfterAlloca = insert
  BY <1>1 DEF ContextInv, AfterAlloca
<1>3. \A p : At(p) => Top.at = p /\ calls # <<>>
  BY DEF At
<1> DEFINE Quiet == UNCHANGED cfg /\ insert' = insert /\ CallInv'
           Plain(p) == p \notin {"endArm"} \cup Loops
<1>4. ASSUME Quiet, Steps(<<>>), Top.at # "endFunction", Plain(Top.at)
      PROVE  Growth
  <2> DEFINE s == <<>>
  <2>1. Len(s) = 0 /\ Steps(s) /\ 1..Len(s) = {}
    BY <1>4, Pairs
  <2> HIDE DEF s
  <2>2. GraphInv' /\ Grows(s)
    BY <1>4, <2>1, GraphQuiet
  <2> QED BY <2>1, <2>2 DEF Growth
<1>5. ASSUME NEW c, Quiet, Steps(<<c>>), Top.at # "endFunction", Plain(Top.at), Plain(c.at), c.at # "subscript",
             Top.at \notin Done \/ c.at \in Done
      PROVE  Growth
  <2> DEFINE s == <<c>>
  <2>1. Len(s) = 1 /\ Steps(s) /\ s[1] = c
    BY <1>5, Pairs
  <2> HIDE DEF s
  <2>2. GraphInv' /\ Grows(s)
    <3>1. \A k \in 1..Len(s) : s[k] = c
      BY <2>1
    <3>2. Len(s) >= 1 => Top.at \notin Done \/ s[Len(s)].at \in Done
      BY <1>5, <2>1
    <3>3. ~ (Len(s) >= 1 /\ s[1].at = "subscript")
      BY <1>5, <2>1
    <3> QED BY <1>5, <2>1, <3>1, <3>2, <3>3, GraphQuiet
  <2> QED BY <2>1, <2>2 DEF Growth
<1>6. ASSUME NEW c, NEW d, Quiet, Steps(<<c, d>>), Top.at # "endFunction", Plain(Top.at), Plain(c.at), Plain(d.at),
             Top.at \notin Done \/ last[insert] = "open",
             c.at = "subscript" => Used(c.locals) /\ Top.at \in {"expr", "var"}, d.at # "subscript"
      PROVE  Growth
  <2> DEFINE s == <<c, d>>
  <2>1. Len(s) = 2 /\ Steps(s) /\ s[1] = c /\ s[2] = d
    BY <1>6, Pairs
  <2> HIDE DEF s
  <2>2. GraphInv' /\ Grows(s)
    <3>1. \A k \in 1..Len(s) : s[k] = c \/ s[k] = d
      BY <2>1
    <3> QED BY <1>6, <2>1, <3>1, GraphQuiet
  <2> QED BY <2>1, <2>2 DEF Growth
<1> DEFINE Plains == {"compound", "decls", "stmts", "stmt", "return", "if", "expr", "var"} \cup Operators
<1>7. /\ \A p \in Plains : p # "endFunction" /\ Plain(p)
      /\ \A p \in Plains \ {"stmts"} : p \notin Done
      /\ \A p, l : Call(p, l).at = p
  BY CallFields DEF Operators, Loops, Done
<1> HIDE DEF Plain
<1>8. ASSUME BeginCompound PROVE Growth
  <2>1. CallInv' /\ Steps(<<Call("decls", ~ is_entered)>>) /\ At("compound") /\ UNCHANGED <<cfg, insert>>
    BY <1>8, Frames DEF BeginCompound
  <2> QED BY <1>3, <1>5, <1>7, <2>1
<1>9. ASSUME BeginStatements PROVE Growth
  <2>1. CallInv' /\ Steps(<<Call("stmts", Top.locals)>>) /\ At("decls") /\ UNCHANGED <<cfg, insert>>
    BY <1>9, Frames DEF BeginStatements
  <2> QED BY <1>3, <1>5, <1>7, <2>1
<1>10. ASSUME NextStatement PROVE Growth
  <2>1. CallInv' /\ Steps(<<Top, Call("stmt", <<>>)>>) /\ At("stmts") /\ UNCHANGED <<cfg, insert>> /\ last[insert] = "open"
    BY <1>10, Frames DEF NextStatement, IsTerminated
  <2> QED BY <1>3, <1>6, <1>7, <2>1
<1>11. ASSUME EndCompound PROVE Growth
  <2>1. CallInv' /\ Steps(<<>>) /\ At("stmts") /\ UNCHANGED <<cfg, insert>>
    BY <1>11, Frames DEF EndCompound
  <2> QED BY <1>3, <1>4, <1>7, <2>1
<1>12. ASSUME Statement PROVE Growth
  <2>1. At("stmt") /\ UNCHANGED <<cfg, insert>> /\ CallInv'
    BY <1>12, Frames DEF Statement
  <2>2. Top.at = "stmt" /\ Quiet
    BY <1>3, <2>1
  <2>3. \/ \E at \in {"compound", "return", "expr"} : Steps(<<Call(at, <<>>)>>)
        \/ Steps(<<>>)
        \/ \E else \in BOOLEAN : Steps(<<Call("if", else), Call("expr", <<>>)>>)
        \/ Steps(<<Call("return", <<>>), Call("expr", <<>>)>>)
    BY <1>12, Frames
  <2>4. CASE \E at \in {"compound", "return", "expr"} : Steps(<<Call(at, <<>>)>>)
    <3>1. PICK at \in {"compound", "return", "expr"} : Steps(<<Call(at, <<>>)>>)
      BY <2>4
    <3> QED BY <1>5, <1>7, <2>2, <3>1
  <2>5. CASE Steps(<<>>)
    BY <1>4, <1>7, <2>2, <2>5
  <2>6. CASE \E else \in BOOLEAN : Steps(<<Call("if", else), Call("expr", <<>>)>>)
    <3>1. PICK else \in BOOLEAN : Steps(<<Call("if", else), Call("expr", <<>>)>>)
      BY <2>6
    <3> QED BY <1>6, <1>7, <2>2, <3>1
  <2>7. CASE Steps(<<Call("return", <<>>), Call("expr", <<>>)>>)
    BY <1>6, <1>7, <2>2, <2>7
  <2> QED BY <2>3, <2>4, <2>5, <2>6, <2>7
<1>13. ASSUME NEW p \in Operators, NEW l, Quiet, Top.at \in {"expr", "var"} \cup Operators,
              Steps(<<Call(p, l), Call("expr", <<>>)>>),
              p = "subscript" => Used(l) /\ Top.at \in {"expr", "var"}
       PROVE  Growth
  <2>1. Top.at \in Plains \ {"stmts"} /\ p \in Plains /\ "expr" \in Plains
    BY <1>13 DEF Operators
  <2>2. Call(p, l).at = p /\ Call("expr", <<>>).at = "expr"
    BY <1>7
  <2> HIDE DEF Plains, Quiet
  <2>3. Plain(Top.at) /\ Top.at # "endFunction" /\ Top.at \notin Done /\ Plain(Call(p, l).at) /\ Plain(Call("expr", <<>>).at)
    BY <1>7, <2>1, <2>2
  <2>4. Call(p, l).at = "subscript" => Used(Call(p, l).locals) /\ Top.at \in {"expr", "var"}
    BY <1>13, CallFields
  <2>5. Call("expr", <<>>).at # "subscript"
    BY <2>2
  <2> QED BY <1>6, <1>13, <2>3, <2>4, <2>5
<1>14. ASSUME BeginAssign PROVE Growth
  <2>1. CallInv' /\ Steps(<<Call("assign", <<>>), Call("expr", <<>>)>>) /\ At("expr") /\ UNCHANGED <<cfg, insert>>
    BY <1>14, Frames DEF BeginAssign
  <2> QED BY <1>3, <1>13, <2>1 DEF Operators
<1>15. ASSUME AssignTarget PROVE Growth
  <2>1. CallInv' /\ Steps(<<Call("var", <<>>)>>) /\ At("assign") /\ UNCHANGED <<cfg, insert>>
    BY <1>15, Frames DEF AssignTarget
  <2>2. Top.at \in Plains \ {"stmts"}
    BY <1>3, <2>1 DEF Operators
  <2>3. Plain(Top.at) /\ Top.at # "endFunction" /\ Top.at \notin Done
    BY <1>7, <2>2
  <2>4. Plain(Call("var", <<>>).at) /\ Call("var", <<>>).at # "subscript"
    BY <1>7
  <2> HIDE DEF Plains
  <2> QED BY <1>5, <2>1, <2>3, <2>4
<1>16. ASSUME BeginBinary PROVE Growth
  <2>1. CallInv' /\ Steps(<<Call("right", <<>>), Call("expr", <<>>)>>) /\ At("expr") /\ UNCHANGED <<cfg, insert>>
    BY <1>16, Frames DEF BeginBinary
  <2> QED BY <1>3, <1>13, <2>1 DEF Operators
<1>17. ASSUME RightOperand PROVE Growth
  <2>1. CallInv' /\ Steps(<<Call("combine", value), Call("expr", <<>>)>>) /\ At("right") /\ UNCHANGED <<cfg, insert>>
    BY <1>17, Frames DEF RightOperand
  <2> QED BY <1>3, <1>13, <2>1 DEF Operators
<1>18. ASSUME BeginCall PROVE Growth
  <2>1. CallInv' /\ Steps(<<Call("call", <<>>), Call("expr", <<>>)>>) /\ At("expr") /\ UNCHANGED <<cfg, insert>>
    BY <1>18, Frames DEF BeginCall
  <2> QED BY <1>3, <1>13, <2>1 DEF Operators
<1>19. ASSUME EndBinary \/ EndCall PROVE Growth
  <2>1. CallInv' /\ Steps(<<>>) /\ UNCHANGED <<cfg, insert>>
    BY <1>19, Frames DEF EndBinary, EndCall
  <2>2. Top.at \in Plains
    BY <1>3, <1>19 DEF EndBinary, EndCall, Operators
  <2> QED BY <1>4, <1>7, <2>1, <2>2
<1>20. ASSUME NEW v \in Locals, Declare(v) PROVE Growth
  <2>1. At("decls") /\ insert' = insert /\ UNCHANGED cfg /\ calls' = calls
    BY <1>2, <1>20 DEF Declare
  <2>2. CallInv' /\ Steps(<<Top>>)
    BY <1>1, <1>3, <2>1, SameFrames
  <2> QED BY <1>3, <1>5, <1>7, <2>1, <2>2
<1>21. ASSUME NEW t \in {"int", "float"}, Num(t) PROVE Growth
  <2>1. At("expr") /\ insert' = insert /\ UNCHANGED cfg
    BY <1>2, <1>21 DEF Num
  <2>2. CallInv' /\ Steps(<<>>)
    BY <1>21, Frames
  <2> QED BY <1>3, <1>4, <1>7, <2>1, <2>2
<1>22. ASSUME NEW v \in Scalar, ScalarVar(v) PROVE Growth
  <2>1. (At("expr") \/ At("var")) /\ UNCHANGED <<cfg, insert>>
    BY <1>22 DEF ScalarVar
  <2>2. CallInv' /\ Steps(<<>>)
    BY <1>22, Frames
  <2> QED BY <1>3, <1>4, <1>7, <2>1, <2>2
<1>23. ASSUME NEW v \in Array, BeginSubscript(v) PROVE Growth
  <2>1. (At("expr") \/ At("var")) /\ UNCHANGED <<cfg, insert>>
    BY <1>23 DEF BeginSubscript
  <2>2. CallInv' /\ Steps(<<Call("subscript", Find(v)), Call("expr", <<>>)>>)
    BY <1>23, Frames
  <2>3. Used(Find(v))
    BY <1>23 DEF Used, BeginSubscript, Name
  <2> QED BY <1>3, <1>13, <2>1, <2>2, <2>3 DEF Operators
<1> QED
  BY <1>8, <1>9, <1>10, <1>11, <1>12, <1>14, <1>15, <1>16, <1>17, <1>18, <1>19, <1>20, <1>21, <1>22, <1>23

\* Every action but the first of a function.
LEMMA GraphActions ==
  ASSUME ShapeInv, GraphInv, Next
  PROVE  BeginFunction \/ Growth
<1>1. CallInv
  BY DEF ShapeInv
<1>2. ASSUME NEW s, Len(s) \in 0..2, Steps(s), GraphInv', Grows(s) PROVE Growth
  BY <1>2 DEF Growth
<1>3. \A c, d : Len(<<c, d>>) \in 0..2
  BY Pairs
<1>4. Len(<<>>) \in 0..2
  BY Pairs
<1>5. CASE BeginSelection
  BY <1>1, <1>2, <1>3, <1>5, BranchFrames, GraphSelection
<1>6. CASE EndArm
  BY <1>2, <1>3, <1>4, <1>6, GraphArm
<1>7. CASE BeginIteration
  BY <1>2, <1>3, <1>7, BranchFrames, GraphIteration
<1>8. CASE BeginBody
  BY <1>2, <1>3, <1>8, BranchFrames, GraphBody
<1>9. CASE EndBody
  BY <1>2, <1>4, <1>9, Frames, GraphEndBody
<1>10. CASE EndReturn
  BY <1>2, <1>4, <1>10, Frames, GraphReturn
<1>11. CASE EndSubscript
  BY <1>2, <1>4, <1>11, Frames, GraphSubscript
<1>12. CASE EndFunction
  BY <1>2, <1>4, <1>12, GraphEndFunction
<1> QED
  BY <1>5, <1>6, <1>7, <1>8, <1>9, <1>10, <1>11, <1>12, GraphQuietActions DEF Next

LEMMA GraphStep == ShapeInv /\ GraphInv /\ [Next]_vars => GraphInv'
<1> SUFFICES ASSUME ShapeInv, GraphInv, [Next]_vars PROVE GraphInv'
  OBVIOUS
<1>1. CASE BeginFunction
  BY <1>1, GraphBeginFunction
<1>2. CASE Next /\ ~ BeginFunction
  BY <1>2, GraphActions DEF Growth
<1>3. CASE UNCHANGED vars
  <2>1. UNCHANGED <<created, last, succ, pre, insert, calls>>
    BY <1>3 DEF vars, cfg
  <2>2. BlockInv'
    BY <2>1 DEF GraphInv, BlockInv
  <2>3. OpenInv'
    BY <2>1 DEF GraphInv, OpenInv, Top
  <2>4. TargetInv'
    BY <2>1 DEF GraphInv, TargetInv
  <2> QED BY <2>2, <2>3, <2>4 DEF GraphInv
<1> QED
  BY <1>1, <1>2, <1>3

LEMMA InvGraph == Spec => [](ShapeInv /\ GraphInv)
<1>1. Init => ShapeInv /\ GraphInv
  BY ShapeInit, GraphInit
<1>2. ShapeInv /\ GraphInv /\ [Next]_vars => (ShapeInv /\ GraphInv)'
  BY ShapeStep, GraphStep
<1> QED
  BY <1>1, <1>2, PTL DEF Spec

\* The assertion of BasicBlock::add_instruction never fails: where a visitor may insert
\* an instruction or an alloca the block is open, and the builder is where it was after
\* an alloca (the visitors of cminusf_builder.cpp).
THEOREM NoInsertionPastTerminator == Spec => []NeverPastTerminator
<1>1. ShapeInv /\ GraphInv => NeverPastTerminator
  <2> SUFFICES ASSUME ShapeInv, GraphInv, calls # <<>>, Top.at \notin Done
               PROVE  last[insert] = "open" /\ last[Home] = "open" /\ AfterAlloca = insert
    BY DEF NeverPastTerminator, Done, IsTerminated
  <2>1. CallInv /\ ContextInv /\ OpenInv
    BY DEF ShapeInv, GraphInv
  <2>2. last[insert] = "open" /\ AfterAlloca = insert
    BY <2>1 DEF OpenInv, AfterAlloca, ContextInv
  <2>3. last[Home] = "open"
    <3>1. CASE ~ in_loop
      BY <2>2, <3>1 DEF Home
    <3>2. CASE in_loop
      <4>1. PICK k \in 1..Len(calls) : calls[k].at \in Loops /\ outBB = calls[k].locals.last
        BY <2>1, <3>2 DEF ContextInv
      <4>2. outBB \in Pending(calls[k])
        BY <4>1 DEF Pending, Loops
      <4> QED BY <2>1, <3>2, <4>2 DEF OpenInv, Home
    <3> QED BY <3>1, <3>2
  <2> QED BY <2>2, <2>3
<1> QED
  BY <1>1, InvGraph, PTL

\* The watched use becomes one where control is.
LEMMA Uses ==
  ASSUME ShapeInv, GraphInv, Next, ~ BeginFunction
  PROVE  /\ calls # <<>>
         /\ \/ watched' = watched
            \/ /\ Top.at \in {"expr", "var", "subscript"}
               /\ \E home \in Block : Used(home) /\ home # insert' /\ insert' \in Block /\ watched' = <<home, insert'>>
<1>1. CallInv /\ ContextInv /\ OpenInv
  BY DEF ShapeInv, GraphInv
<1>2. AfterAlloca = insert
  BY <1>1 DEF ContextInv, AfterAlloca
<1>3. \A p : At(p) => Top.at = p /\ calls # <<>>
  BY DEF At
<1> DEFINE Goal == /\ calls # <<>>
                   /\ \/ watched' = watched
                      \/ /\ Top.at \in {"expr", "var", "subscript"}
                         /\ \E home \in Block : Used(home) /\ home # insert' /\ insert' \in Block /\ watched' = <<home, insert'>>
<1>4. ASSUME calls # <<>> PROVE Home \in Block /\ insert \in Block
  <2>1. insert \in Block
    BY <1>1, <1>4, NAssumption DEF ContextInv, Block
  <2>2. CASE ~ in_loop
    BY <2>1, <2>2 DEF Home
  <2>3. CASE in_loop
    <3>1. PICK k \in 1..Len(calls) : calls[k].at \in Loops /\ outBB = calls[k].locals.last
      BY <1>1, <2>3 DEF ContextInv
    <3>2. outBB \in Pending(calls[k])
      BY <3>1 DEF Pending, Loops
    <3>3. outBB \in 1..created /\ created \in 0..N
      BY <1>1, <3>2 DEF OpenInv, ContextInv
    <3> QED BY <2>1, <2>3, <3>3, NAssumption DEF Home, Block
  <2> QED BY <2>1, <2>2, <2>3
<1>5. ASSUME NEW home \in Block, Used(home), Use(home, insert'), insert' \in Block, calls # <<>>,
             Top.at \in {"expr", "var", "subscript"}
      PROVE  Goal
  BY <1>5 DEF Use
<1>6. ASSUME NEW t \in {"int", "float"}, Num(t) PROVE Goal
  <2>1. Use(Home, insert) /\ insert' = insert /\ calls # <<>> /\ Top.at = "expr"
    BY <1>2, <1>3, <1>6 DEF Num
  <2>2. Home \in Block /\ insert \in Block /\ Used(Home)
    BY <1>4, <2>1 DEF Used
  <2> QED BY <1>5, <2>1, <2>2
<1>7. ASSUME NEW v \in Scalar, ScalarVar(v) PROVE Goal
  <2>1. Use(Find(v), insert) /\ insert' = insert /\ calls # <<>> /\ IsBound(v) /\ v \in Name /\ Top.at \in {"expr", "var"}
    BY <1>3, <1>7 DEF ScalarVar, Name
  <2>2. Find(v) \in Block /\ Used(Find(v))
    BY <1>1, <2>1, FindBinding DEF Used
  <2> QED BY <1>4, <1>5, <2>1, <2>2
<1>8. ASSUME EndSubscript PROVE Goal
  <2>1. Use(Top.locals, created + 1) /\ insert' = created + 1 /\ created + 2 <= N /\ calls # <<>> /\ Top.at = "subscript"
    BY <1>3, <1>8 DEF EndSubscript
  <2>2. Top.locals \in Block /\ Used(Top.locals)
    BY <1>1, <2>1, TopInPlace DEF Used, Local
  <2>3. created + 1 \in Block
    BY <1>1, <2>1, NAssumption DEF ContextInv, Block
  <2> QED BY <1>5, <2>1, <2>2, <2>3
<1>9. CASE EndFunction \/ BeginCompound \/ BeginStatements \/ NextStatement \/ EndCompound \/ Statement \/ BeginSelection
  BY <1>3, <1>9 DEF EndFunction, BeginCompound, BeginStatements, NextStatement, EndCompound, Statement, BeginSelection
<1>10. CASE EndArm \/ BeginIteration \/ BeginBody \/ EndBody \/ EndReturn \/ BeginAssign \/ AssignTarget
  BY <1>3, <1>10 DEF EndArm, BeginIteration, BeginBody, EndBody, EndReturn, BeginAssign, AssignTarget
<1>11. CASE BeginBinary \/ RightOperand \/ EndBinary \/ BeginCall \/ EndCall
  BY <1>3, <1>11 DEF BeginBinary, RightOperand, EndBinary, BeginCall, EndCall
<1>12. CASE (\E v \in Locals : Declare(v)) \/ (\E v \in Array : BeginSubscript(v))
  BY <1>3, <1>12 DEF Declare, BeginSubscript
<1> HIDE DEF Goal
<1>13. Goal
  BY <1>6, <1>7, <1>8, <1>9, <1>10, <1>11, <1>12 DEF Next, Goal
<1> QED
  BY <1>13 DEF Goal

WatchedInv == watched \in (0..N) \X (0..N)

LEMMA WatchedStep == ShapeInv /\ GraphInv /\ WatchedInv /\ [Next]_vars => WatchedInv'
<1> SUFFICES ASSUME ShapeInv, GraphInv, WatchedInv, [Next]_vars PROVE WatchedInv'
  OBVIOUS
<1>1. NoUse \in (0..N) \X (0..N) /\ Block \subseteq 0..N
  BY NAssumption DEF NoUse, NoBlock, Block
<1>2. CASE BeginFunction
  BY <1>1, <1>2 DEF BeginFunction, WatchedInv
<1>3. CASE Next /\ ~ BeginFunction
  <2>1. \/ watched' = watched
        \/ \E home \in Block : insert' \in Block /\ watched' = <<home, insert'>>
    BY <1>3, Uses
  <2>2. \A a, b \in Block : <<a, b>> \in (0..N) \X (0..N)
    BY <1>1
  <2> QED BY <2>1, <2>2 DEF WatchedInv
<1>4. CASE UNCHANGED vars
  BY <1>4 DEF vars, WatchedInv
<1> QED
  BY <1>2, <1>3, <1>4

\* Every finished function is well formed: terminators match successors, the lists of
\* the blocks mirror each other, nothing branches to the entry and no block has more
\* than two predecessors (BranchInst's constructor, CodeGen.cpp:544).
THEOREM FunctionsWellFormed == Spec => []FunctionWellFormed
<1>1. ShapeInv /\ GraphInv /\ WatchedInv => FunctionWellFormed
  <2> SUFFICES ASSUME ShapeInv, GraphInv, WatchedInv PROVE FunctionWellFormed
    OBVIOUS
  <2>1. CallInv /\ ContextInv /\ BlockInv /\ OpenInv
    BY DEF ShapeInv, GraphInv
  <2>2. TypeOK
    <3>1. \A b \in Block : Succs(succ, b) \subseteq 1..created /\ Len(succ[b]) <= 2
      <4>1. \A b \in Block : Succs(succ, b) = ToSet(succ[b])
        BY DEF Succs, ToSet
      <4>2. 2..created \subseteq 1..created
        OBVIOUS
      <4> QED BY <2>1, <4>1, <4>2 DEF BlockInv
    <3>2. \A n \in DOMAIN inner : inner[n] \in [Name -> 0..N]
      <4>1. DOMAIN inner = 1..Len(inner)
        BY <2>1, LenProperties DEF ContextInv
      <4> QED BY <2>1, <4>1, ElementOfSeq DEF ContextInv
    <3> QED BY <2>1, <3>1, <3>2 DEF TypeOK, ContextInv, BlockInv, CallInv, WatchedInv
  <2>3. ASSUME calls = <<>>, created > 0
        PROVE  /\ \A b \in 1..created : last[b] = (IF succ[b] = <<>> THEN "ret" ELSE "br")
               /\ \A b \in 1..created : Len(pre[b]) <= 2
               /\ \A b, c \in 1..created : Times(succ[b], c) = Times(pre[c], b)
               /\ pre[Entry] = <<>>
    <3>1. Len(calls) = 0
      BY <2>3, Pairs
    <3>2. \A b \in 1..created : b \in Block
      BY <2>1, NAssumption DEF ContextInv, Block
    <3>3. \A b \in 1..created : last[b] # "open" /\ last[b] \in {"open", "br", "ret"}
      BY <2>1, <2>3, <3>1, <3>2 DEF OpenInv, BlockInv
    <3>4. \A b \in 1..created : last[b] = (IF succ[b] = <<>> THEN "ret" ELSE "br")
      BY <2>1, <3>2, <3>3 DEF BlockInv
    <3> QED BY <2>1, <3>2, <3>4 DEF BlockInv
  <2> QED BY <2>2, <2>3 DEF FunctionWellFormed
<1>2. Init => WatchedInv
  BY NAssumption DEF Init, WatchedInv, NoUse, NoBlock
<1>3. ShapeInv /\ GraphInv /\ WatchedInv /\ [Next]_vars => (ShapeInv /\ GraphInv /\ WatchedInv)'
  BY ShapeStep, GraphStep, WatchedStep
<1> QED
  BY <1>1, <1>2, <1>3, ShapeInit, GraphInit, PTL DEF Spec

----------------------------------------------------------------------------
(* Regions: blocks that control enters from one block only. *)

Region(h, lo, hi) ==
  /\ h \in Block /\ lo \in Nat /\ lo >= 2 /\ hi \in Nat
  /\ \A p \in Block : \A b \in ToSet(succ[p]) : b >= lo /\ b <= hi => p = h \/ (p >= lo /\ p <= hi)

\* The region of h that the visitors above call m fill: they work in h and in it, and
\* those up to m branch elsewhere.
Live(h, lo, m) ==
  /\ Region(h, lo, created) /\ lo <= created + 1
  /\ m \in Nat /\ m < Len(calls)
  /\ insert = h \/ insert >= lo
  /\ \A k \in 1..Len(calls) : \A b \in Targets(calls[k]) : k > m <=> b >= lo
  /\ \A k \in 1..Len(calls) : k > m /\ calls[k].at \in Loops => calls[k].locals.last = h \/ calls[k].locals.last >= lo

\* A region that is finished: no visitor branches to it.
Closed(h, lo, hi) ==
  /\ Region(h, lo, hi) /\ hi <= created
  /\ \A k \in 1..Len(calls) : \A b \in Targets(calls[k]) : ~ (b >= lo /\ b <= hi)

\* h dominates whatever is inserted while the k-th visitor is in progress.
Held(h, k) == h = Entry \/ \E lo, m \in Nat : m < k /\ Live(h, lo, m)

\* Names are bound to homes that dominate what the visitors of their scope insert; so
\* does the block before a loop, where allocas in the loop go, and the home that a
\* subscript is of.  The watched home dominates its use.
Inside(h, b) ==
  \/ h = Entry
  \/ \E lo, m \in Nat : Live(h, lo, m) /\ b >= lo /\ b <= created
  \/ \E lo, hi \in Nat : Closed(h, lo, hi) /\ b >= lo /\ b <= hi

Bindings(own) ==
  \A n \in 2..Len(inner), v \in Name, home \in Block :
    own[n] \in 1..Len(calls) /\ inner[n][v] = home => Held(home, own[n])
Keeps(c, home) == \/ c.at \in Loops /\ c.locals.last = home
                  \/ c.at = "subscript" /\ c.locals = home
Kept == \A k \in 1..Len(calls), home \in Block : Keeps(calls[k], home) => Held(home, k)
Watched == watched # NoUse => \E home, b \in Block : watched = <<home, b>> /\ Inside(home, b)
DominanceInv(own) == Bindings(own) /\ Kept /\ Watched

\* What a region is after an action.
LEMMA LiveStep ==
  ASSUME ShapeInv, ShapeInv', GraphInv, NEW s, Steps(s), Grows(s), NEW h, NEW lo, NEW m, Live(h, lo, m),
         NEW hi, hi = created'
  PROVE  /\ m < Len(calls') => Live(h, lo, m)'
         /\ ~ (m < Len(calls')) => Closed(h, lo, hi)'
         /\ insert' = h \/ insert' >= lo
         /\ insert' \in Nat /\ insert' <= created'
<1> DEFINE n == Len(calls)
<1>1. /\ n \in Nat \ {0} /\ Len(calls') \in Nat /\ Len(calls') = n - 1 + Len(s) /\ Len(s) \in 0..2
      /\ \A k \in 1..Len(calls') :
           \/ k < n /\ calls'[k] = calls[k]
           \/ k = n /\ Len(s) >= 1 /\ calls'[k] = s[1]
           \/ k = n + 1 /\ Len(s) = 2 /\ calls'[k] = s[2]
      /\ Top = calls[n] /\ calls # <<>> /\ n \in 1..n
  BY After DEF ShapeInv
<1>2. /\ created \in Nat \ {0} /\ created \in 0..N /\ N \in Nat /\ insert \in 1..created /\ insert \in Block
      /\ Targets(Top) \subseteq 2..created /\ BlockInv
  BY <1>1, AtWork
<1>3. created' \in 0..N /\ created <= created' /\ created' \in Nat
  BY <1>2 DEF Grows
<1>4. lo \in Nat /\ lo >= 2 /\ lo <= created + 1 /\ h \in Block /\ m \in Nat /\ m < n
  BY DEF Live, Region
<1>5. \A b \in Targets(Top) : b >= lo /\ b \in Nat
  <2>1. TAKE b \in Targets(Top)
  <2>2. b \in Targets(calls[n]) /\ n \in 1..Len(calls) /\ n > m /\ b \in 2..created
    BY <1>1, <1>2, <1>4
  <2>3. b >= lo
    BY <2>2 DEF Live
  <2> QED BY <1>2, <2>2, <2>3
<1>6. \A b : Due(b) /\ b \in Nat => b >= lo /\ b <= created'
  BY <1>2, <1>3, <1>4, <1>5 DEF Due
<1>7. \A p \in Sources : p = h \/ (p >= lo /\ p <= created')
  <2>1. insert = h \/ (insert >= lo /\ insert <= created')
    BY <1>2, <1>3 DEF Live
  <2>2. CASE Top.at \in Loops
    <3>1. Top.locals.last = h \/ Top.locals.last >= lo
      BY <1>1, <1>4, <2>2 DEF Live
    <3>2. Top.locals.last \in Pending(Top)
      BY <2>2 DEF Pending, Loops
    <3>3. Top.locals.last \in 1..created
      BY <1>1, <3>2, AtWork
    <3> QED BY <1>2, <1>3, <2>1, <2>2, <3>1, <3>3 DEF Sources
  <2>3. CASE Top.at \notin Loops
    BY <2>1, <2>3 DEF Sources
  <2> QED BY <2>2, <2>3
<1>8. Region(h, lo, hi)'
  <2>1. ASSUME NEW p \in Block, NEW b \in ToSet(succ'[p]), b >= lo, b <= created'
        PROVE  p = h \/ (p >= lo /\ p <= created')
    <3>1. b \in ToSet(succ[p]) \/ p \in Sources
      BY <2>1 DEF Grows
    <3>2. CASE b \in ToSet(succ[p])
      <4>1. b \in 2..created
        BY <1>2, <3>2 DEF BlockInv
      <4>2. p = h \/ (p >= lo /\ p <= created)
        BY <2>1, <3>2, <4>1 DEF Live, Region
      <4> QED BY <1>2, <1>3, <4>2 DEF Block
    <3> QED BY <1>7, <3>1, <3>2
  <2> QED BY <1>3, <1>4, <2>1 DEF Region
<1>9. insert' \in Nat /\ insert' <= created' /\ (insert' = h \/ insert' >= lo)
  <2>1. CASE insert' = insert
    BY <1>2, <1>3, <2>1 DEF Live
  <2>2. CASE insert' \in Targets(Top)
    BY <1>2, <1>3, <1>5, <2>2
  <2>3. CASE insert' > created /\ insert' <= created'
    <3>1. insert' \in 0..N
      BY DEF ShapeInv, ContextInv
    <3> QED BY <1>2, <1>3, <1>4, <2>3, <3>1
  <2> QED BY <2>1, <2>2, <2>3 DEF Grows
<1>10. ASSUME NEW k \in 1..Len(calls'), NEW b \in Targets(calls'[k]) PROVE k > m <=> b >= lo
  <2>1. CASE k < n
    <3>1. calls'[k] = calls[k] /\ k \in 1..n
      BY <1>1, <2>1
    <3> QED BY <1>10, <3>1 DEF Live
  <2>2. CASE k = n
    <3>1. calls'[k] = s[1] /\ Len(s) >= 1
      BY <1>1, <2>2
    <3>2. Due(b)
      BY <1>10, <3>1 DEF Grows
    <3>3. b \in Nat
      <4>1. CASE b \in Targets(Top)
        BY <1>5, <4>1
      <4>2. CASE b \notin Targets(Top)
        <5>1. Local(calls'[k])
          BY <1>10 DEF ShapeInv, CallInv
        <5> QED BY <1>10, <5>1, NAssumption DEF Targets, Local, Block
      <4> QED BY <4>1, <4>2
    <3> QED BY <1>4, <1>6, <2>2, <3>2, <3>3
  <2>3. CASE k = n + 1
    <3>1. calls'[k] = s[2] /\ Len(s) = 2
      BY <1>1, <2>3
    <3> QED BY <1>10, <3>1 DEF Grows
  <2> QED BY <1>1, <2>1, <2>2, <2>3
<1>11. ASSUME NEW k \in 1..Len(calls'), k > m, calls'[k].at \in Loops
       PROVE  calls'[k].locals.last = h \/ calls'[k].locals.last >= lo
  <2>1. CASE k < n
    <3>1. calls'[k] = calls[k] /\ k \in 1..n
      BY <1>1, <2>1
    <3> QED BY <1>11, <3>1 DEF Live
  <2>2. CASE k = n
    <3>1. calls'[k] = s[1] /\ Len(s) >= 1
      BY <1>1, <2>2
    <3>2. s[1].locals.last \in Sources
      BY <1>11, <3>1 DEF Grows, Sources
    <3> QED BY <1>7, <3>1, <3>2
  <2>3. CASE k = n + 1
    <3>1. calls'[k] = s[2] /\ Len(s) = 2
      BY <1>1, <2>3
    <3> QED BY <1>11, <3>1 DEF Grows
  <2> QED BY <1>1, <2>1, <2>2, <2>3
<1>12. ASSUME m < Len(calls') PROVE Live(h, lo, m)'
  <2>1. lo <= created' + 1
    <3>1. created \in Nat /\ created' \in Nat /\ created <= created' /\ lo \in Nat /\ lo <= created + 1
      BY <1>2, <1>3, <1>4
    <3>2. \A x, y, l \in Nat : x <= y /\ l <= x + 1 => l <= y + 1
      OBVIOUS
    <3> QED BY <3>1, <3>2
  <2> QED BY <1>4, <1>8, <1>9, <1>10, <1>11, <1>12, <2>1 DEF Live
<1>13. ASSUME ~ (m < Len(calls')) PROVE Closed(h, lo, hi)'
  <2>1. \A k \in 1..Len(calls') : ~ (k > m)
    BY <1>1, <1>4, <1>13
  <2> QED BY <1>3, <1>8, <1>10, <2>1 DEF Closed
<1> QED
  BY <1>9, <1>12, <1>13

LEMMA ClosedStep ==
  ASSUME ShapeInv, ShapeInv', GraphInv, GraphInv', NEW s, Steps(s), Grows(s), NEW h, NEW lo, NEW hi, Closed(h, lo, hi)
  PROVE  Closed(h, lo, hi)'
<1> DEFINE n == Len(calls)
<1>1. /\ n \in Nat \ {0} /\ Len(calls') \in Nat /\ Len(calls') = n - 1 + Len(s) /\ Len(s) \in 0..2
      /\ \A k \in 1..Len(calls') :
           \/ k < n /\ calls'[k] = calls[k]
           \/ k = n /\ Len(s) >= 1 /\ calls'[k] = s[1]
           \/ k = n + 1 /\ Len(s) = 2 /\ calls'[k] = s[2]
      /\ Top = calls[n] /\ calls # <<>> /\ n \in 1..n
  BY After DEF ShapeInv
<1>2. created \in Nat /\ created' \in Nat /\ created <= created' /\ BlockInv
  BY <1>1, AtWork, NAssumption DEF Grows
<1>3. lo \in Nat /\ hi \in Nat /\ lo >= 2 /\ h \in Block /\ hi <= created
  BY DEF Closed, Region
<1>4. \A b \in Targets(Top) : ~ (b >= lo /\ b <= hi)
  BY <1>1 DEF Closed
<1>5. \A b \in Nat : Due(b) => ~ (b >= lo /\ b <= hi)
  BY <1>2, <1>3, <1>4 DEF Due
<1>6. Region(h, lo, hi)'
  <2>1. ASSUME NEW p \in Block, NEW b \in ToSet(succ'[p]), b >= lo, b <= hi PROVE p = h \/ (p >= lo /\ p <= hi)
    <3>1. CASE b \in ToSet(succ[p])
      BY <2>1, <3>1 DEF Closed, Region
    <3>2. CASE b \notin ToSet(succ[p])
      <4>1. Due(b)
        BY <2>1, <3>2 DEF Grows
      <4>2. b \notin Targets(Top) => b > created /\ b <= created'
        BY <4>1 DEF Due
      <4>3. b \in Targets(Top) => FALSE
        BY <1>4, <2>1
      <4>4. b > created
        BY <4>2, <4>3
      <4>5. b \in Nat
        <5>1. b \in 2..created'
          BY <2>1 DEF GraphInv, BlockInv
        <5> QED BY <1>2, <5>1
      <4> QED BY <1>2, <1>3, <2>1, <4>4, <4>5
    <3> QED BY <3>1, <3>2
  <2> QED BY <1>3, <2>1 DEF Region
<1>7. ASSUME NEW k \in 1..Len(calls'), NEW b \in Targets(calls'[k]) PROVE ~ (b >= lo /\ b <= hi)
  <2>1. CASE k < n
    <3>1. calls'[k] = calls[k] /\ k \in 1..n
      BY <1>1, <2>1
    <3> QED BY <1>7, <3>1 DEF Closed
  <2>2. CASE k = n
    <3>1. calls'[k] = s[1] /\ Len(s) >= 1
      BY <1>1, <2>2
    <3>2. Due(b)
      BY <1>7, <3>1 DEF Grows
    <3>3. CASE b \in Targets(Top)
      BY <1>4, <3>3
    <3>4. CASE b \notin Targets(Top)
      <4>1. Local(calls'[k])
        BY <1>7 DEF ShapeInv, CallInv
      <4>2. b \in Nat
        BY <1>7, <4>1, NAssumption DEF Targets, Local, Block
      <4> QED BY <1>5, <3>2, <4>2
    <3> QED BY <3>3, <3>4
  <2>3. CASE k = n + 1
    <3>1. calls'[k] = s[2] /\ Len(s) = 2
      BY <1>1, <2>3
    <3> QED BY <1>7, <3>1 DEF Grows
  <2> QED BY <1>1, <2>1, <2>2, <2>3
<1> QED
  BY <1>2, <1>3, <1>6, <1>7 DEF Closed

\* What dominates the insertions of a visitor still does after an action, while the
\* visitor is there; and it does for the visitors above.
LEMMA HeldMore == ASSUME NEW h, NEW j \in Nat, NEW k \in Nat, j <= k, Held(h, j) PROVE Held(h, k)
<1>1. CASE h = Entry
  BY <1>1 DEF Held
<1>2. CASE h # Entry
  <2>1. PICK lo, m \in Nat : m < j /\ Live(h, lo, m)
    BY <1>2 DEF Held
  <2>2. m < k
    BY <2>1
  <2> QED BY <2>1, <2>2 DEF Held
<1> QED
  BY <1>1, <1>2

LEMMA HeldStep ==
  ASSUME ShapeInv, ShapeInv', GraphInv, NEW s, Steps(s), Grows(s), NEW h, NEW k \in 1..Len(calls'), Held(h, k)
  PROVE  Held(h, k)'
<1>1. CASE h = Entry
  BY <1>1 DEF Held
<1>2. CASE h # Entry
  <2>1. PICK lo, m \in Nat : m < k /\ Live(h, lo, m)
    BY <1>2 DEF Held
  <2>2. m < Len(calls')
    <3>1. Len(calls') \in Nat
      BY After DEF ShapeInv
    <3> QED BY <2>1, <3>1
  <2>3. \E x : x = created'
    OBVIOUS
  <2>4. PICK x : x = created'
    BY <2>3
  <2>5. Live(h, lo, m)'
    BY <2>1, <2>2, <2>4, LiveStep
  <2> QED BY <2>1, <2>5 DEF Held
<1> QED
  BY <1>1, <1>2

\* The insert block dominates what a visitor inserts that has no block to branch to:
\* its region is empty as yet.
LEMMA Fresh ==
  ASSUME ShapeInv, GraphInv, calls # <<>>, Top.at \notin {"endArm"} \cup Loops, NEW n, n = Len(calls)
  PROVE  Held(insert, n)
<1>1. /\ n \in Nat \ {0} /\ n \in 1..n /\ Top = calls[n] /\ created \in Nat \ {0} /\ created \in 0..N
      /\ insert \in 1..created /\ insert \in Block /\ BlockInv
      /\ \A k \in 1..n : Targets(calls[k]) \subseteq 2..created
  BY AtWork, TopInPlace DEF TargetInv
<1>2. Targets(Top) = {}
  BY KnowsNone
<1> DEFINE lo == created + 1
           m == n - 1
<1>3. lo \in Nat /\ lo >= 2 /\ m \in Nat /\ m < n /\ lo <= created + 1
  BY <1>1
<1>4. \A b \in 2..created : ~ (b >= lo)
  BY <1>1
<1>5. \A k \in 1..n : k > m => k = n
  BY <1>1
<1> HIDE DEF lo, m
<1>6. Region(insert, lo, created)
  <2>1. \A p \in Block : \A b \in ToSet(succ[p]) : ~ (b >= lo /\ b <= created)
    BY <1>1, <1>4 DEF BlockInv
  <2> QED BY <1>1, <1>3, <2>1 DEF Region
<1>7. \A k \in 1..n : \A b \in Targets(calls[k]) : k > m <=> b >= lo
  BY <1>1, <1>2, <1>4, <1>5
<1>8. \A k \in 1..n : k > m => calls[k].at \notin Loops
  BY <1>1, <1>5
<1>9. Live(insert, lo, m)
  BY <1>3, <1>6, <1>7, <1>8 DEF Live
<1> QED
  BY <1>3, <1>9 DEF Held

\* The homes that a visitor may use an alloca of dominate what it inserts.
LEMMA UsedHeld ==
  ASSUME ShapeInv, GraphInv, NEW own, Owners(own), DominanceInv(own), calls # <<>>,
         Top.at \notin {"endFunction", "endArm"} \cup Loops, NEW home, Used(home), NEW n, n = Len(calls)
  PROVE  Held(home, n)
<1>1. n \in Nat \ {0} /\ n \in 1..n /\ Top = calls[n] /\ n # 1
  BY TopInPlace DEF ShapeInv
<1>2. CASE home = Home
  <2>1. CASE in_loop
    <3>1. PICK p \in 1..Len(calls) : calls[p].at \in Loops /\ outBB = calls[p].locals.last
      BY <2>1 DEF ShapeInv, ContextInv
    <3>2. home = calls[p].locals.last
      BY <1>2, <2>1, <3>1 DEF Home
    <3>3. home \in Block
      BY <3>1, <3>2 DEF ShapeInv, CallInv, Local, Loops
    <3>4. Held(home, p)
      BY <3>1, <3>2, <3>3 DEF DominanceInv, Kept, Keeps
    <3>5. p \in Nat /\ p <= n
      BY <1>1, <3>1
    <3> QED BY <1>1, <3>4, <3>5, HeldMore
  <2>2. CASE ~ in_loop
    <3>1. home = insert
      BY <1>2, <2>2 DEF Home
    <3>2. Held(insert, n)
      BY Fresh
    <3> QED BY <3>1, <3>2
  <2> QED BY <2>1, <2>2
<1>3. CASE \E v \in Name : IsBound(v) /\ home = Find(v)
  <2>1. PICK v \in Name : IsBound(v) /\ home = Find(v)
    BY <1>3
  <2>2. PICK i \in 2..Len(inner) : inner[i][v] # NoBlock /\ Find(v) = inner[i][v] /\ Find(v) \in Block
    BY <2>1, FindBinding DEF ShapeInv
  <2>3. i \in 1..Len(own) /\ own[2] = 2 /\ (i > 2 => own[i] \in 1..Len(calls))
    BY <2>2 DEF Owners
  <2>4. own[i] \in 1..n
    <3>1. CASE i = 2
      BY <1>1, <2>3, <3>1
    <3>2. CASE i # 2
      BY <2>2, <2>3, <3>2
    <3> QED BY <3>1, <3>2
  <2>5. Held(home, own[i])
    BY <2>1, <2>2, <2>4 DEF DominanceInv, Bindings
  <2>6. own[i] \in Nat /\ own[i] <= n
    BY <1>1, <2>4
  <2> QED BY <1>1, <2>5, <2>6, HeldMore
<1>4. CASE Top.at = "subscript" /\ home = Top.locals
  <2>1. home \in Block
    BY <1>1, <1>4 DEF ShapeInv, CallInv, Local
  <2> QED BY <1>1, <1>4, <2>1 DEF DominanceInv, Kept, Keeps
<1> QED
  BY <1>2, <1>3, <1>4 DEF Used

----------------------------------------------------------------------------
(* The parts of the invariant after an action. *)

LEMMA KeptStep ==
  ASSUME ShapeInv, ShapeInv', GraphInv, NEW own, Owners(own), DominanceInv(own), NEW s, Steps(s), Grows(s)
  PROVE  Kept'
<1> DEFINE n == Len(calls)
<1>1. /\ n \in Nat \ {0} /\ Len(calls') \in Nat /\ Len(calls') = n - 1 + Len(s) /\ Len(s) \in 0..2
      /\ \A k \in 1..Len(calls') :
           \/ k < n /\ calls'[k] = calls[k]
           \/ k = n /\ Len(s) >= 1 /\ calls'[k] = s[1]
           \/ k = n + 1 /\ Len(s) = 2 /\ calls'[k] = s[2]
      /\ Top = calls[n] /\ calls # <<>> /\ n \in 1..n
  BY After DEF ShapeInv
<1>2. ASSUME NEW k \in 1..Len(calls'), NEW x \in Block, Keeps(calls'[k], x) PROVE Held(x, k)'
  <2>1. CASE k < n
    <3>1. calls'[k] = calls[k] /\ k \in 1..n
      BY <1>1, <2>1
    <3>2. Held(x, k)
      BY <1>2, <3>1 DEF DominanceInv, Kept
    <3> QED BY <3>2, HeldStep
  <2>2. CASE k = n
    <3>1. calls'[k] = s[1] /\ Len(s) >= 1
      BY <1>1, <2>2
    <3>2. CASE s[1].at \in Loops
      <4>1. x = s[1].locals.last
        BY <1>2, <3>1, <3>2 DEF Keeps, Loops
      <4>2. CASE Top.at \in Loops
        <5>1. x = calls[n].locals.last
          BY <1>1, <3>1, <3>2, <4>1, <4>2 DEF Grows
        <5>2. Held(x, k)
          BY <1>1, <2>2, <4>2, <5>1 DEF DominanceInv, Kept, Keeps
        <5> QED BY <5>2, HeldStep
      <4>3. CASE Top.at \notin Loops
        <5>1. x = insert /\ Top.at \notin {"endArm"} \cup Loops
          BY <3>1, <3>2, <4>1, <4>3 DEF Grows
        <5>2. Held(insert, k)
          BY <1>1, <2>2, <5>1, Fresh
        <5>3. Held(x, k)
          BY <5>1, <5>2
        <5> QED BY <5>3, HeldStep
      <4> QED BY <4>2, <4>3
    <3>3. CASE s[1].at \notin Loops
      <4>1. s[1].at = "subscript" /\ x = s[1].locals
        BY <1>2, <3>1, <3>3 DEF Keeps
      <4>2. Used(x) /\ Top.at \in {"expr", "var"}
        BY <3>1, <4>1 DEF Grows
      <4>3. Held(x, k)
        BY <1>1, <2>2, <4>2, UsedHeld DEF Loops
      <4> QED BY <4>3, HeldStep
    <3> QED BY <3>2, <3>3
  <2>3. CASE k = n + 1
    <3>1. calls'[k] = s[2] /\ Len(s) = 2
      BY <1>1, <2>3
    <3>2. s[2].at \notin Loops \cup {"subscript"}
      BY <3>1 DEF Grows
    <3> QED BY <1>2, <3>1, <3>2 DEF Keeps
  <2> QED BY <1>1, <2>1, <2>2, <2>3
<1> QED
  BY <1>2 DEF Kept, Keeps

\* The visitor that leaves a scope is there, unless the function is finished.
LEMMA OwnerInProgress ==
  ASSUME ShapeInv, NEW own, Owners(own), calls # <<>>, Top.at # "endFunction", NEW n \in 2..Len(inner)
  PROVE  own[n] \in 1..Len(calls) /\ own[n] \in Nat
<1>1. Len(calls) \in Nat \ {0} /\ Len(calls) # 1
  BY TopInPlace DEF ShapeInv
<1>2. own[2] = 2 /\ n \in 1..Len(own) /\ n \in Nat
  BY DEF Owners
<1>3. CASE n = 2
  <2>1. 2 \in 1..Len(calls) /\ 2 \in Nat
    BY <1>1
  <2>2. own[n] = 2
    BY <1>2, <1>3
  <2> QED BY <2>1, <2>2
<1>4. CASE n # 2
  BY <1>2, <1>4 DEF Owners
<1> QED
  BY <1>3, <1>4

LEMMA BindingsStep ==
  ASSUME ShapeInv, ShapeInv', GraphInv, NEW s, Steps(s), Grows(s), NEW own,
         \A n \in 2..Len(inner'), v \in Name, home \in Block :
           own[n] \in 1..Len(calls') /\ inner'[n][v] = home => Held(home, own[n])
  PROVE  Bindings(own)'
<1>1. ASSUME NEW n \in 2..Len(inner'), NEW v \in Name, NEW home \in Block, own[n] \in 1..Len(calls'), inner'[n][v] = home
      PROVE  Held(home, own[n])'
  <2>1. Held(home, own[n])
    BY <1>1
  <2>2. PICK k : k = own[n]
    OBVIOUS
  <2>3. k \in 1..Len(calls') /\ Held(home, k)
    BY <1>1, <2>1, <2>2
  <2>4. Held(home, k)'
    BY <2>3, HeldStep
  <2> QED BY <2>2, <2>4
<1> QED
  BY <1>1 DEF Bindings

\* The innermost scope is left by the visitor that declares names in it.
LEMMA Innermost ==
  ASSUME ShapeInv, NEW own, Owners(own), calls # <<>>, Top.at = "decls", Len(inner) \in Nat, Len(inner) >= 2
  PROVE  own[Len(inner)] = Len(calls)
<1> DEFINE i == Len(inner)
           n == Len(calls)
<1>1. n \in Nat \ {0} /\ n \in 1..n /\ Top = calls[n] /\ n # 1
  BY TopInPlace DEF ShapeInv
<1>2. i \in 2..i /\ i \in 1..Len(own) /\ own[2] = 2 /\ 2 \in 1..Len(own)
  BY DEF Owners
<1>3. own[i] \in 1..n /\ own[i] \in Nat
  BY <1>2, OwnerInProgress
<1>4. CASE n = 2
  <2>1. CASE i = 2
    BY <1>2, <1>4, <2>1
  <2>2. CASE i # 2
    <3>1. 2 < i
      <4>1. \A x \in Nat : x >= 2 /\ x # 2 => 2 < x
        OBVIOUS
      <4> QED BY <2>2, <4>1
    <3>2. own[2] < own[i]
      BY <1>2, <3>1 DEF Owners
    <3> QED BY <1>2, <1>3, <1>4, <3>2
  <2> QED BY <2>1, <2>2
<1>5. CASE n # 2
  <2>1. Enters(calls[n])
    BY <1>1, <1>5 DEF ShapeInv, ContextInv, Enters
  <2>2. PICK j \in 1..Len(own) : j > 2 /\ own[j] = n
    BY <1>1, <2>1 DEF Owners
  <2>3. j \in Nat /\ j <= i
    BY <1>2, <2>2 DEF Owners
  <2>4. CASE j = i
    BY <2>2, <2>4
  <2>5. CASE j # i
    <3>1. 1 < j /\ j < i
      BY <2>2, <2>3, <2>5
    <3>2. own[j] < own[i]
      BY <1>2, <3>1 DEF Owners
    <3> QED BY <1>1, <1>3, <2>2, <3>2
  <2> QED BY <2>4, <2>5
<1> QED
  BY <1>4, <1>5

\* The actions that leave the scopes as they are.
LEMMA SameScopes ==
  ASSUME ShapeInv, NEW own, Owners(own), Bindings(own), GraphInv, NEW s, Steps(s), Grows(s), ShapeInv',
         Owners(own)', inner' = inner, Top.at # "endFunction"
  PROVE  \E o : Owners(o)' /\ Bindings(o)'
<1>1. calls # <<>>
  BY After DEF ShapeInv
<1>2. ASSUME NEW n \in 2..Len(inner'), NEW v \in Name, NEW home \in Block, inner'[n][v] = home PROVE Held(home, own[n])
  <2>1. n \in 2..Len(inner) /\ inner[n][v] = home
    BY <1>2
  <2>2. own[n] \in 1..Len(calls)
    BY <1>1, <2>1, OwnerInProgress
  <2> QED BY <2>1, <2>2 DEF Bindings
<1>3. Bindings(own)'
  BY <1>2, BindingsStep
<1> QED
  BY <1>3

\* Every action but the first and the last of a function.
LEMMA BindingsKept ==
  ASSUME ShapeInv, GraphInv, NEW own, Owners(own), DominanceInv(own), NEW s, Steps(s), Grows(s),
         Next, ~ BeginFunction, ~ EndFunction
  PROVE  \E o : Owners(o)' /\ Bindings(o)'
<1>1. ShapeInv' /\ Bindings(own)
  BY ShapeStep DEF DominanceInv
<1>2. calls # <<>>
  BY <1>1, After DEF ShapeInv
<1>3. ASSUME ScopesKept, inner' = inner, Top.at # "endFunction" PROVE \E o : Owners(o)' /\ Bindings(o)'
  BY <1>1, <1>3, SameScopes DEF ScopesKept
<1>4. \A p : At(p) => Top.at = p
  BY DEF At
<1>5. CASE BeginStatements \/ NextStatement \/ Statement \/ EndReturn \/ EndBinary \/ EndCall
  <2>1. ScopesKept
    BY <1>5, ShapeQuiet
  <2>2. inner' = inner /\ Top.at # "endFunction"
    BY <1>4, <1>5 DEF BeginStatements, NextStatement, Statement, EndReturn, EndBinary, EndCall
  <2> QED BY <1>3, <2>1, <2>2
<1>6. CASE BeginAssign \/ AssignTarget \/ BeginBinary \/ RightOperand \/ BeginCall
  <2>1. ScopesKept
    BY <1>6, ShapeQuiet
  <2>2. inner' = inner /\ Top.at # "endFunction"
    BY <1>4, <1>6 DEF BeginAssign, AssignTarget, BeginBinary, RightOperand, BeginCall
  <2> QED BY <1>3, <2>1, <2>2
<1>7. ASSUME NEW t \in {"int", "float"}, Num(t) PROVE \E o : Owners(o)' /\ Bindings(o)'
  <2>1. ScopesKept
    BY <1>7, ShapeQuiet
  <2>2. inner' = inner /\ Top.at # "endFunction"
    BY <1>4, <1>7 DEF Num
  <2> QED BY <1>3, <2>1, <2>2
<1>8. ASSUME NEW v \in Scalar, ScalarVar(v) PROVE \E o : Owners(o)' /\ Bindings(o)'
  <2>1. ScopesKept
    BY <1>8, ShapeQuiet
  <2>2. inner' = inner /\ Top.at # "endFunction"
    BY <1>4, <1>8 DEF ScalarVar
  <2> QED BY <1>3, <2>1, <2>2
<1>9. ASSUME NEW v \in Array, BeginSubscript(v) PROVE \E o : Owners(o)' /\ Bindings(o)'
  <2>1. ScopesKept
    BY <1>9, ShapeQuiet
  <2>2. inner' = inner /\ Top.at # "endFunction"
    BY <1>4, <1>9 DEF BeginSubscript
  <2> QED BY <1>3, <2>1, <2>2
<1>10. CASE BeginSelection \/ EndArm \/ BeginIteration \/ BeginBody \/ EndBody \/ EndSubscript
  <2>1. ScopesKept
    BY <1>10, ShapeBranches
  <2>2. inner' = inner /\ Top.at # "endFunction"
    BY <1>4, <1>10 DEF BeginSelection, EndArm, BeginIteration, BeginBody, EndBody, EndSubscript
  <2> QED BY <1>3, <2>1, <2>2
<1>11. ASSUME NEW v \in Locals, Declare(v) PROVE \E o : Owners(o)' /\ Bindings(o)'
  <2>1. /\ ScopesKept /\ Len(inner) \in Nat /\ Len(inner) >= 2 /\ Len(inner') = Len(inner)
        /\ \A n \in 1..Len(inner), w \in Name :
             inner'[n][w] = IF n = Len(inner) /\ w = v /\ inner[n][w] = NoBlock THEN Home ELSE inner[n][w]
    BY <1>11, ShapeDeclare
  <2>2. Top.at = "decls"
    BY <1>4, <1>11 DEF Declare
  <2>3. ASSUME NEW n \in 2..Len(inner'), NEW w \in Name, NEW home \in Block, inner'[n][w] = home PROVE Held(home, own[n])
    <3>1. n \in 2..Len(inner) /\ n \in 1..Len(inner)
      BY <2>1
    <3>2. own[n] \in 1..Len(calls)
      BY <1>2, <2>2, <3>1, OwnerInProgress
    <3>3. CASE home = inner[n][w]
      BY <1>1, <3>1, <3>2, <3>3 DEF Bindings
    <3>4. CASE home # inner[n][w]
      <4>1. home = Home /\ n = Len(inner)
        BY <2>1, <2>3, <3>1, <3>4
      <4>2. own[n] = Len(calls)
        BY <1>2, <2>1, <2>2, <4>1, Innermost
      <4>3. Used(home)
        BY <4>1 DEF Used
      <4> QED BY <1>2, <2>2, <4>2, <4>3, UsedHeld DEF Loops
    <3> QED BY <3>3, <3>4
  <2>4. Bindings(own)'
    BY <1>1, <2>3, BindingsStep
  <2> QED BY <2>1, <2>4 DEF ScopesKept
<1>12. CASE BeginCompound
  <2>1. PICK n : n = Len(calls)
    OBVIOUS
  <2>2. /\ is_entered => inner' = inner /\ Owners(own)'
        /\ ~ is_entered => inner' = Append(inner, Unbound) /\ Owners(Append(own, n))'
    BY <1>12, <2>1, ShapeBeginCompound
  <2>3. Top.at # "endFunction"
    BY <1>4, <1>12 DEF BeginCompound
  <2>4. CASE is_entered
    BY <1>1, <2>2, <2>3, <2>4, SameScopes
  <2>5. CASE ~ is_entered
    <3> DEFINE L == Len(inner)
    <3>1. PICK new : new = Append(own, n)
      OBVIOUS
    <3>2. /\ inner \in Seq([Name -> 0..N]) /\ own \in Seq(Nat) /\ Len(own) = L /\ L \in Nat
          /\ n \in Nat
      BY <1>2, <2>1, LenProperties, TopInPlace DEF ShapeInv, ContextInv, Owners
    <3>3. /\ Len(inner') = L + 1 /\ inner'[L + 1] = Unbound /\ \A i \in 1..L : inner'[i] = inner[i] /\ new[i] = own[i]
      <4>1. Unbound \in [Name -> 0..N]
        BY NAssumption DEF Unbound, NoBlock
      <4> QED BY <2>2, <2>5, <3>1, <3>2, <4>1, AppendProperties
    <3>4. ASSUME NEW i \in 2..Len(inner'), NEW w \in Name, NEW home \in Block, inner'[i][w] = home PROVE Held(home, new[i])
      <4>1. CASE i = L + 1
        BY <3>3, <3>4, <4>1 DEF Unbound, NoBlock, Block
      <4>2. CASE i # L + 1
        <5>1. i \in 2..L /\ i \in 1..L
          BY <3>2, <3>3, <4>2
        <5>2. own[i] \in 1..Len(calls)
          BY <1>2, <2>3, <5>1, OwnerInProgress
        <5> QED BY <1>1, <3>3, <3>4, <5>1, <5>2 DEF Bindings
      <4> QED BY <4>1, <4>2
    <3>5. Bindings(new)'
      BY <1>1, <3>4, BindingsStep
    <3>6. Owners(new)'
      BY <2>2, <2>5, <3>1
    <3> QED BY <3>5, <3>6
  <2> QED BY <2>4, <2>5
<1>13. CASE EndCompound
  <2>1. /\ ~ Top.locals => inner' = inner /\ Owners(own)'
        /\ Top.locals => inner' = Front(inner) /\ Owners(Front(own))'
    BY <1>13, ShapeEndCompound
  <2>2. Top.at # "endFunction"
    BY <1>4, <1>13 DEF EndCompound
  <2>3. CASE ~ Top.locals
    BY <1>1, <2>1, <2>2, <2>3, SameScopes
  <2>4. CASE Top.locals
    <3> DEFINE L == Len(inner)
    <3>1. PICK new : new = Front(own)
      OBVIOUS
    <3>2. /\ inner \in Seq([Name -> 0..N]) /\ own \in Seq(Nat) /\ Len(own) = L /\ L \in Nat \ {0} /\ inner # <<>> /\ own # <<>>
      <4>1. /\ inner \in Seq([Name -> 0..N]) /\ inner # <<>> /\ own \in Seq(Nat) /\ Len(own) = L
        BY DEF ShapeInv, ContextInv, Owners
      <4>2. L \in Nat \ {0}
        BY <4>1, EmptySeq
      <4> QED BY <4>1, <4>2, Pairs
    <3>3. Len(inner') = L - 1 /\ \A i \in 1..L - 1 : inner'[i] = inner[i] /\ new[i] = own[i]
      BY <2>1, <2>4, <3>1, <3>2, FrontProperties
    <3>4. ASSUME NEW i \in 2..Len(inner'), NEW w \in Name, NEW home \in Block, inner'[i][w] = home PROVE Held(home, new[i])
      <4>1. i \in 2..L /\ i \in 1..L - 1
        BY <3>2, <3>3
      <4>2. own[i] \in 1..Len(calls)
        BY <1>2, <2>2, <4>1, OwnerInProgress
      <4> QED BY <1>1, <3>3, <3>4, <4>1, <4>2 DEF Bindings
    <3>5. Bindings(new)'
      BY <1>1, <3>4, BindingsStep
    <3>6. Owners(new)'
      BY <2>1, <2>4, <3>1
    <3> QED BY <3>5, <3>6
  <2> QED BY <2>3, <2>4
<1> QED
  BY <1>5, <1>6, <1>7, <1>8, <1>9, <1>10, <1>11, <1>12, <1>13 DEF Next

\* The use that is watched stays inside what its home dominates.
LEMMA InsideStep ==
  ASSUME ShapeInv, ShapeInv', GraphInv, GraphInv', NEW s, Steps(s), Grows(s), NEW home, NEW b, b \in Nat, Inside(home, b)
  PROVE  Inside(home, b)'
<1>1. CASE home = Entry
  BY <1>1 DEF Inside
<1>2. PICK x : x = created'
  OBVIOUS
<1>3. created \in Nat /\ x \in Nat /\ created <= x
  <2>1. calls # <<>>
    BY After DEF ShapeInv
  <2> QED BY <1>2, <2>1, AtWork, NAssumption DEF Grows
<1>4. ASSUME NEW lo \in Nat, NEW m \in Nat, Live(home, lo, m), b >= lo, b <= created PROVE Inside(home, b)'
  <2>1. b <= x
    BY <1>3, <1>4
  <2>2. CASE m < Len(calls')
    <3>1. Live(home, lo, m)'
      BY <1>2, <1>4, <2>2, LiveStep
    <3> QED BY <1>2, <1>4, <2>1, <3>1 DEF Inside
  <2>3. CASE ~ (m < Len(calls'))
    <3>1. Closed(home, lo, x)'
      BY <1>2, <1>4, <2>3, LiveStep
    <3> QED BY <1>3, <1>4, <2>1, <3>1 DEF Inside
  <2> QED BY <2>2, <2>3
<1>5. ASSUME NEW lo \in Nat, NEW hi \in Nat, Closed(home, lo, hi), b >= lo, b <= hi PROVE Inside(home, b)'
  <2>1. Closed(home, lo, hi)'
    BY <1>5, ClosedStep
  <2> QED BY <1>5, <2>1 DEF Inside
<1> QED
  BY <1>1, <1>4, <1>5 DEF Inside

LEMMA WatchedKept ==
  ASSUME ShapeInv, GraphInv, NEW own, Owners(own), DominanceInv(own), NEW s, Steps(s), Grows(s),
         ShapeInv', GraphInv', Next, ~ BeginFunction
  PROVE  Watched'
<1>1. /\ calls # <<>>
      /\ \/ watched' = watched
         \/ /\ Top.at \in {"expr", "var", "subscript"}
            /\ \E home \in Block : Used(home) /\ home # insert' /\ insert' \in Block /\ watched' = <<home, insert'>>
  BY Uses
<1>2. ASSUME watched' = watched PROVE Watched'
  <2>1. CASE watched = NoUse
    BY <1>2, <2>1 DEF Watched
  <2>2. CASE watched # NoUse
    <3>1. PICK home \in Block, b \in Block : watched = <<home, b>> /\ Inside(home, b)
      BY <2>2 DEF DominanceInv, Watched
    <3>2. b \in Nat
      BY NAssumption DEF Block
    <3>3. Inside(home, b)'
      BY <3>1, <3>2, InsideStep
    <3> QED BY <1>2, <3>1, <3>3 DEF Watched
  <2> QED BY <2>1, <2>2
<1>3. ASSUME Top.at \in {"expr", "var", "subscript"},
             NEW home \in Block, Used(home), home # insert', insert' \in Block, watched' = <<home, insert'>>
      PROVE  Watched'
  <2>1. PICK n : n = Len(calls)
    OBVIOUS
  <2>2. PICK b : b = insert'
    OBVIOUS
  <2>3. PICK x : x = created'
    OBVIOUS
  <2>4. Held(home, n)
    BY <1>1, <1>3, <2>1, UsedHeld DEF Loops
  <2>5. Inside(home, b)'
    <3>1. CASE home = Entry
      BY <3>1 DEF Inside
    <3>2. CASE home # Entry
      <4>1. PICK lo, m \in Nat : m < n /\ Live(home, lo, m)
        BY <2>4, <3>2 DEF Held
      <4>2. /\ m < Len(calls') => Live(home, lo, m)'
            /\ ~ (m < Len(calls')) => Closed(home, lo, x)'
            /\ b = home \/ b >= lo
            /\ b \in Nat /\ b <= x
        BY <2>2, <2>3, <4>1, LiveStep
      <4>3. b >= lo
        BY <1>3, <2>2, <4>2
      <4>4. x \in Nat
        BY <2>3, NAssumption DEF Grows
      <4> QED BY <2>3, <4>2, <4>3, <4>4 DEF Inside
    <3> QED BY <3>1, <3>2
  <2> QED BY <1>3, <2>2, <2>5 DEF Watched
<1> QED
  BY <1>1, <1>2, <1>3

\* The first action of a function.
LEMMA DominanceBegins ==
  ASSUME ShapeInv, BeginFunction
  PROVE  \E o : Owners(o)' /\ DominanceInv(o)'
<1> DEFINE new == <<0, 2>>
<1>1. /\ Owners(new)' /\ Len(inner') = 2 /\ inner'[2] = [v \in Name |-> IF v \in Params THEN Entry ELSE NoBlock]
      /\ Len(calls') = 2 /\ calls'[1].at = "endFunction" /\ calls'[2].at = "compound"
  BY ShapeBeginFunction
<1> HIDE DEF new
<1>2. Bindings(new)'
  <2>1. ASSUME NEW n \in 2..Len(inner'), NEW v \in Name, NEW home \in Block, inner'[n][v] = home PROVE home = Entry
    <3>1. n = 2
      BY <1>1
    <3> QED BY <1>1, <2>1, <3>1 DEF NoBlock, Block
  <2>2. \A home, k : home = Entry => Held(home, k)'
    BY DEF Held
  <2> QED BY <2>1, <2>2 DEF Bindings
<1>3. Kept'
  <2>1. \A k \in 1..Len(calls') : calls'[k].at \notin Loops \cup {"subscript"}
    BY <1>1 DEF Loops
  <2> QED BY <2>1 DEF Kept, Keeps
<1>4. Watched'
  BY DEF BeginFunction, Watched
<1> QED
  BY <1>1, <1>2, <1>3, <1>4 DEF DominanceInv

\* The dominance that the state keeps, with the visitors that leave the scopes.
Dominating == \E own : Owners(own) /\ DominanceInv(own)

LEMMA DominanceStep == ShapeInv /\ GraphInv /\ Dominating /\ [Next]_vars => Dominating'
<1> SUFFICES ASSUME ShapeInv, GraphInv, Dominating, [Next]_vars PROVE Dominating'
  OBVIOUS
<1>1. PICK own : Owners(own) /\ DominanceInv(own)
  BY DEF Dominating
<1>2. ShapeInv' /\ GraphInv'
  BY ShapeStep, GraphStep
<1>3. CASE BeginFunction
  BY <1>3, DominanceBegins DEF Dominating
<1>4. CASE Next /\ ~ BeginFunction
  <2>1. PICK s : Len(s) \in 0..2 /\ Steps(s) /\ Grows(s)
    BY <1>4, GraphActions DEF Growth
  <2>2. Watched'
    BY <1>1, <1>2, <1>4, <2>1, WatchedKept
  <2>3. Kept'
    BY <1>1, <1>2, <2>1, KeptStep
  <2>4. \E o : Owners(o)' /\ Bindings(o)'
    <3>1. CASE EndFunction
      <4> DEFINE new == <<0>>
      <4>1. Owners(new)' /\ Len(inner') = 1
        BY <3>1, ShapeEndFunction
      <4> HIDE DEF new
      <4>2. Bindings(new)'
        BY <4>1 DEF Bindings
      <4> QED BY <4>1, <4>2
    <3>2. CASE ~ EndFunction
      BY <1>1, <1>4, <2>1, <3>2, BindingsKept
    <3> QED BY <3>1, <3>2
  <2> QED BY <2>2, <2>3, <2>4 DEF Dominating, DominanceInv
<1>5. CASE UNCHANGED vars
  <2>1. UNCHANGED <<created, succ, insert, calls, inner, watched>>
    BY <1>5 DEF vars, cfg
  <2>2. \A h, lo, m : Live(h, lo, m)' <=> Live(h, lo, m)
    BY <2>1 DEF Live, Region
  <2>3. \A h, lo, hi : Closed(h, lo, hi)' <=> Closed(h, lo, hi)
    BY <2>1 DEF Closed, Region
  <2>4. \A h, k : Held(h, k)' <=> Held(h, k)
    BY <2>2 DEF Held
  <2>5. \A h, b : Inside(h, b)' <=> Inside(h, b)
    BY <2>1, <2>2, <2>3 DEF Inside
  <2>6. Owners(own)'
    BY <1>1, <2>1 DEF Owners
  <2>7. Bindings(own)'
    BY <1>1, <2>1, <2>4 DEF DominanceInv, Bindings
  <2>8. Kept'
    BY <1>1, <2>1, <2>4 DEF DominanceInv, Kept
  <2>9. Watched'
    BY <1>1, <2>1, <2>5 DEF DominanceInv, Watched
  <2> QED BY <2>6, <2>7, <2>8, <2>9 DEF Dominating, DominanceInv
<1> QED
  BY <1>3, <1>4, <1>5

LEMMA DominanceInit == Init => Dominating
<1> SUFFICES ASSUME Init PROVE Dominating
  OBVIOUS
<1>1. ShapeInv
  BY ShapeInit
<1>2. PICK own : Owners(own)
  BY <1>1 DEF ShapeInv
<1>3. calls = <<>> /\ inner = <<Unbound>> /\ watched = NoUse
  BY DEF Init
<1>4. Len(calls) = 0 /\ Len(inner) = 1
  BY <1>3, Pairs
<1>5. Bindings(own) /\ Kept /\ Watched
  BY <1>3, <1>4 DEF Bindings, Kept, Watched
<1> QED
  BY <1>2, <1>5 DEF Dominating, DominanceInv

\* A block of a closed region is entered through the block that the region is of.
LEMMA ClosedDominates ==
  ASSUME BlockInv, created \in 0..N, NEW h \in Block, NEW lo, NEW hi, Region(h, lo, hi), hi <= created,
         NEW b \in Block, b >= lo, b <= hi
  PROVE  Dominates(succ, h, b)
<1> DEFINE S == {x \in Block : x # h /\ ~ (x >= lo /\ x <= hi)}
<1>1. lo \in Nat /\ lo >= 2 /\ hi \in Nat /\ N \in Nat \ {0}
  BY NAssumption DEF Region
<1>2. Entry # h => Entry \in S
  BY <1>1 DEF Entry, Block
<1>3. \A x \in S : Succs(succ, x) \ {h} \subseteq S
  <2>1. TAKE x \in S
  <2>2. ASSUME NEW c \in Succs(succ, x), c # h PROVE c \in S
    <3>1. c \in ToSet(succ[x])
      BY <2>2 DEF Succs, ToSet
    <3>2. c \in Block
      <4>1. c \in 2..created
        BY <3>1 DEF BlockInv
      <4> QED BY <1>1, <4>1 DEF Block
    <3>3. ~ (c >= lo /\ c <= hi)
      BY <3>1 DEF Region
    <3> QED BY <2>2, <3>2, <3>3
  <2> QED BY <2>2
<1>4. S \in SUBSET Block
  OBVIOUS
<1>5. b \notin S
  OBVIOUS
<1> HIDE DEF S
<1>6. b \notin ReachableAvoiding(succ, {h})
  BY <1>2, <1>3, <1>4, <1>5 DEF ReachableAvoiding
<1> QED
  BY <1>6 DEF Dominates

\* The block of an alloca dominates every block that uses it, in every function: also
\* where the alloca was moved to the block before a loop (the visitors of
\* cminusf_builder.cpp that read or write a variable).
THEOREM AllocasDominateUses == Spec => []AllocaDominatesUse
<1>1. ShapeInv /\ GraphInv /\ Dominating => AllocaDominatesUse
  <2> SUFFICES ASSUME ShapeInv, GraphInv, Dominating, calls = <<>>, watched # NoUse
               PROVE  Dominates(succ, watched[1], watched[2])
    BY DEF AllocaDominatesUse
  <2>1. BlockInv /\ created \in 0..N /\ Len(calls) = 0
    BY Pairs DEF GraphInv, ShapeInv, ContextInv
  <2>2. PICK home \in Block, b \in Block : watched = <<home, b>> /\ Inside(home, b)
    BY DEF Dominating, DominanceInv, Watched
  <2>3. CASE home = Entry
    <3>1. \A A : Entry \in A => ReachableAvoiding(succ, A) = {}
      <4>1. TAKE A
      <4>2. HAVE Entry \in A
      <4>3. {} \in SUBSET Block /\ \A x \in {} : Succs(succ, x) \ A \subseteq {}
        OBVIOUS
      <4> QED BY <4>2, <4>3 DEF ReachableAvoiding
    <3> QED BY <2>2, <2>3, <3>1 DEF Dominates
  <2>4. CASE home # Entry
    <3>1. \A lo, m : ~ Live(home, lo, m)
      BY <2>1 DEF Live
    <3>2. PICK lo, hi \in Nat : Closed(home, lo, hi) /\ b >= lo /\ b <= hi
      BY <2>2, <2>4, <3>1 DEF Inside
    <3>3. Dominates(succ, home, b)
      BY <2>1, <3>2, ClosedDominates DEF Closed
    <3> QED BY <2>2, <3>3
  <2> QED BY <2>3, <2>4
<1>2. ShapeInv /\ GraphInv /\ Dominating /\ [Next]_vars => (ShapeInv /\ GraphInv /\ Dominating)'
  BY ShapeStep, GraphStep, DominanceStep
<1>3. Init => ShapeInv /\ GraphInv /\ Dominating
  BY ShapeInit, GraphInit, DominanceInit
<1> QED
  BY <1>1, <1>2, <1>3, PTL DEF Spec
=============================================================================
