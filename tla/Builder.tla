------------------------------- MODULE Builder -------------------------------
(***************************************************************************)
(* CminusfBuilder: the visitors that turn the syntax tree of a function    *)
(* into basic blocks.  A visitor calls the visitors of its children, so    *)
(* the state is a stack of visitors in progress, and an action is what one *)
(* of them does between two accept calls.  The tree is chosen while it is  *)
(* visited: at a node that may be of several kinds, any kind is possible.  *)
(*                                                                         *)
(* Blocks are numbered in the order of their creation.  Of the             *)
(* instructions in a block the terminator is kept, and of an alloca the    *)
(* block it is in (its home); names are bound to homes.  watched is one    *)
(* use of an alloca, any of those the function contains: where the alloca  *)
(* is and where the use is.  Of the types, int and float are told apart.   *)
(***************************************************************************)
EXTENDS Dominance, FiniteSets, SequencesExt

CONSTANTS Scalar,   \* the names of int variables
          Array,    \* the names of int arrays
          Params,   \* the parameters of the function
          Locals,   \* the names it may declare
          MaxCalls, \* bound on the visitors in progress
          MaxExpr   \* bound on those of expressions with operands

ASSUME BoundsAssumption == MaxCalls \in Nat \ {0}
ASSUME NamesAssumption == Locals \subseteq Scalar \cup Array

VARIABLES created,               \* number of blocks of the function
          last,                  \* last[b]: "open", or b's terminator "br" or "ret"
          succ, pre,             \* succ_bbs_ and pre_bbs_ of each block
          insert,                \* builder->get_insert_block()
          cur, outBB, in_loop, is_entered, req_lval,  \* context
          inner,                 \* the scopes, innermost last
          calls,                 \* the visitors in progress
          value,                 \* type of the value an expression's visitor returned
          watched

cfg == <<created, last, succ, pre>>
context == <<cur, outBB, in_loop, is_entered, req_lval>>
vars == <<cfg, insert, context, inner, calls, value, watched>>

Name == Scalar \cup Array
NoBlock == 0
Unbound == [v \in Name |-> NoBlock]
NoUse == <<NoBlock, NoBlock>>

\* A visitor in progress: where it is, and the blocks and other locals it holds.
Call(at, locals) == [at |-> at, locals |-> locals]
Top == calls[Len(calls)]
At(place) == calls # <<>> /\ Top.at = place
\* The running visitor returns, or goes on as one that has called others: the
\* last of s runs next.
Continue(s) == calls' = Front(calls) \o s

\* There is room for another visitor, or for an expression with operands.
Room == Len(calls) < MaxCalls
ExprRoom ==
  /\ Room
  /\ Cardinality({k \in DOMAIN calls :
                    calls[k].at \in {"subscript", "assign", "right", "combine", "call"}}) < MaxExpr

IsTerminated(b) == last[b] # "open"

\* The constructor of BranchInst, for each block of from in this order: a branch to
\* the blocks of to, and the entries in the lists of both ends.
AddEdges(from, to) ==
  /\ succ' = [b \in Block |-> IF b \in ToSet(from) THEN succ[b] \o to ELSE succ[b]]
  /\ pre' = [b \in Block |-> IF b \in ToSet(to) THEN pre[b] \o from ELSE pre[b]]

\* Scope::push leaves a name alone that the innermost scope has already.
Push(v, home) ==
  inner' = [inner EXCEPT ![Len(inner)][v] = IF @ = NoBlock THEN home ELSE @]

\* Scope::find: the binding of the innermost scope that has the name.
Find(v) ==
  LET bound == {n \in DOMAIN inner : inner[n][v] # NoBlock}
  IN  inner[CHOOSE n \in bound : \A m \in bound : m <= n][v]
IsBound(v) == \E n \in DOMAIN inner : inner[n][v] # NoBlock

\* Where an alloca goes, and where instructions go after it.
Home == IF in_loop THEN outBB ELSE insert
AfterAlloca == IF in_loop THEN cur ELSE insert

\* The alloca in block home is used in block b; the use may be the watched one.
Use(home, b) ==
  \/ UNCHANGED watched
  \/ watched = NoUse /\ home # b /\ watched' = <<home, b>>

Init ==
  /\ created = 0
  /\ last = [b \in Block |-> "open"]
  /\ succ = [b \in Block |-> <<>>] /\ pre = succ
  /\ insert = NoBlock /\ cur = NoBlock /\ outBB = NoBlock
  /\ in_loop = FALSE /\ is_entered = FALSE /\ req_lval = FALSE
  /\ inner = <<Unbound>>
  /\ calls = <<>>
  /\ value = "none"
  /\ watched = NoUse

----------------------------------------------------------------------------
(* Functions, compound statements and declarations. *)

\* ASTFunDeclaration up to the body, ASTParam for the parameters included.  One
\* function is built: ContextRestored says that the next starts in the same state.
BeginFunction ==
  /\ calls = <<>> /\ created = 0
  /\ created' = 1
  /\ last' = [b \in Block |-> "open"]
  /\ succ' = [b \in Block |-> <<>>] /\ pre' = succ'
  /\ insert' = Entry /\ cur' = Entry
  /\ inner' = Append(inner, [v \in Name |-> IF v \in Params THEN Entry ELSE NoBlock])
  /\ is_entered' = TRUE
  /\ calls' = <<Call("endFunction", <<>>), Call("compound", <<>>)>>
  /\ watched' = NoUse
  /\ UNCHANGED <<outBB, in_loop, req_lval, value>>

\* After the body: a return is added when the insert block lacks one.
EndFunction ==
  /\ At("endFunction")
  /\ last' = [last EXCEPT ![insert] = IF @ = "open" THEN "ret" ELSE @]
  /\ inner' = Front(inner)
  /\ Continue(<<>>)
  /\ UNCHANGED <<created, succ, pre, insert, context, value, watched>>

\* Slip: is_entered stays set, so that no compound statement has a scope.
BeginCompoundKeepEntered ==
  /\ At("compound")
  /\ inner' = IF is_entered THEN inner ELSE Append(inner, Unbound)
  /\ Continue(<<Call("decls", ~ is_entered)>>)
  /\ UNCHANGED <<cfg, insert, context, value, watched>>

\* ASTCompoundStmt: the body of a function uses the scope of its parameters.
BeginCompound ==
  /\ At("compound")
  /\ inner' = IF is_entered THEN inner ELSE Append(inner, Unbound)
  /\ is_entered' = FALSE
  /\ Continue(<<Call("decls", ~ is_entered)>>)
  /\ UNCHANGED <<cfg, insert, cur, outBB, in_loop, req_lval, value, watched>>

\* ASTVarDeclaration of a local variable.
Declare(v) ==
  /\ At("decls")
  /\ Push(v, Home)
  /\ insert' = AfterAlloca
  /\ UNCHANGED <<cfg, context, calls, value, watched>>

BeginStatements ==
  /\ At("decls")
  /\ Continue(<<Call("stmts", Top.locals)>>)
  /\ UNCHANGED <<cfg, insert, context, inner, value, watched>>

\* The loop over the statements goes on while the insert block is open ...
NextStatement ==
  /\ At("stmts")
  /\ ~ IsTerminated(insert)
  /\ Room
  /\ calls' = Append(calls, Call("stmt", <<>>))
  /\ value' = "none"
  /\ UNCHANGED <<cfg, insert, context, inner, watched>>

\* Slip: the names of the scope that was entered stay visible.
EndCompoundKeepScope ==
  /\ At("stmts")
  /\ Continue(<<>>)
  /\ value' = "none"
  /\ UNCHANGED <<cfg, insert, context, inner, watched>>

\* ... and the scope that was entered is left.
EndCompound ==
  /\ At("stmts")
  /\ inner' = IF Top.locals THEN Front(inner) ELSE inner
  /\ Continue(<<>>)
  /\ value' = "none"
  /\ UNCHANGED <<cfg, insert, context, watched>>

----------------------------------------------------------------------------
(* Statements. *)

\* A statement of any kind; its children are visited next.
Statement ==
  /\ At("stmt")
  /\ \/ Continue(<<Call("compound", <<>>)>>)
     \/ Continue(<<>>)                           \* ASTExpressionStmt, empty
     \/ Continue(<<Call("return", <<>>)>>)       \* ASTReturnStmt, without a value
     \/ Room /\ Continue(<<Call("expr", <<>>)>>)
     \/ Room /\ \E else \in BOOLEAN :
          Continue(<<Call("if", else), Call("expr", <<>>)>>)
     \/ Room /\ Continue(<<Call("return", <<>>), Call("expr", <<>>)>>)
  /\ UNCHANGED <<cfg, insert, context, inner, value, watched>>

\* ASTSelectionStmt after its condition: the blocks are made, the first arm is due.
BeginSelection ==
  /\ At("if")
  /\ LET trueBB == created + 1
         out == created + 2
         falseBB == IF Top.locals THEN created + 3 ELSE out
     IN  /\ falseBB <= N
         /\ created' = IF Top.locals THEN created + 3 ELSE created + 2
         /\ AddEdges(<<insert>>, <<trueBB, falseBB>>)
         /\ last' = [last EXCEPT ![insert] = "br"]
         /\ insert' = trueBB /\ cur' = trueBB
         /\ Continue(<<Call("endArm", [out |-> out, else |-> IF Top.locals THEN falseBB ELSE NoBlock]),
                       Call("stmt", <<>>)>>)
  /\ value' = "none"
  /\ UNCHANGED <<outBB, in_loop, is_entered, req_lval, inner, watched>>

\* Slip: the branch to outBB is added whether the arm is terminated or not.
EndArmUnchecked ==
  /\ At("endArm")
  /\ LET out == Top.locals.out
         else == Top.locals.else
         onward == IF else # NoBlock THEN else ELSE out
     IN  /\ AddEdges(<<insert>>, <<out>>)
         /\ last' = [last EXCEPT ![insert] = IF @ = "open" THEN "br" ELSE @]
         /\ insert' = onward /\ cur' = onward
         /\ IF else # NoBlock
              THEN Continue(<<Call("endArm", [out |-> out, else |-> NoBlock]), Call("stmt", <<>>)>>)
              ELSE Continue(<<>>)
  /\ value' = "none"
  /\ UNCHANGED <<created, outBB, in_loop, is_entered, req_lval, inner, watched>>

\* After an arm: a branch to outBB if the arm is open, then the other arm, or outBB.
EndArm ==
  /\ At("endArm")
  /\ LET out == Top.locals.out
         else == Top.locals.else
         onward == IF else # NoBlock THEN else ELSE out
     IN  /\ IF IsTerminated(insert)
              THEN UNCHANGED <<last, succ, pre>>
              ELSE AddEdges(<<insert>>, <<out>>) /\ last' = [last EXCEPT ![insert] = "br"]
         /\ insert' = onward /\ cur' = onward
         /\ IF else # NoBlock
              THEN Continue(<<Call("endArm", [out |-> out, else |-> NoBlock]), Call("stmt", <<>>)>>)
              ELSE Continue(<<>>)
  /\ value' = "none"
  /\ UNCHANGED <<created, outBB, in_loop, is_entered, req_lval, inner, watched>>

\* ASTIterationStmt up to its condition, which goes to a block of its own.
BeginIteration ==
  /\ At("stmt")
  /\ created < N
  /\ Room
  /\ created' = created + 1
  /\ outBB' = insert
  /\ in_loop' = TRUE
  /\ insert' = created + 1 /\ cur' = created + 1
  /\ Continue(<<Call("while", [condition |-> created + 1, last |-> insert]), Call("expr", <<>>)>>)
  /\ UNCHANGED <<last, succ, pre, is_entered, req_lval, inner, value, watched>>

\* After the condition; its comparison with zero is one of integers, and the
\* assertion of ICmpInst aborts the compiler when the condition is a float.
BeginBody ==
  /\ At("while")
  /\ value = "int"
  /\ created + 2 <= N
  /\ LET loopBB == created + 1
         out == created + 2
     IN  /\ created' = created + 2
         /\ AddEdges(<<insert>>, <<loopBB, out>>)
         /\ last' = [last EXCEPT ![insert] = "br"]
         /\ insert' = loopBB /\ cur' = loopBB
         /\ Continue(<<Call("endBody", [condition |-> Top.locals.condition,
                                        last |-> Top.locals.last, out |-> out]),
                       Call("stmt", <<>>)>>)
  /\ value' = "none"
  /\ UNCHANGED <<outBB, in_loop, is_entered, req_lval, inner, watched>>

\* After the body: the branch back, then the one into the loop.
EndBody ==
  /\ At("endBody")
  /\ LET l == Top.locals
         open == (IF IsTerminated(insert) THEN <<>> ELSE <<insert>>)
                   \o (IF IsTerminated(l.last) THEN <<>> ELSE <<l.last>>)
     IN  /\ AddEdges(open, <<l.condition>>)
         /\ last' = [b \in Block |-> IF b \in ToSet(open) THEN "br" ELSE last[b]]
         /\ insert' = l.out /\ cur' = l.out
  /\ in_loop' = FALSE
  /\ Continue(<<>>)
  /\ value' = "none"
  /\ UNCHANGED <<created, outBB, is_entered, req_lval, inner, watched>>

\* ASTReturnStmt after its expression.
EndReturn ==
  /\ At("return")
  /\ last' = [last EXCEPT ![insert] = "ret"]
  /\ Continue(<<>>)
  /\ value' = "none"
  /\ UNCHANGED <<created, succ, pre, insert, context, inner, watched>>

----------------------------------------------------------------------------
(* Expressions. *)

\* ASTNum: a literal is stored to an alloca of its own and loaded from it.
Num(t) ==
  /\ At("expr")
  /\ Use(Home, AfterAlloca)
  /\ insert' = AfterAlloca
  /\ value' = t
  /\ Continue(<<>>)
  /\ UNCHANGED <<cfg, context, inner>>

\* ASTVar of a scalar, as a value or, under req_lval, as an address.
ScalarVar(v) ==
  /\ At("expr") \/ At("var")
  /\ IsBound(v)
  /\ req_lval' = FALSE
  /\ Use(Find(v), insert)
  /\ value' = "int"
  /\ Continue(<<>>)
  /\ UNCHANGED <<cfg, insert, cur, outBB, in_loop, is_entered, inner>>

\* ASTVar of an array element: the subscript is visited first ...
BeginSubscript(v) ==
  /\ At("expr") \/ At("var")
  /\ IsBound(v)
  /\ ExprRoom
  /\ req_lval' = FALSE
  /\ Continue(<<Call("subscript", Find(v)), Call("expr", <<>>)>>)
  /\ UNCHANGED <<cfg, insert, cur, outBB, in_loop, is_entered, inner, value, watched>>

\* Slip: cur_insert_point is left at the block before the test.
EndSubscriptKeepPoint ==
  /\ At("subscript")
  /\ created + 2 <= N
  /\ created' = created + 2
  /\ AddEdges(<<insert>>, <<created + 2, created + 1>>)
  /\ last' = [last EXCEPT ![insert] = "br", ![created + 2] = "ret"]
  /\ insert' = created + 1
  /\ Use(Top.locals, created + 1)
  /\ value' = "int"
  /\ Continue(<<>>)
  /\ UNCHANGED <<context, inner>>

\* ... and tested: a negative one leads to a block that reports it and returns.
EndSubscript ==
  /\ At("subscript")
  /\ created + 2 <= N
  /\ LET rightBB == created + 1
         terminateBB == created + 2
     IN  /\ created' = created + 2
         /\ AddEdges(<<insert>>, <<terminateBB, rightBB>>)
         /\ last' = [last EXCEPT ![insert] = "br", ![terminateBB] = "ret"]
         /\ insert' = rightBB /\ cur' = rightBB
         /\ Use(Top.locals, rightBB)
  /\ value' = "int"
  /\ Continue(<<>>)
  /\ UNCHANGED <<outBB, in_loop, is_entered, req_lval, inner>>

\* ASTAssignExpression visits its value first, then its variable as an address.
BeginAssign ==
  /\ At("expr")
  /\ ExprRoom
  /\ Continue(<<Call("assign", <<>>), Call("expr", <<>>)>>)
  /\ UNCHANGED <<cfg, insert, context, inner, value, watched>>

AssignTarget ==
  /\ At("assign")
  /\ req_lval' = TRUE
  /\ Continue(<<Call("var", <<>>)>>)
  /\ UNCHANGED <<cfg, insert, cur, outBB, in_loop, is_entered, inner, value, watched>>

\* ASTSimpleExpression, ASTAdditiveExpression and ASTTerm with two operands.
BeginBinary ==
  /\ At("expr")
  /\ ExprRoom
  /\ Continue(<<Call("right", <<>>), Call("expr", <<>>)>>)
  /\ UNCHANGED <<cfg, insert, context, inner, value, watched>>

RightOperand ==
  /\ At("right")
  /\ Continue(<<Call("combine", value), Call("expr", <<>>)>>)
  /\ UNCHANGED <<cfg, insert, context, inner, value, watched>>

\* A comparison yields an int; arithmetic on an int and a float is on floats.
EndBinary ==
  /\ At("combine")
  /\ value' \in {"int", IF value = "float" \/ Top.locals = "float" THEN "float" ELSE "int"}
  /\ Continue(<<>>)
  /\ UNCHANGED <<cfg, insert, context, inner, watched>>

\* ASTCall with one argument, of a function of either type.
BeginCall ==
  /\ At("expr")
  /\ ExprRoom
  /\ Continue(<<Call("call", <<>>), Call("expr", <<>>)>>)
  /\ UNCHANGED <<cfg, insert, context, inner, value, watched>>

EndCall ==
  /\ At("call")
  /\ value' \in {"int", "float"}
  /\ Continue(<<>>)
  /\ UNCHANGED <<cfg, insert, context, inner, watched>>

Next ==
  \/ BeginFunction \/ EndFunction \/ BeginCompound \/ BeginStatements \/ NextStatement \/ EndCompound
  \/ \E v \in Locals : Declare(v)
  \/ Statement \/ BeginSelection \/ EndArm
  \/ BeginIteration \/ BeginBody \/ EndBody \/ EndReturn
  \/ \E t \in {"int", "float"} : Num(t)
  \/ \E v \in Scalar : ScalarVar(v)
  \/ \E v \in Array : BeginSubscript(v)
  \/ EndSubscript \/ BeginAssign \/ AssignTarget
  \/ BeginBinary \/ RightOperand \/ EndBinary \/ BeginCall \/ EndCall

Spec == Init /\ [][Next]_vars

----------------------------------------------------------------------------
(* Properties. *)

TypeOK ==
  /\ created \in 0..N
  /\ last \in [Block -> {"open", "br", "ret"}]
  /\ \A b \in Block : Succs(succ, b) \subseteq 1..created /\ Len(succ[b]) <= 2
  /\ {insert, cur, outBB} \subseteq 0..N
  /\ {in_loop, is_entered, req_lval} \subseteq BOOLEAN
  /\ \A n \in DOMAIN inner : inner[n] \in [Name -> 0..N]
  /\ Len(calls) <= MaxCalls + 1
  /\ value \in {"int", "float", "none"}
  /\ watched \in (0..N) \X (0..N)

\* The assertion of BasicBlock::add_instruction ("Inserting instruction to
\* terminated bb") never fails: whenever a visitor may insert an instruction, the
\* insert block is open, and so is the block that an alloca would go to; after an
\* alloca the builder is back where it was (cur_insert_point follows it).
NeverPastTerminator ==
  calls # <<>> /\ Top.at \notin {"endFunction", "stmts", "endArm", "endBody"} =>
    /\ ~ IsTerminated(insert)
    /\ ~ IsTerminated(Home)
    /\ AfterAlloca = insert

\* How often x is in s.
Times(s, x) == Cardinality({n \in DOMAIN s : s[n] = x})

\* When a function has been built each of its blocks ends in a terminator that
\* matches its successors, the predecessor lists mirror the successor lists,
\* nothing branches to the entry (Dominators and Mem2Reg rely on that), and no block
\* has more than two predecessors (CodeGen.cpp:544 gives a phi's second value to
\* whichever predecessor is not the first).  The state keeps its types on the way.
FunctionWellFormed ==
  /\ TypeOK
  /\ calls = <<>> /\ created > 0 =>
    /\ \A b \in 1..created : last[b] = (IF succ[b] = <<>> THEN "ret" ELSE "br")
    /\ \A b \in 1..created : Len(pre[b]) <= 2
    /\ \A b, c \in 1..created :
         Times(succ[b], c) = Times(pre[c], b)
    /\ pre[Entry] = <<>>

\* The block of an alloca dominates every block that uses it, although allocas
\* in a loop are moved to the block before the loop: in all of the function's
\* paths the variable exists when it is used.
AllocaDominatesUse ==
  calls = <<>> /\ watched # NoUse => Dominates(succ, watched[1], watched[2])

\* Between two functions the context is as the next one needs it: no scope, no
\* loop and no pending request are left over from the last one.
ContextRestored ==
  calls = <<>> => inner = <<Unbound>> /\ ~ in_loop /\ ~ is_entered /\ ~ req_lval
=============================================================================
