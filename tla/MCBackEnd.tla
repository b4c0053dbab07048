------------------------------ MODULE MCBackEnd ------------------------------
(***************************************************************************)
(* The back end in one run.  Its parts look at different sides of the same *)
(* output and share no state; a behaviour is a behaviour of one of them,   *)
(* chosen at the start, and the others stay as they are:                   *)
(*   "text"   Labels: passes edit a module, it is printed as LightIR any   *)
(*            number of times, then labels and references are emitted;     *)
(*   "values" CodeGen: programs with loops and calls run on the stack;     *)
(*   "frames" Frame: the instructions for frames at the limits of          *)
(*            immediates are executed one by one.                          *)
(*                                                                         *)
(* The module has a loop in sum, a declaration put, and main, which calls  *)
(* both, with every kind of instruction and two comparisons of floats in   *)
(* main.  Passes may put in the phis q, without an operand for the loop,   *)
(* and t.  With MCOpBoth and MCOperandsBoth sum compares floats, too.      *)
(***************************************************************************)
EXTENDS Labels, Frame

VARIABLES part,
          prog, activations, cells, bytes, a, fa  \* of CodeGen

valueVars == <<prog, activations, cells, bytes, a, fa>>
all == <<part, labelVars, valueVars, frameVars>>

----------------------------------------------------------------------------
(* The module that is named, printed and labelled. *)

V(f, op, type, operands) == [owner |-> f, op |-> op, type |-> type, operands |-> operands]

Values ==
  [n0  |-> V("sum", "arg", "i32", <<>>),
   b0  |-> V("sum", "block", "label", <<>>),
   p   |-> V("sum", "alloca", "i32*", <<>>),
   s   |-> V("sum", "store", "void", <<"n0", "p">>),
   j   |-> V("sum", "br", "void", <<"b1">>),
   b1  |-> V("sum", "block", "label", <<>>),
   i   |-> V("sum", "phi", "i32", <<"zero", "b0", "n", "b1">>),
   l   |-> V("sum", "load", "i32", <<"p">>),
   n   |-> V("sum", "add", "i32", <<"i", "l">>),
   g   |-> V("sum", "getelementptr", "i32*", <<"table", "zero", "n">>),
   e   |-> V("sum", "icmp", "i1", <<"zero", "n">>),
   c   |-> V("sum", "icmp", "i1", <<"n", "n0">>),
   k   |-> V("sum", "br", "void", <<"c", "b1", "b2">>),
   b2  |-> V("sum", "block", "label", <<>>),
   r   |-> V("sum", "ret", "void", <<"n">>),
   o   |-> V("put", "arg", "float", <<>>),
   m0  |-> V("main", "block", "label", <<>>),
   m1  |-> V("main", "call", "i32", <<"sum", "zero">>),
   m2  |-> V("main", "sitofp", "float", <<"m1">>),
   u   |-> V("main", "fcmp", "i1", <<"half", "m2">>),
   h   |-> V("main", "fcmp", "i1", <<"m2", "half">>),
   w   |-> V("main", "zext", "i32", <<"u">>),
   m3  |-> V("main", "call", "void", <<"put", "m2">>),
   m4  |-> V("main", "ret", "void", <<>>),
   \* put in by passes
   q   |-> V("sum", "phi", "i32", <<"zero", "b0">>),
   t   |-> V("sum", "phi", "i32", <<"q", "b1">>)]

MCFunctionList == <<"put", "sum", "main">>
MCFunction == Elements(MCFunctionList)
MCValue == DOMAIN Values
MCOutside == {"zero", "half", "table"}
MCOwner == [v \in MCValue |-> Values[v].owner]
MCOp == [v \in MCValue |-> Values[v].op]
MCTypeOf ==
  [x \in MCValue \cup MCOutside \cup MCFunction |->
     IF x \in MCValue THEN Values[x].type
     ELSE CASE x = "zero" -> "i32" [] x = "half" -> "float" [] x = "table" -> "array*"
            [] OTHER -> "function"]
MCElement == [t \in {"i32*", "array*"} |-> IF t = "i32*" THEN "i32" ELSE "array"]
MCOperands == [v \in MCValue |-> Values[v].operands]
\* The comparison e of sum is one of floats.
MCOpBoth == [MCOp EXCEPT !["e"] = "fcmp"]
MCOperandsBoth == [MCOperands EXCEPT !["e"] = <<"half", "half">>]
MCStart ==
  [f \in MCFunction |->
     CASE f = "sum" ->
            <<"n0", "b0", "p", "s", "j", "b1", "i", "l", "n", "g", "e", "c", "k", "b2", "r">>
       [] f = "put" -> <<"o">>
       [] f = "main" -> <<"m0", "m1", "m2", "u", "h", "w", "m3", "m4">>]
MCErasable == {"g", "q", "w"}
MCGlobals == {"table", "y"}
\* y is called exit2, the label of a third comparison.
MCSymbol == [x \in MCFunction \cup MCGlobals |-> IF x = "y" THEN <<"exit", 2>> ELSE <<x>>]

----------------------------------------------------------------------------
(* The programs that are run and the frames that are laid out. *)

Compiled == INSTANCE CodeGenPrograms

CG == INSTANCE CodeGen WITH
        Programs <- Compiled!CallsAndLoops, StackSize <- 256, calls <- activations, mem <- bytes

\* Frames of 32, 2032, 2064 and 4128 bytes, and offsets on both sides of 2048; no
\* array is larger than an immediate, no frame has 2048 bytes.
Frames == {<<4>>, <<2004>>, <<2024>>, <<2048, 2000>>}

Limits == {-1, 2047, 2048, -2048, -2049, 4096, 2147483647, 2147479552, -2147483647 - 1}

----------------------------------------------------------------------------

Idle(x) == x = <<>>

MCInit ==
  /\ LabelsInit
  /\ part \in {"text", "values", "frames"}
  /\ IF part = "values" THEN CG!Init
     ELSE Idle(prog) /\ Idle(activations) /\ Idle(cells) /\ Idle(bytes) /\ Idle(a) /\ Idle(fa)
  /\ FrameInit /\ (part # "frames" => Innermost.arrays = <<4>>)

TextNext ==
  part = "text" /\ LabelsNext /\ UNCHANGED <<part, valueVars, frameVars>>
ValuesNext ==
  part = "values" /\ CG!Next /\ UNCHANGED <<part, labelVars, frameVars>>
FramesNext ==
  part = "frames" /\ FrameNext /\ UNCHANGED <<part, labelVars, valueVars>>

MCNext == TextNext \/ ValuesNext \/ FramesNext

MCSpec == MCInit /\ [][MCNext]_all

\* The behaviours of Labels alone.
TextSpec == MCInit /\ part = "text" /\ [][MCNext]_all

----------------------------------------------------------------------------
(* The property of CodeGen, for its part. *)

\* The generated code computes with the values of the program: each operand it reads
\* holds what the IR says (CodeGen).
OperandsRead == part = "values" => CG!TypeOK /\ CG!OperandsRead
=============================================================================
