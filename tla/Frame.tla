-------------------------------- MODULE Frame --------------------------------
(***************************************************************************)
(* The stack frame at the level of machine instructions.  gen_prologue,    *)
(* gen_epilogue, gen_alloca and the loads and stores of slots append       *)
(* instructions whose immediates have a limited width; what does not fit   *)
(* takes another path.  Here the appended instructions are executed one by *)
(* one on the registers they name, and each has to fit its encoding.       *)
(*                                                                         *)
(* A function is given by the sizes of its local arrays; its values are    *)
(* the pointers to them and one integer, which allocate() puts into the    *)
(* frame in this order.  Widths of slots are in CodeGen: here a cell of    *)
(* memory holds a whole value.                                             *)
(***************************************************************************)
EXTENDS Integers, Sequences

CONSTANTS Functions,    \* the sizes of the arrays, for each function
          Constants,    \* the integer constants of the program
          MaxDepth,     \* bound on the activations
          MaxOperations \* bound on the IR instructions of each

VARIABLES regs,  \* the registers, those of callers included
          mem,   \* what has been written to memory
          code,  \* the instructions appended for the IR instruction at hand
          calls, \* the activations: arrays, entry values of sp, fp, ra
          goal   \* what the instructions at hand are for

frameVars == <<regs, mem, code, calls, goal>>

IMM_12_MAX == 2047
IMM_12_MIN == -2048
IS_IMM_12(x) == x \in IMM_12_MIN..IMM_12_MAX
ALIGN(n, alignment) == ((n + alignment - 1) \div alignment) * alignment

----------------------------------------------------------------------------
(* allocate(). *)

\* The offset after the first n arrays, with their pointers.
OffsetAfter(f) ==
  LET after[n \in 0..Len(f)] == IF n = 0 THEN 16 ELSE ALIGN(after[n - 1] + 8, 8) + f[n]
  IN after

PointerSlot(f, k) == -ALIGN(OffsetAfter(f)[k - 1] + 8, 8)
IntegerOffset(f) == ALIGN(OffsetAfter(f)[Len(f)] + 4, 4)
IntegerSlot(f) == -IntegerOffset(f)

FrameSize(f) == ALIGN(IntegerOffset(f), 16)

\* The ints, and the sizes of arrays whose space fits an immediate.
Int32(x) == x \in Int /\ -2147483647 - 1 <= x /\ x <= 2147483647
Small(size) == size \in Nat /\ size <= 2048

\* The programs for which the properties below hold: the constants are ints, arrays fit an
\* immediate, and so does a frame in both directions or in none (one of 2048 bytes fits
\* in the prologue only).
Supported ==
  /\ \A c \in Constants : Int32(c)
  /\ MaxOperations \in Nat
  /\ \A f \in Functions : /\ f \in Seq(Nat) /\ \A k \in DOMAIN f : Small(f[k])
                          /\ Int32(FrameSize(f)) /\ FrameSize(f) # 2048
ASSUME FramesSupported == Supported

----------------------------------------------------------------------------
(* Instructions: operation, target, source and immediate or second source. *)

I(op, rd, rj, x) == [op |-> op, rd |-> rd, rj |-> rj, x |-> x]

\* Slip: lu32i.d and lu52i.d get zero, as if the value were not negative.
HighOfUnsigned(val) == 0

\* The upper half of val, an int; its parts for lu32i.d and lu52i.d are equal to it.
High(val) == IF val < 0 THEN -1 ELSE 0

LoadLargeInt32(val, r) ==
  <<I("lu12i.w", r, r, val \div 4096), I("ori", r, r, val % 4096)>>

LoadLargeInt64(val, r) ==
  LoadLargeInt32(val, r) \o <<I("lu32i.d", r, r, High(val)), I("lu52i.d", r, r, High(val))>>

\* An access to a slot: by its offset from $fp, or by an address made in scratch.
Access(op, r, offset, scratch) ==
  IF IS_IMM_12(offset)
  THEN <<I(op, r, "fp", offset)>>
  ELSE LoadLargeInt64(offset, scratch)
         \o <<I("add.d", scratch, "fp", scratch), I(op, r, scratch, 0)>>

\* load_from_stack_to_greg makes the address in the target, store_from_greg in $t8.
LoadFromStack(r, offset) == Access("ld", r, offset, r)
StoreFromGreg(r, offset) == Access("st", r, offset, "t8")

\* load_to_greg of a constant.
LoadConstant(val, r) ==
  IF IS_IMM_12(val) THEN <<I("addi", r, "zero", val)>> ELSE LoadLargeInt32(val, r)

\* gen_prologue.
Prologue(f) ==
  LET size == FrameSize(f)
  IN IF IS_IMM_12(-size)
     THEN <<I("st", "ra", "sp", -8), I("st", "fp", "sp", -16),
            I("addi", "fp", "sp", 0), I("addi", "sp", "sp", -size)>>
     ELSE LoadLargeInt64(size, "t0")
            \o <<I("st", "ra", "sp", -8), I("st", "fp", "sp", -16),
                 I("sub.d", "sp", "sp", "t0"), I("add.d", "fp", "sp", "t0")>>

\* Slip: $fp is read before $sp is back.
EpilogueReadsEarly(f) ==
  <<I("ld", "ra", "sp", -8), I("ld", "fp", "sp", -16)>>
    \o (IF IS_IMM_12(-FrameSize(f)) THEN <<I("addi", "sp", "sp", FrameSize(f))>>
        ELSE LoadLargeInt64(FrameSize(f), "t0") \o <<I("add.d", "sp", "sp", "t0")>>)

\* gen_epilogue.
Epilogue(f) ==
  (IF IS_IMM_12(-FrameSize(f)) THEN <<I("addi", "sp", "sp", FrameSize(f))>>
   ELSE LoadLargeInt64(FrameSize(f), "t0") \o <<I("add.d", "sp", "sp", "t0")>>)
    \o <<I("ld", "ra", "sp", -8), I("ld", "fp", "sp", -16)>>

\* Slip: the test is for the size where the offset is meant.
AllocaCodeTestsSize(f, k) ==
  (IF IS_IMM_12(f[k])
   THEN <<I("addi", "t0", "fp", PointerSlot(f, k))>>
   ELSE LoadLargeInt64(PointerSlot(f, k), "t0") \o <<I("add.d", "t0", "fp", "t0")>>)
    \o <<I("addi", "t0", "t0", -f[k])>> \o StoreFromGreg("t0", PointerSlot(f, k))

\* gen_alloca of array k.
AllocaCode(f, k) ==
  (IF IS_IMM_12(PointerSlot(f, k))
   THEN <<I("addi", "t0", "fp", PointerSlot(f, k))>>
   ELSE LoadLargeInt64(PointerSlot(f, k), "t0") \o <<I("add.d", "t0", "fp", "t0")>>)
    \o <<I("addi", "t0", "t0", -f[k])>> \o StoreFromGreg("t0", PointerSlot(f, k))

----------------------------------------------------------------------------
(* The machine.  An integer register holds 64 bits; a value beyond 32 is    *)
(* only known not to be one that fits.                                      *)

Beyond == 1000000000

\* What instruction i writes to its target.
Computed(i) ==
  CASE i.op = "addi"    -> regs[i.rj] + i.x
    [] i.op = "add.d"   -> regs[i.rj] + regs[i.x]
    [] i.op = "sub.d"   -> regs[i.rj] - regs[i.x]
    [] i.op = "lu12i.w" -> i.x * 4096
    [] i.op = "ori"     -> regs[i.rj] + i.x        \* after lu12i.w the low bits are 0
    [] i.op \in {"lu32i.d", "lu52i.d"} ->             \* kept if x repeats its sign
         LET r == regs[i.rj] IN IF i.x = (IF r < 0 THEN -1 ELSE 0) THEN r ELSE Beyond
    [] i.op = "ld"      -> LET at == regs[i.rj] + i.x
                           IN IF at \in DOMAIN mem THEN mem[at] ELSE Beyond

\* Memory after a store of v.
Put(at, v) == [x \in DOMAIN mem \cup {at} |-> IF x = at THEN v ELSE mem[x]]

Execute ==
  /\ code # <<>>
  /\ LET i == Head(code)
     IN IF i.op = "st"
        THEN mem' = Put(regs[i.rj] + i.x, regs[i.rd]) /\ UNCHANGED regs
        ELSE regs' = [regs EXCEPT ![i.rd] = Computed(i)] /\ UNCHANGED mem
  /\ code' = Tail(code)
  /\ UNCHANGED <<calls, goal>>

----------------------------------------------------------------------------
(* The IR instructions of the function that runs. *)

Depth == Len(calls)
Innermost == calls[Depth]
Ready(kind) == code = <<>> /\ goal.kind = kind
Body == Ready("body") /\ Innermost.left > 0
Slot(offset) == Innermost.sp + offset

\* An integer that belongs to the activation.
Integer == 100 + Depth

Activation(f) == [arrays |-> f, sp |-> regs["sp"], fp |-> regs["fp"], ra |-> Depth,
                  left |-> MaxOperations]

FrameInit ==
  /\ \E f \in Functions :
       /\ calls = <<[arrays |-> f, sp |-> 0, fp |-> 7, ra |-> 0, left |-> MaxOperations]>>
       /\ code = Prologue(f)
  /\ regs = [r \in {"zero", "sp", "fp", "ra", "t0", "t8"} |-> CASE r = "fp" -> 7 [] OTHER -> 0]
  /\ mem = <<>>
  /\ goal = [kind |-> "prologue"]

Generate(kind, at, instructions) ==
  /\ goal' = [kind |-> kind, at |-> at]
  /\ code' = instructions
  /\ calls' = [calls EXCEPT ![Depth].left = @ - 1]
  /\ UNCHANGED mem

Constant ==
  /\ Body
  /\ \E c \in Constants : Generate("constant", c, LoadConstant(c, "t0"))
  /\ UNCHANGED regs

Load ==
  /\ Body
  /\ Generate("load", IntegerSlot(Innermost.arrays), LoadFromStack("t0", IntegerSlot(Innermost.arrays)))
  /\ UNCHANGED regs

\* The result of an instruction is in $t0 and goes to its slot.
Store ==
  /\ Body
  /\ Generate("store", IntegerSlot(Innermost.arrays), StoreFromGreg("t0", IntegerSlot(Innermost.arrays)))
  /\ regs' = [regs EXCEPT !["t0"] = Integer]

Alloca ==
  /\ Body
  /\ \E k \in DOMAIN Innermost.arrays :
       Generate("alloca", k, AllocaCode(Innermost.arrays, k))
  /\ UNCHANGED regs

\* gen_call: bl sets $ra, and the prologue of the callee runs.
Call ==
  /\ Body /\ Depth < MaxDepth
  /\ \E f \in Functions :
       /\ calls' = Append([calls EXCEPT ![Depth].left = @ - 1], Activation(f))
       /\ code' = Prologue(f)
  /\ regs' = [regs EXCEPT !["ra"] = Depth]
  /\ goal' = [kind |-> "prologue"]
  /\ UNCHANGED mem

\* gen_ret.
Return ==
  /\ Ready("body")
  /\ code' = Epilogue(Innermost.arrays)
  /\ goal' = [kind |-> "epilogue"]
  /\ UNCHANGED <<regs, mem, calls>>

\* jr $ra at the end of the epilogue; temporaries are lost over a call.
JumpBack ==
  /\ Ready("epilogue")
  /\ calls' = SubSeq(calls, 1, Depth - 1)
  /\ regs' = [regs EXCEPT !["t0"] = 0, !["t8"] = 0]
  /\ goal' = [kind |-> IF Depth = 1 THEN "returned" ELSE "body"]
  /\ UNCHANGED <<mem, code>>

\* What the instructions were for is done.
Done ==
  /\ code = <<>> /\ goal.kind \notin {"body", "epilogue", "returned"}
  /\ goal' = [kind |-> "body"]
  /\ UNCHANGED <<regs, mem, code, calls>>

FrameNext ==
  \/ Execute \/ Constant \/ Load \/ Store \/ Alloca \/ Call \/ Return \/ JumpBack \/ Done

FrameSpec == FrameInit /\ [][FrameNext]_frameVars

----------------------------------------------------------------------------
(* Properties. *)

\* The type invariant; the stack pointer never rises above that of the caller.
FrameTypeOK ==
  /\ \A r \in DOMAIN regs : regs[r] \in Int
  /\ regs["zero"] = 0
  /\ calls # <<>> => regs["sp"] <= Innermost.sp
  /\ goal.kind \in {"prologue", "body", "constant", "load", "store", "alloca", "epilogue", "returned"}

\* An instruction can be encoded: its immediate is in the range of its field.
Encoded(i) ==
  CASE i.op \in {"addi", "ld", "st", "lu52i.d"} -> IS_IMM_12(i.x)
    [] i.op = "ori" -> 0 <= i.x /\ i.x <= 4095
    [] i.op \in {"lu12i.w", "lu32i.d"} -> -524288 <= i.x /\ i.x <= 524287
    [] OTHER -> TRUE

\* What the generator emits can be encoded, which is what IS_IMM_12 and the split of
\* large constants are for.
Encodable == \A n \in DOMAIN code : Encoded(code[n])

\* When the instructions for an IR instruction are done, they have done what it
\* means, whichever path the size of the frame has made the generator take.
Meant ==
  code = <<>> =>
    CASE goal.kind = "prologue" -> /\ regs["fp"] = Innermost.sp
                                   /\ regs["sp"] = Innermost.sp - FrameSize(Innermost.arrays)
      [] goal.kind = "constant" -> regs["t0"] = goal.at
      [] goal.kind = "load" -> Slot(goal.at) \in DOMAIN mem => regs["t0"] = mem[Slot(goal.at)]
      [] goal.kind = "store" -> Slot(goal.at) \in DOMAIN mem /\ mem[Slot(goal.at)] = Integer
      [] goal.kind = "alloca" ->
           LET slot == Slot(PointerSlot(Innermost.arrays, goal.at))
           IN slot \in DOMAIN mem /\ mem[slot] = slot - Innermost.arrays[goal.at]
      [] OTHER -> TRUE

\* While a function runs, its slots and arrays lie above the stack pointer, and so do
\* the saved registers of every activation, which still hold what was saved: no
\* callee and no store to a slot has reached them.
AboveStackPointer ==
  goal.kind \notin {"prologue", "epilogue", "returned"} =>
    /\ Slot(IntegerSlot(Innermost.arrays)) >= regs["sp"]
    /\ \A k \in DOMAIN Innermost.arrays :
         Slot(PointerSlot(Innermost.arrays, k)) - Innermost.arrays[k] >= regs["sp"]
    /\ \A k \in 1..Depth :
         /\ calls[k].sp - 16 >= regs["sp"]
         /\ mem[calls[k].sp - 8] = calls[k].ra
         /\ mem[calls[k].sp - 16] = calls[k].fp

\* When a function returns, the registers of its caller are back, and it goes back
\* to where it was called.
CallerRestored ==
  /\ FrameTypeOK
  /\ AboveStackPointer
  /\ Ready("epilogue") =>
       regs["sp"] = Innermost.sp /\ regs["fp"] = Innermost.fp /\ regs["ra"] = Innermost.ra
=============================================================================
