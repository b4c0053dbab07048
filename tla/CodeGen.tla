------------------------------- MODULE CodeGen -------------------------------
(***************************************************************************)
(* CodeGen: LightIR becomes LoongArch assembly in which every value lives  *)
(* in a slot of the stack frame.  The module runs a program twice, in step *)
(* with each other: as IR (env, cells) and as the generated code would run *)
(* it on a byte-addressed stack and argument registers (mem, a, fa).  Each *)
(* IR instruction is one action; within it the code generator uses only    *)
(* temporaries, so that nothing but the stack and the argument registers   *)
(* carries values from one to the next.                                    *)
(*                                                                         *)
(* An instruction is a record [id, op, ty, args, more].  Operands are      *)
(* <<"v", id>> or constants <<ty, k>>; more holds what else the kind       *)
(* needs: the element type and number of elements (alloca), element type   *)
(* and index (getelementptr), the callee (call), predecessors in the order *)
(* of the operands (phi), targets (br).  The result of arithmetic is a     *)
(* token that alternates between two, so that a stale result shows.        *)
(***************************************************************************)
EXTENDS Integers, SequencesExt

CONSTANTS Programs,  \* each maps function names, "main" among them, to functions
          StackSize  \* bound on the bytes of stack in use

PROLOGUE_OFFSET_BASE == 16
PROLOGUE_ALIGN == 16

VARIABLES prog,
          calls,  \* the activations, innermost last
          cells,  \* IR memory: cells[n] is the value stored at address n
          mem,    \* machine memory: mem[n] is one byte, <<value, number of the byte>>
          a, fa   \* argument registers

vars == <<prog, calls, cells, mem, a, fa>>

Undefined == <<"undefined">>
Junk == <<"junk">>
Reg == 0..7
Address == -StackSize .. -1

\* Type::get_size.
Size(ty) == CASE ty = "i1" -> 1 [] ty \in {"i32", "float"} -> 4 [] ty = "ptr" -> 8

ALIGN(n, alignment) == ((n + alignment - 1) \div alignment) * alignment

----------------------------------------------------------------------------
(* allocate(). *)

\* What gets a slot, in order: the parameters, then the instructions with a value.
Items(f) == f.args \o FlattenSeq(f.blocks)
AllocaSize(i) == IF i.op = "alloca" THEN Size(i.more[1]) * i.more[2] ELSE 0

\* The end of the slot of item n of f, and how much is allocated after the item.
SlotEnd(i, offset) ==
  IF i.ty = "void" THEN offset ELSE ALIGN(offset + Size(i.ty), Size(i.ty))
OffsetAfter(f) ==
  LET items == Items(f)
      after[n \in 0..Len(items)] ==
        IF n = 0 THEN PROLOGUE_OFFSET_BASE
        ELSE SlotEnd(items[n], after[n - 1]) + AllocaSize(items[n])
  IN  after

\* offset_map of f, relative to $fp, and frame_size.
OffsetMap(f) ==
  LET items == Items(f)
      after == OffsetAfter(f)
      places == {n \in DOMAIN items : items[n].ty # "void"}
      place(id) == CHOOSE n \in places : items[n].id = id
  IN  [id \in {items[n].id : n \in places} |->
         -SlotEnd(items[place(id)], after[place(id) - 1])]
FrameSize(f) == ALIGN(OffsetAfter(f)[Len(Items(f))], PROLOGUE_ALIGN)

----------------------------------------------------------------------------
(* Memory and operands. *)

\* mem after width bytes of v have been written at address n.  An address
\* outside the stack writes nothing that is looked at here.
Write(m, n, v, width) ==
  [x \in Address |-> IF x \in n..(n + width - 1) THEN <<v, x - n>> ELSE m[x]]
Read(m, n, width) ==
  IF n \in Address /\ n + width - 1 \in Address
     /\ \A x \in n..(n + width - 1) : m[x] = <<m[n][1], x - n>>
    THEN m[n][1] ELSE Junk

Current == calls[Len(calls)]
Func == prog[Current.name]
Instr == Func.blocks[Current.block][Current.next]
Running == calls # <<>>
Runs(op) == Running /\ Instr.op = op

OperandType(f, o) ==
  IF o[1] # "v" THEN o[1]
  ELSE LET items == Items(f)
       IN  items[CHOOSE n \in DOMAIN items : items[n].id = o[2] /\ items[n].ty # "void"].ty

\* The value of an operand in the IR.
ValueOf(o) == IF o[1] = "v" THEN Current.env[o[2]] ELSE o

\* load_to_greg and load_to_freg: constants are immediates, other operands are
\* read from their slots with the width of their type.
Slot(id) == Current.fp + Current.offset_map[id]
Load(m, o) == IF o[1] = "v" THEN Read(m, Slot(o[2]), Size(OperandType(Func, o))) ELSE o

\* store_from_greg and store_from_freg.
Store(m, id, ty, v) == Write(m, Slot(id), v, Size(ty))

\* The instruction is done and, if it has a value, its IR value is v.
Step(v) ==
  calls' = [calls EXCEPT ![Len(calls)] =
              [@ EXCEPT !.next = @ + 1,
                        !.env = IF Instr.ty = "void" THEN @ ELSE [@ EXCEPT ![Instr.id] = v]]]

----------------------------------------------------------------------------
(* Entering a function. *)

\* The values of the parameters that the prologue of f moves from the registers
\* to the frame: integer and float parameters are counted apart.
ArgRegister(f, n) ==
  LET isFloat(m) == f.args[m].ty = "float"
      before == Cardinality({m \in 1..(n - 1) : isFloat(m) = isFloat(n)})
  IN  IF isFloat(n) THEN fa'[before] ELSE a'[before]

\* An activation of function name with the stack pointer at sp.
Activation(name, sp, values) ==
  LET f == prog[name]
      map == OffsetMap(f)
  IN  [name |-> name, block |-> 1, next |-> 1, fp |-> sp,
       offset_map |-> map, frame_size |-> FrameSize(f),
       env |-> [id \in DOMAIN map |->
                  IF \E n \in DOMAIN f.args : f.args[n].id = id
                    THEN values[CHOOSE n \in DOMAIN f.args : f.args[n].id = id]
                    ELSE Undefined]]

\* gen_prologue of f: $ra and $fp are saved, the parameters get their slots.
Prologue(m, f, sp, callerFp) ==
  LET saved == Write(Write(m, sp - 8, <<"ra", Len(calls)>>, 8), sp - 16, <<"fp", callerFp>>, 8)
      moved[n \in 0..Len(f.args)] ==
        IF n = 0 THEN saved
        ELSE Write(moved[n - 1], sp + OffsetMap(f)[f.args[n].id], ArgRegister(f, n),
                   Size(f.args[n].ty))
  IN  moved[Len(f.args)]

Init ==
  /\ prog \in Programs
  /\ calls = <<Activation("main", 0, <<>>)>>
  /\ cells = [n \in Address |-> Undefined]
  /\ mem = Write(Write([n \in Address |-> <<Junk, 0>>], -8, <<"ra", 0>>, 8), -16, <<"fp", 0>>, 8)
  /\ a = [r \in Reg |-> Junk] /\ fa = [r \in Reg |-> Junk]

----------------------------------------------------------------------------
(* The instructions. *)

\* gen_alloca: the address of the space below the slot; a float gets eight bytes.
Alloca ==
  /\ Runs("alloca")
  /\ LET address == Slot(Instr.id) - (IF Instr.more[1] = "float" /\ Instr.more[2] = 1
                                        THEN 8 ELSE AllocaSize(Instr))
         v == <<"address", address>>
     IN  /\ Step(v)
         /\ mem' = Store(mem, Instr.id, "ptr", v)
         /\ cells' = [n \in Address |->
              IF n \in address..(address + AllocaSize(Instr) - 1) THEN Undefined ELSE cells[n]]
  /\ UNCHANGED <<prog, a, fa>>

\* gen_gep, for the index a constant.
Gep ==
  /\ Runs("getelementptr")
  /\ LET at(v) == <<"address", v[2] + Instr.more[2] * Size(Instr.more[1])>>
         base == Load(mem, Instr.args[1])
     IN  /\ Step(at(ValueOf(Instr.args[1])))
         /\ mem' = Store(mem, Instr.id, "ptr", IF base = Junk THEN Junk ELSE at(base))
  /\ UNCHANGED <<prog, cells, a, fa>>

\* gen_load: a float is read as eight bytes, of which the lower four count.
LoadInst ==
  /\ Runs("load")
  /\ LET base == Load(mem, Instr.args[1])
     IN  /\ Step(cells[ValueOf(Instr.args[1])[2]])
         /\ mem' = Store(mem, Instr.id, Instr.ty,
                         IF base = Junk THEN Junk ELSE Read(mem, base[2], Size(Instr.ty)))
  /\ UNCHANGED <<prog, cells, a, fa>>

\* gen_store: fst.d writes eight bytes for a float, the upper four are whatever
\* the register holds.
StoreInst ==
  /\ Runs("store")
  /\ LET ty == OperandType(Func, Instr.args[1])
         base == Load(mem, Instr.args[2])
         v == Load(mem, Instr.args[1])
         written == Write(mem, base[2], v, Size(ty))
     IN  /\ Step(Undefined)
         /\ cells' = [cells EXCEPT ![ValueOf(Instr.args[2])[2]] = ValueOf(Instr.args[1])]
         /\ mem' = IF base = Junk THEN mem
                   ELSE IF ty = "float" THEN Write(written, base[2] + 4, Junk, 4) ELSE written
  /\ UNCHANGED <<prog, a, fa>>

\* What a comparison, a conversion or arithmetic computes: it depends on the
\* operands alone and differs from the result the instruction had last.
Result ==
  LET old == Current.env[Instr.id]
  IN  <<"result", Current.name, Instr.id, IF old = Undefined THEN 0 ELSE 1 - old[4]>>

\* gen_binary, gen_float_binary, gen_icmp, gen_fcmp, gen_zext, gen_sitofp and
\* gen_fptosi: the operands are loaded, the result is stored.
Compute ==
  /\ Runs("compute")
  /\ LET v == Result
     IN  /\ Step(v)
         /\ mem' = Store(mem, Instr.id, Instr.ty,
              IF \A n \in DOMAIN Instr.args : Load(mem, Instr.args[n]) = ValueOf(Instr.args[n])
                THEN v ELSE Junk)
  /\ UNCHANGED <<prog, cells, a, fa>>

\* gen_call: argument n goes to register n, $a or $fa by its type; then the callee
\* is entered.  It aborts (Reg::a) when there are more than eight.
Call ==
  /\ Runs("call")
  /\ Len(Instr.args) <= 8
  /\ LET isFloat(n) == OperandType(Func, Instr.args[n]) = "float"
         given(r) == Load(mem, Instr.args[r + 1])
         sp == Current.fp - Current.frame_size
     IN  /\ a' = [r \in Reg |-> IF r < Len(Instr.args) /\ ~ isFloat(r + 1) THEN given(r) ELSE a[r]]
         /\ fa' = [r \in Reg |-> IF r < Len(Instr.args) /\ isFloat(r + 1) THEN given(r) ELSE fa[r]]
         /\ sp - FrameSize(prog[Instr.more]) >= -StackSize
         /\ mem' = Prologue(mem, prog[Instr.more], sp, Current.fp)
         /\ calls' = Append(calls, Activation(Instr.more, sp,
                              [n \in DOMAIN Instr.args |-> ValueOf(Instr.args[n])]))
  /\ UNCHANGED <<prog, cells>>

\* gen_ret and gen_epilogue: the value goes to $a0 or $fa0, the caller's frame is
\* back, and the caller's gen_call stores the result.
Ret ==
  /\ Runs("ret")
  /\ LET v == IF Instr.args = <<>> THEN Undefined ELSE ValueOf(Instr.args[1])
         machine == IF Instr.args = <<>> THEN <<"i32", 0>> ELSE Load(mem, Instr.args[1])
         callers == Front(calls)
         caller == callers[Len(callers)]
         site == prog[caller.name].blocks[caller.block][caller.next]
         float == Instr.args # <<>> /\ OperandType(Func, Instr.args[1]) = "float"
     IN  /\ a' = IF float THEN a ELSE [a EXCEPT ![0] = machine]
         /\ fa' = IF float THEN [fa EXCEPT ![0] = machine] ELSE fa
         /\ IF callers = <<>>
              THEN calls' = <<>> /\ UNCHANGED mem
              ELSE /\ calls' = [callers EXCEPT ![Len(callers)] =
                         [@ EXCEPT !.next = @ + 1,
                                   !.env = IF site.ty = "void" THEN @ ELSE [@ EXCEPT ![site.id] = v]]]
                   /\ mem' = IF site.ty = "void" THEN mem
                             ELSE Write(mem, caller.fp + caller.offset_map[site.id], machine,
                                        Size(site.ty))
  /\ UNCHANGED <<prog, cells>>

\* The phis of block b of the current function, and the operand each takes in the
\* IR when control comes from block from.
Phis(b) == SelectSeq(Func.blocks[b], LAMBDA i : i.op = "phi")
Incoming(phi, from) == phi.args[CHOOSE n \in DOMAIN phi.more : phi.more[n] = from]

\* Slip: the first operand, wherever control comes from.
CopiedFirst(phi, from) == <<phi.args[1]>>

\* The operand Handle_phi takes for block from: the first if it is for that block,
\* otherwise the second if there is one.
Copied(phi, from) ==
  IF phi.more[1] = from THEN <<phi.args[1]>>
  ELSE IF Len(phi.args) > 1 THEN <<phi.args[2]>> ELSE <<>>

\* Handle_phi(from): for all successors in order, phi after phi, the operand is
\* loaded and stored to the slot of the phi at once.
HandlePhi(from, targets) ==
  LET phis == FlattenSeq([n \in DOMAIN targets |-> Phis(targets[n])])
      copied[n \in 0..Len(phis)] ==
        IF n = 0 THEN mem
        ELSE LET o == Copied(phis[n], from)
             IN  IF o = <<>> THEN copied[n - 1]
                 ELSE Store(copied[n - 1], phis[n].id, phis[n].ty, Load(copied[n - 1], o[1]))
  IN  copied[Len(phis)]

\* A branch, conditional or not: the copies for the phis come before the jump; in
\* the IR all phis of the block that is entered take their operands at once.
Br(target) ==
  /\ Runs("br")
  /\ target \in {Instr.more[n] : n \in DOMAIN Instr.more}
  /\ mem' = HandlePhi(Current.block, Instr.more)
  /\ LET phis == Phis(target)
         phi(id) == CHOOSE n \in DOMAIN phis : phis[n].id = id
     IN  calls' = [calls EXCEPT ![Len(calls)] =
           [@ EXCEPT !.block = target,
                     !.next = Len(phis) + 1,
                     !.env = [id \in DOMAIN @ |->
                        IF \E n \in DOMAIN phis : phis[n].id = id
                          THEN ValueOf(Incoming(phis[phi(id)], Current.block)) ELSE @[id]]]]
  /\ UNCHANGED <<prog, cells, a, fa>>

Next ==
  \/ Alloca \/ Gep \/ LoadInst \/ StoreInst \/ Compute \/ Call \/ Ret
  \/ \E b \in 1..(IF Running THEN Len(Func.blocks) ELSE 0) : Br(b)

Spec == Init /\ [][Next]_vars

----------------------------------------------------------------------------
(* Properties. *)

TypeOK ==
  /\ \A n \in DOMAIN calls :
       /\ calls[n].name \in DOMAIN prog
       /\ calls[n].block \in DOMAIN prog[calls[n].name].blocks
       /\ calls[n].next \in DOMAIN prog[calls[n].name].blocks[calls[n].block]
       /\ calls[n].fp - calls[n].frame_size \in (-StackSize)..0
       /\ calls[n].frame_size % PROLOGUE_ALIGN = 0
  /\ DOMAIN cells = Address /\ DOMAIN mem = Address
  /\ DOMAIN a = Reg /\ DOMAIN fa = Reg

\* The generated code computes with the values of the program: whenever an
\* instruction is about to run, what the code reads for each operand from its
\* slot, and for a load from the address, is the operand's value in the IR,
\* whatever stores, calls and phi copies came before.
OperandsRead ==
  Running =>
    /\ \A n \in DOMAIN Instr.args :
         ValueOf(Instr.args[n]) # Undefined => Load(mem, Instr.args[n]) = ValueOf(Instr.args[n])
    /\ Instr.op = "load" =>
         LET n == ValueOf(Instr.args[1])[2]
         IN  cells[n] # Undefined => Read(mem, n, Size(Instr.ty)) = cells[n]

=============================================================================
