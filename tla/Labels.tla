------------------------------- MODULE Labels -------------------------------
(***************************************************************************)
(* The labels of the assembly and the references to them.  CodeGen::run    *)
(* has all values named, then emits the global variables and function      *)
(* after function.  A block is labelled with the name of its function and  *)
(* its own, a comparison of floats with three labels and a number that is  *)
(* counted for each function.                                              *)
(*                                                                         *)
(* All labels of the output have the scope of the file.  A label is the    *)
(* tuple of the parts it is made of.  Names in the language are letters    *)
(* and digits, never an underscore or a dot: no name spells the label of a *)
(* block or true_label<n>, but exit0 is a name and a label of gen_fcmp.    *)
(***************************************************************************)
EXTENDS Naming

CONSTANTS Globals,  \* the global variables
          Symbol    \* Symbol[x]: the label that the name of a function or global spells

\* Of the names only those that gen_fcmp might make matter.
ASSUME SymbolAssumption ==
  \A x \in Function \cup Globals :
    /\ Symbol[x] \in {<<x>>} \cup ({"exit"} \X Nat)
    /\ \A y \in Function \cup Globals : Symbol[x] = Symbol[y] => x = y

ASSUME GlobalsAssumption ==
  /\ IsFiniteSet(Globals) /\ Globals \cap Function = {}
  /\ \A i, j \in DOMAIN FunctionList : FunctionList[i] = FunctionList[j] => i = j

VARIABLES labels,   \* the labels in the order of the output
          refs,     \* the labels that branches and calls name
          tfcount,  \* context.tfcount
          emitting, \* the functions that are still to be emitted
          next,     \* the next value of the first of them
          stage     \* "before", "naming", "emitting" or "done"

output == <<labels, refs, tfcount, emitting, next, stage>>
labelVars == <<vars, output>>

\* The globals come first, in some order.
LabelsInit ==
  /\ Init
  /\ labels = <<>> /\ refs = {}
  /\ tfcount = 0
  /\ emitting = <<>> /\ next = 0
  /\ stage = "before"

\* Slip: names are not set before the labels are made.
StartUnnamed ==
  /\ stage = "before"
  /\ stage' = "naming"
  /\ UNCHANGED <<vars, labels, refs, tfcount, emitting, next>>

\* CodeGen::run calls set_print_name.
StartRun ==
  /\ stage = "before"
  /\ Begin /\ printing' = FALSE
  /\ stage' = "naming"
  /\ UNCHANGED <<labels, refs, tfcount, emitting, next>>

Name ==
  /\ stage = "naming"
  /\ Walk \/ NameValue \/ SkipValue \/ Walked \/ AllWalked
  /\ UNCHANGED output

\* The names are set; the global variables are emitted.
EmitGlobals ==
  /\ stage = "naming" /\ phase = "idle"
  /\ \E order \in [1..Cardinality(Globals) -> Globals] :
       /\ Elements(order) = Globals
       /\ labels' = [i \in DOMAIN order |-> Symbol[order[i]]]
  /\ emitting' = FunctionList /\ next' = 0
  /\ stage' = "emitting"
  /\ UNCHANGED <<vars, refs, tfcount>>

Current == Head(emitting)
Emitting == stage = "emitting" /\ emitting # <<>>

\* A function that is only declared has no code.
EmitDeclaration ==
  /\ Emitting /\ next = 0 /\ IsDeclaration(Current)
  /\ emitting' = Tail(emitting)
  /\ UNCHANGED <<vars, labels, refs, tfcount, next, stage>>

EmitFunction ==
  /\ Emitting /\ next = 0 /\ ~IsDeclaration(Current)
  /\ labels' = Append(labels, Symbol[Current])
  /\ tfcount' = 0
  /\ next' = 1
  /\ UNCHANGED <<vars, refs, emitting, stage>>

\* label_name.
LabelName(b) == <<".", Owner[b], "_", name[b]>>

FcmpLabels == <<<<"true_label", tfcount>>, <<"false_label", tfcount>>, <<"exit", tfcount>>>>

NextCount == tfcount + 1

\* What the next value adds: a block its label, gen_fcmp its three, gen_br and
\* gen_call the names of their targets.
EmitValue ==
  /\ Emitting /\ next \in DOMAIN body[Current]
  /\ LET v == body[Current][next]
         blocks == {b \in OperandsOf(v) \cap Value : Op[b] = "block"}
     IN /\ labels' = labels \o (CASE Op[v] = "block" -> <<LabelName(v)>>
                                  [] Op[v] = "fcmp" -> FcmpLabels
                                  [] OTHER -> <<>>)
        /\ refs' = refs \cup (CASE Op[v] = "br" -> {LabelName(b) : b \in blocks}
                                [] Op[v] = "call" -> {Symbol[Operands[v][1]]}
                                [] Op[v] = "fcmp" -> Elements(FcmpLabels)
                                [] OTHER -> {})
        /\ tfcount' = IF Op[v] = "fcmp" THEN NextCount ELSE tfcount
  /\ next' = next + 1
  /\ UNCHANGED <<vars, emitting, stage>>

FunctionEmitted ==
  /\ Emitting /\ next > Len(body[Current])
  /\ emitting' = Tail(emitting) /\ next' = 0
  /\ UNCHANGED <<vars, labels, refs, tfcount, stage>>

Emitted ==
  /\ stage = "emitting" /\ emitting = <<>>
  /\ stage' = "done"
  /\ UNCHANGED <<vars, labels, refs, tfcount, emitting, next>>

\* Before the code generator runs, passes edit the module and it may be printed.
Before ==
  /\ stage = "before"
  /\ \/ Edit
     \/ Begin /\ printing'
     \/ Walk \/ NameValue \/ SkipValue \/ Walked \/ AllWalked
  /\ UNCHANGED output

LabelsNext ==
  \/ Before \/ StartRun \/ Name \/ EmitGlobals \/ EmitDeclaration \/ EmitFunction \/ EmitValue
  \/ FunctionEmitted \/ Emitted

LabelsSpec == LabelsInit /\ [][LabelsNext]_labelVars

----------------------------------------------------------------------------
(* Properties. *)

\* Every label that a branch or a call names is there in the end, or is a function of
\* the runtime: blocks are named before a label is made of a name, and a branch ahead
\* names the label that its block will have.
LabelsDefined ==
  stage = "done" =>
    refs \subseteq Elements(labels) \cup {Symbol[f] : f \in {f \in Function : IsDeclaration(f)}}

\* No label stands at two places of the file, which an assembler would refuse.  The
\* labels of comparisons do when two functions compare floats, for the count begins
\* again with each function and its name is not part of the label.
LabelsDistinct == \A i, j \in DOMAIN labels : labels[i] = labels[j] => i = j

\* Every branch and call goes where the program says.
ReferencesResolve == LabelsDefined /\ LabelsDistinct

\* The modules in which the labels of comparisons meet no other label.
OneFunctionCompares ==
  \A v, w \in Value : Op[v] = "fcmp" /\ Op[w] = "fcmp" => Owner[v] = Owner[w]
NoExitNames == \A x \in Function \cup Globals : Symbol[x] \notin {"exit"} \X Nat
=============================================================================
