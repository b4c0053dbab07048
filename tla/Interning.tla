------------------------------ MODULE Interning ------------------------------
(***************************************************************************)
(* Types and constants exist once: a Module keeps maps from the parts of a *)
(* pointer, array or function type to the one object that has them, and    *)
(* Constant.cpp keeps static maps from values to constants, for all        *)
(* modules together.  Builder, IR constructors and printer compare types   *)
(* by address and rely on it.                                              *)
(*                                                                         *)
(* An address is an index into the objects that have been made.  A map     *)
(* without an entry for a key is a function without it in its domain.      *)
(***************************************************************************)
EXTENDS Integers, Sequences, FiniteSets

CONSTANTS Modules,   \* the Module objects
          Ints,      \* the integers asked for
          Floats,    \* the floats asked for, among Zero, NegativeZero, NaN and others
          Lengths,   \* the lengths of arrays
          MaxArgs,   \* bound on the parameters of a function type
          MaxTypes,  \* bound on the types made, those of the constructor of Module apart
          MaxConstants, \* bound on the constants
          MaxGlobals \* bound on the global variables

ASSUME BoundsAssumption == MaxArgs \in Nat
ASSUME ModulesAssumption == "nullptr" \notin Modules

VARIABLES types,        \* the type objects, in the order they were made
          base,         \* void_ty_, label_ty_, int1_ty_, int32_ty_, float32_ty_ of each module
          pointer_map_, \* of all modules, each type being in one
          array_map_,
          function_map_,
          constants,    \* the constant objects
          cached_int,
          cached_bool,
          cached_float,
          cached_zero,
          globals,      \* the global variables: type and initial value
          answer        \* what was asked for last, and the address that was returned

typeVars == <<types, base, pointer_map_, array_map_, function_map_>>
constantVars == <<constants, cached_int, cached_bool, cached_float, cached_zero>>
internVars == <<types, base, pointer_map_, array_map_, function_map_, constants, cached_int,
          cached_bool, cached_float, cached_zero, globals, answer>>

NoModule == "nullptr"
Zero == "0"
NegativeZero == "-0"
NaN == "nan"

\* A type: its TypeID, its module, the addresses of its parts (contained_ or result_,
\* and args_), and num_bits_ or num_elements_, a word here as in the text of a type.
Type(id, m, contained, args, n) ==
  [id |-> id, m |-> m, contained |-> contained, args |-> args, n |-> n]

Simple(id, m, n) == Type(id, m, 0, <<>>, n)

Pointer(c) == Type("pointer", types[c].m, c, <<>>, "none")
Array(c, n) == Type("array", types[c].m, c, <<>>, n)
Function(ret, args) == Type("function", NoModule, ret, args, "none")

Addresses == DOMAIN types
IdOf(p) == types[p].id
ModuleOf(p) == types[p].m

\* The map f with key mapped to x.
Put(f, key, x) == [k \in DOMAIN f \cup {key} |-> IF k = key THEN x ELSE f[k]]

----------------------------------------------------------------------------
(* The assertions of the constructors. *)

is_valid_return_type(p) == IdOf(p) \in {"integer", "void", "float"}
is_valid_argument_type(p) == IdOf(p) \in {"integer", "pointer", "float"}
is_valid_element_type(p) == IdOf(p) \in {"integer", "array", "float"}
allowed_elem_type(p) == IdOf(p) \in {"integer", "float", "array", "pointer"}

----------------------------------------------------------------------------
(* Types. *)

TypesInit ==
  /\ types = <<>> /\ base = <<>>
  /\ pointer_map_ = <<>> /\ array_map_ = <<>> /\ function_map_ = <<>>
  /\ constants = <<>>
  /\ cached_int = <<>> /\ cached_bool = <<>> /\ cached_float = <<>> /\ cached_zero = <<>>
  /\ globals = <<>>
  /\ answer = [of |-> "nothing"]

NewModule(m) ==
  /\ m \notin DOMAIN base
  /\ types' = types \o <<Simple("void", m, "none"), Simple("label", m, "none"), Simple("integer", m, "1"),
                         Simple("integer", m, "32"), Simple("float", m, "none")>>
  /\ LET n == Len(types)
     IN base' = Put(base, m, [void |-> n + 1, label |-> n + 2, int1 |-> n + 3,
                              int32 |-> n + 4, float |-> n + 5])
  /\ UNCHANGED <<pointer_map_, array_map_, function_map_, constants, cached_int, cached_bool,
                 cached_float, cached_zero, globals, answer>>

Room == Len(types) < 5 * Cardinality(DOMAIN base) + MaxTypes
Answered(of, asked, got) == answer' = [of |-> of, asked |-> asked, got |-> got]

\* get_pointer_type(c) of the module of c.
FindPointer(c) ==
  IF c \in DOMAIN pointer_map_
  THEN UNCHANGED <<types, pointer_map_>>
  ELSE /\ Room /\ allowed_elem_type(c)
       /\ types' = Append(types, Pointer(c))
       /\ pointer_map_' = Put(pointer_map_, c, Len(types) + 1)

GetPointer(c) ==
  /\ ModuleOf(c) # NoModule
  /\ FindPointer(c)
  /\ Answered("type", Pointer(c), pointer_map_'[c])
  /\ UNCHANGED <<base, array_map_, function_map_, constantVars, globals>>

ArrayKey(c, n) == <<c, n>>

\* get_array_type(c, n) of the module of c.
GetArray(c, n) ==
  /\ ModuleOf(c) # NoModule
  /\ IF ArrayKey(c, n) \in DOMAIN array_map_
     THEN UNCHANGED <<types, array_map_>>
     ELSE /\ Room /\ is_valid_element_type(c)
          /\ types' = Append(types, Array(c, n))
          /\ array_map_' = Put(array_map_, ArrayKey(c, n), Len(types) + 1)
  /\ Answered("type", Array(c, n), array_map_'[ArrayKey(c, n)])
  /\ UNCHANGED <<base, pointer_map_, function_map_, constantVars, globals>>

\* Slip: FunctionType::get makes the type without asking the module.
GetFunctionAnew(ret, args) ==
  /\ is_valid_return_type(ret) /\ Room
  /\ \A k \in DOMAIN args : is_valid_argument_type(args[k])
  /\ types' = Append(types, Function(ret, args))
  /\ Answered("type", Function(ret, args), Len(types) + 1)
  /\ UNCHANGED <<base, pointer_map_, array_map_, function_map_, constantVars, globals>>

\* get_function_type(ret, args) of the module of ret; the type itself is given none.
GetFunction(ret, args) ==
  /\ ModuleOf(ret) # NoModule
  /\ IF <<ret, args>> \in DOMAIN function_map_
     THEN UNCHANGED <<types, function_map_>>
     ELSE /\ Room /\ is_valid_return_type(ret)
          /\ \A k \in DOMAIN args : is_valid_argument_type(args[k])
          /\ types' = Append(types, Function(ret, args))
          /\ function_map_' = Put(function_map_, <<ret, args>>, Len(types) + 1)
  /\ Answered("type", Function(ret, args), function_map_'[<<ret, args>>])
  /\ UNCHANGED <<base, pointer_map_, array_map_, constantVars, globals>>

----------------------------------------------------------------------------
(* Constants: their class, the address of their type and their value. *)

Constant(class, ty, v) == [class |-> class, type |-> ty, value |-> v]

\* The comparison == of floats, by which std::pair and thus the map compare.
FloatEqual(a, b) == a # NaN /\ b # NaN /\ (a = b \/ {a, b} = {Zero, NegativeZero})

\* Slip: the module is not part of the key.
KeyWithoutModule(v, m) == <<v, NoModule>>

Key(v, m) == <<v, m>>

Fresh(c) == Len(constants) < MaxConstants /\ constants' = Append(constants, c)

GetInt(v, m) ==
  LET c == Constant("int", base[m].int32, v)
  IN /\ IF Key(v, m) \in DOMAIN cached_int
        THEN UNCHANGED <<constants, cached_int>>
        ELSE /\ Fresh(c)
             /\ cached_int' = Put(cached_int, Key(v, m), Len(constants) + 1)
     /\ Answered("constant", c, cached_int'[Key(v, m)])
     /\ UNCHANGED <<typeVars, cached_bool, cached_float, cached_zero, globals>>

GetBool(v, m) ==
  LET c == Constant("int", base[m].int1, IF v THEN 1 ELSE 0)
  IN /\ IF Key(v, m) \in DOMAIN cached_bool
        THEN UNCHANGED <<constants, cached_bool>>
        ELSE /\ Fresh(c)
             /\ cached_bool' = Put(cached_bool, Key(v, m), Len(constants) + 1)
     /\ Answered("constant", c, cached_bool'[Key(v, m)])
     /\ UNCHANGED <<typeVars, cached_int, cached_float, cached_zero, globals>>

\* The entries of cached_float that find(<v, m>) can return.
Found(v, m) == {k \in DOMAIN cached_float : k[2] = m /\ FloatEqual(k[1], v)}

\* NaN is never found: each request enters another constant, beside the ones before;
\* the key then carries the number of the constant.
GetFloat(v, m) ==
  LET c == Constant("fp", base[m].float, v)
  IN /\ IF Found(v, m) # {}
        THEN /\ \E k \in Found(v, m) : Answered("constant", c, cached_float[k])
             /\ UNCHANGED <<constants, cached_float>>
        ELSE /\ Fresh(c)
             /\ cached_float' = Put(cached_float, <<v, m, Len(constants) + 1>>, Len(constants) + 1)
             /\ Answered("constant", c, Len(constants) + 1)
     /\ UNCHANGED <<typeVars, cached_int, cached_bool, cached_zero, globals>>

\* ConstantZero::get does not look at its module: types of two modules differ.
FindZero(ty) ==
  IF ty \in DOMAIN cached_zero
  THEN UNCHANGED <<constants, cached_zero>>
  ELSE /\ Fresh(Constant("zero", ty, 0))
       /\ cached_zero' = Put(cached_zero, ty, Len(constants) + 1)

\* The declaration of a global array: ConstantZero::get, then GlobalVariable::create
\* with its PointerType::get.
CreateGlobal(ty) ==
  /\ Len(globals) < MaxGlobals
  /\ IdOf(ty) = "array" /\ ModuleOf(ty) # NoModule
  /\ FindZero(ty)
  /\ FindPointer(ty)
  /\ globals' = Append(globals, [type |-> pointer_map_'[ty], init |-> cached_zero'[ty]])
  /\ Answered("constant", Constant("zero", ty, 0), cached_zero'[ty])
  /\ UNCHANGED <<base, array_map_, function_map_, cached_int, cached_bool, cached_float>>

Arguments == UNION {[1..n -> Addresses] : n \in 0..MaxArgs}

TypesNext ==
  \/ \E m \in Modules : NewModule(m)
  \/ \E c \in Addresses : GetPointer(c) \/ CreateGlobal(c)
  \/ \E c \in Addresses, n \in Lengths : GetArray(c, n)
  \/ \E ret \in Addresses : \E args \in Arguments : GetFunction(ret, args)
  \/ \E m \in DOMAIN base : \/ \E v \in Ints : GetInt(v, m)
                            \/ \E v \in BOOLEAN : GetBool(v, m)
                            \/ \E v \in Floats : GetFloat(v, m)

TypesSpec == TypesInit /\ [][TypesNext]_internVars

----------------------------------------------------------------------------
(* Type::print. *)

\* Slip: the length is not printed.
ArrayTextWithoutLength(n, element) == <<"[", "x">> \o element \o <<"]">>

ArrayText(n, element) == <<"[", n, "x">> \o element \o <<"]">>

\* What print() of each type returns, as a sequence of words.
Text ==
  LET Word(w) == <<w>>
      text[p \in 0..Len(types)] ==
        IF p = 0 THEN <<>>
        ELSE LET ty == types[p]
                 Args[k \in 0..Len(ty.args)] ==
                   IF k = 0 THEN <<>>
                   ELSE Args[k - 1] \o (IF k > 1 THEN <<",">> ELSE <<>>) \o text[ty.args[k]]
             IN CASE ty.id \in {"void", "label", "float"} -> Word(ty.id)
                  [] ty.id = "integer" -> <<"i", ty.n>>
                  [] ty.id = "pointer" -> text[ty.contained] \o <<"*">>
                  [] ty.id = "array" -> ArrayText(ty.n, text[ty.contained])
                  [] ty.id = "function" ->
                       text[ty.contained] \o <<"(">> \o Args[Len(ty.args)] \o <<")">>
  IN text

----------------------------------------------------------------------------
(* Properties. *)

\* Two types with the same parts are the same object, whatever order the requests
\* came in: comparing addresses (cminusf_builder.cpp:433, IRprinter.cpp:105, the
\* assertions of Instruction.cpp) is comparing types.
TypesUnique == \A p, q \in Addresses : types[p] = types[q] => p = q

\* What a request returns is what was asked for: the parts, the module, the length;
\* a float may differ in the sign of a zero, which == does not see.
RightAnswer ==
  /\ answer.of = "type" => types[answer.got] = answer.asked
  /\ answer.of = "constant" =>
       LET c == constants[answer.got]
       IN /\ c.class = answer.asked.class /\ c.type = answer.asked.type
          /\ \/ c.value = answer.asked.value
             \/ c.class = "fp" /\ FloatEqual(c.value, answer.asked.value)

\* The module whose types a type is made of: a function type has none itself.
Home(p) == IF IdOf(p) = "function" THEN ModuleOf(types[p].contained) ELSE ModuleOf(p)

\* In the text of one module, different types read differently.
PrintsApart ==
  LET text == Text
  IN \A p, q \in Addresses : text[p] = text[q] /\ Home(p) = Home(q) => p = q
=============================================================================
