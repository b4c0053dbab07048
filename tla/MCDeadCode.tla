----------------------------- MODULE MCDeadCode -----------------------------
(***************************************************************************)
(* FuncInfo and DeadCode on two families of modules, both with main, a     *)
(* library function and two functions f and g.                             *)
(*  - In the first, f and g call any of the others (themselves included)   *)
(*    and access a local array, a global or a pointer loaded from a local, *)
(*    at the end of a chain of getelementptr.                              *)
(*  - In the second, f has two phis that may use each other, a call and a  *)
(*    return; g stores to a global, or to a local, or has dead loads only. *)
(***************************************************************************)
EXTENDS DeadCode, TLC

MCFunc == {"main", "lib", "f", "g"}
\* First family: of f a1 alloca, a2 gep, a3 load or store, a4 and a5 calls; of g
\* b1, b2, b3; of main m1.  Second family: the others.
CallInstr == {"a1", "a2", "a3", "a4", "a5", "b1", "b2", "b3", "m1"}
PhiInstr == {"c1", "c2", "p", "q", "c", "r", "a", "s", "l"}
MCInstr == CallInstr \cup PhiInstr
MCDatum == {"glob", "k"}

\* What f does with its array or with the global.
Access == {<<"load", <<"a2">>>>, <<"store", <<"k", "a2">>>>}
\* The base that g stores through: a local, a pointer it loaded, the global.
StoreBase == {<<"alloca", "b1">>, <<"load", "b1">>, <<"alloca", "glob">>}
\* The calls of f and of g, the functions they call, in order.
CallsOfF == {<<>>} \cup {<<c>> : c \in {"lib", "f", "g"}} \cup ({"lib", "f", "g"} \X {"f", "g"})
CallsOfG == {<<>>} \cup {<<c>> : c \in {"lib", "f", "g"}}

Calling ==
  \E base \in {"a1", "glob"}, acc \in Access, sb \in StoreBase, fc \in CallsOfF, gc \in CallsOfG :
    /\ opcode = [i \in Instr |->
         CASE i = "a1" -> "alloca"
           [] i = "a2" -> "gep"
           [] i = "a3" -> acc[1]
           [] i = "b1" -> sb[1]
           [] i = "b2" -> "store"
           [] i \in {"a4", "a5", "b3", "m1"} -> "call"
           [] OTHER -> "other"]
    /\ operands = [i \in Instr |->
         CASE i = "a2" -> <<base, "k">>
           [] i = "a3" -> acc[2]
           [] i = "a4" /\ Len(fc) > 0 -> <<fc[1]>>
           [] i = "a5" /\ Len(fc) > 1 -> <<fc[2], "k">>
           [] i = "b1" -> IF sb[1] = "load" THEN <<"glob">> ELSE <<>>
           [] i = "b2" -> <<"k", sb[2]>>
           [] i = "b3" /\ Len(gc) > 0 -> <<gc[1], "k">>
           [] i = "m1" -> <<"f">>
           [] OTHER -> <<>>]
    /\ body = [h \in Func |->
         CASE h = "f" -> {"a1", "a2", "a3"} \cup {<<"a4", "a5">>[n] : n \in DOMAIN fc}
           [] h = "g" -> {"b1", "b2"} \cup {"b3" : n \in DOMAIN gc}
           [] h = "main" -> {"m1"}
           [] h = "lib" -> {}]
    /\ ptrParam \in {{}} \cup {{"g"} : l \in {sb} \cap {<<"alloca", "b1">>}}

Phis ==
  /\ \E p, q \in {"p", "q", "c"}, callee \in {"f", "lib", "g"}, arg \in {"p", "k"}, rv \in {"p", "q"},
        addr \in {"a", "glob"}, gUse \in {"k", "l"} :
       operands = [i \in Instr |->
            CASE i = "c1" -> <<"f", "k">>
              [] i = "c2" -> <<"k">>
              [] i = "p" -> <<"k", p>>
              [] i = "q" -> <<q, "k">>
              [] i = "c" -> <<callee, arg>>
              [] i = "r" -> <<rv>>
              [] i = "s" -> <<gUse, addr>>
              [] i = "l" -> <<addr>>
              [] OTHER -> <<>>]
  /\ opcode = [i \in Instr |->
            CASE i \in {"p", "q"} -> "phi"
              [] i \in {"c1", "c"} -> "call"
              [] i \in {"c2", "r"} -> "ret"
              [] i = "a" -> "alloca"
              [] i = "s" -> "store"
              [] i = "l" -> "load"
              [] OTHER -> "other"]
  /\ body \in {[h \in Func |->
            CASE h = "f" -> {"p", "q", "c", "r"}
              [] h = "g" -> G
              [] h = "main" -> {"c1", "c2"}
              [] h = "lib" -> {}] : G \in {{"a", "s", "l"}, {"a", "l"}}}
  /\ ptrParam = {}

MCInit == (Calling \/ Phis) /\ decl = {"lib"} /\ Init

MCSpec == MCInit /\ [][Next]_vars /\ WF_vars(Next)
=============================================================================
