------------------------------ MODULE MCMem2Reg ------------------------------
(* Functions for Mem2Reg to work on. *)
EXTENDS Mem2Reg

CONSTANTS x, y

store(v) == [op |-> "store", var |-> v, from |-> 0]
storeOf(v, i) == [op |-> "store", var |-> v, from |-> i]
load(v) == [op |-> "load", var |-> v, from |-> 0]

\* if with two arms, twice; a loop with an if in it; a loop in a loop; an if with
\* a loop in one arm.
TwoIfs == << <<2, 3>>, <<3>>, <<4, 5>>, <<5>>, <<>> >>
LoopIf == << <<2>>, <<3, 5>>, <<4, 2>>, <<2>>, <<>> >>
LoopInLoop == << <<2>>, <<3, 5>>, <<4, 2>>, <<3>>, <<>> >>
IfLoop == << <<2, 4>>, <<3, 5>>, <<2>>, <<5>>, <<>> >>
Graphs == {TwoIfs, LoopIf, LoopInLoop, IfLoop}

\* One variable, that the entry may set, the last block may read and the blocks
\* between use in every way; two variables that are set in the entry and then
\* copied to and swapped with each other, and read by the last block.
OneVar ==
  {f \in [Block -> {<<>>, <<store(x)>>, <<load(x)>>, <<load(x), store(x)>>}] :
     f[Entry] \in {<<>>, <<store(x)>>} /\ f[N] \in {<<>>, <<load(x)>>}}
Copies == {<<>>, <<load(x), load(y)>>, <<load(x), storeOf(y, 1)>>,
           <<load(x), load(y), storeOf(x, 2), storeOf(y, 1)>>}
TwoVars == {[b \in Block |-> IF b = Entry THEN <<store(x), store(y)>> ELSE f[b]] :
              f \in {f \in [Block \ {Entry} -> Copies] : f[N] = <<load(x), load(y)>>}}

\* A store of v comes before the load at <<b, i>> on some path.
OnSomePath(g, c, b, i, v) ==
  \/ \E j \in 1..(i - 1) : IsStore(c, b, j, v)
  \/ \E s \in StoresOf(c, v) : b \in ReachableFrom(g, s)

\* Every load of it comes after a store on some path.
Sensible(p) ==
  \A b \in Block : \A i \in DOMAIN p.code[b] :
    p.code[b][i].op = "load" => OnSomePath(p.succ, p.code, b, i, p.code[b][i].var)

HasLoad(p) == \E b \in Block : \E i \in DOMAIN p.code[b] : p.code[b][i].op = "load"
AllPrograms == {p \in [succ : Graphs, code : OneVar \cup TwoVars] : HasLoad(p)}
HandledPrograms == {p \in AllPrograms : Handled(p)}
SensiblePrograms == {p \in [succ : Graphs, code : OneVar] : HasLoad(p) /\ Sensible(p)}
=============================================================================
