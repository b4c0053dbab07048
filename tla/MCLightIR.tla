------------------------------ MODULE MCLightIR ------------------------------
(***************************************************************************)
(* The data structures of LightIR in one run: the def-use chains, the      *)
(* lists of the control-flow graph and the tables of types and constants.  *)
(* They share no state; a behaviour is a behaviour of one of them, chosen  *)
(* at the start, and the others stay empty.  Two instances of the first    *)
(* and the last differ in their bounds:                                    *)
(*   "chains"    four values, two operands to a user;                      *)
(*   "operands"  one user with three operands, for remove_operand;         *)
(*   "blocks"    three blocks that can be created again where they were;   *)
(*   "types"     one module, the types made on request and one global;     *)
(*   "constants" two modules with the constants that both ask for.         *)
(***************************************************************************)
EXTENDS DefUse, ControlFlow, Interning

CONSTANTS u1, u2, c1, c2, b1, b2, b3

VARIABLE part  \* the part that runs

all == <<vars, blockVars, internVars, part>>

MCValue == {u1, u2, c1, c2}
MCUser == {u1, u2}
MCBlock == {b1, b2, b3}

\* Predicates: the uses in u1, and the uses as first operand.
MCFilters == {{u1} \X (1..MaxOperands), User \X {1}}

TwoModules == {"m1", "m2"}
SomeInts == {0, 1}
SomeFloats == {Zero, NegativeZero, NaN}
TwoLengths == {"2", "3"}

----------------------------------------------------------------------------
(* The bounds of each part. *)

ChainsBound == \A u \in User : Len(operands[u]) <= 2
OperandsBound == alive \subseteq {u1, c1, c2}
TypesBound == DOMAIN base \subseteq {"m1"} /\ Len(constants) = Len(globals)
ConstantsBound == Len(types) = 5 * Cardinality(DOMAIN base)

MCInit ==
  /\ Init /\ BlocksInit /\ TypesInit
  /\ part \in {"chains", "operands", "blocks", "types", "constants"}

ChainsNext ==
  /\ part \in {"chains", "operands"}
  /\ Next
  /\ IF part = "chains" THEN ChainsBound' ELSE OperandsBound'
  /\ UNCHANGED <<blockVars, internVars, part>>

GraphNext ==
  /\ part = "blocks"
  /\ BlocksNext
  /\ UNCHANGED <<vars, internVars, part>>

TablesNext ==
  /\ part \in {"types", "constants"}
  /\ TypesNext
  /\ IF part = "types" THEN TypesBound' ELSE ConstantsBound'
  /\ UNCHANGED <<vars, blockVars, part>>

MCNext == ChainsNext \/ GraphNext \/ TablesNext

\* The fairness of DefUse.
MCSpec == MCInit /\ [][MCNext]_all /\ WF_vars(Loop)
=============================================================================
