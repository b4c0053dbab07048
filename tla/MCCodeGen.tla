------------------------------ MODULE MCCodeGen ------------------------------
(* CodeGen on the programs that CONSTANT Programs selects in the configuration. *)
EXTENDS CodeGen, CodeGenPrograms
=============================================================================
