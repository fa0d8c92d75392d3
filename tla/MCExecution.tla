----------------------------- MODULE MCExecution ------------------------------
(***************************************************************************)
(* The functions of MCFunctionGen, generated and then run beside their     *)
(* source.                                                                 *)
(***************************************************************************)
EXTENDS Execution, MCFunctionGen

=============================================================================
