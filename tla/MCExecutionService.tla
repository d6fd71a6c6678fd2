-------------------------- MODULE MCExecutionService --------------------------
(***************************************************************************)
(* Model-checking instance of ExecutionProperties: identifiers are model   *)
(* values and interchangeable.                                             *)
(***************************************************************************)
EXTENDS ExecutionProperties, TLC

ExecutionSymmetry == Permutations(Execution)
=============================================================================
