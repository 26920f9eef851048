-------------------------- MODULE MCRunnerProtocol --------------------------
(***************************************************************************)
(* Instances of RunnerProtocol: the configurations give the constants.     *)
(***************************************************************************)
EXTENDS RunnerProtocol

=============================================================================
