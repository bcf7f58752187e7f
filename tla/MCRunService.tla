---------------------------- MODULE MCRunService ----------------------------
(* Small instances of RunService for TLC. *)
EXTENDS RunService, TLC

=============================================================================
