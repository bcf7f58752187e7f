---------------------------- MODULE MCRunExecutor ----------------------------
(* A small instance of RunExecutor for TLC. *)
EXTENDS RunExecutor

=============================================================================
