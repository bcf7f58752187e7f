------------------------- MODULE MCStagingOwnership -------------------------
(* Small instances of StagingOwnership for TLC. *)
EXTENDS StagingOwnership, TLC

CONSTANTS r1, r2

(* The first run stages two files, so that one is staged while another      *)
(* collides; the second stages one, before it, after it or between.         *)
MCMaxAttempts == r1 :> 2 @@ r2 :> 1

=============================================================================
