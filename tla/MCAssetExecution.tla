-------------------------- MODULE MCAssetExecution --------------------------
(* A small instance of AssetExecution for TLC. *)
EXTENDS AssetExecution

=============================================================================
