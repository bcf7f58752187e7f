------------------------- MODULE MCArchiveExtraction -------------------------
(* A small instance of ArchiveExtraction for TLC.                          *)
EXTENDS ArchiveExtraction, TLC

CONSTANTS low, high, p1, p2

MCRank == low :> 1 @@ high :> 2
Symmetric == Permutations({p1, p2})

=============================================================================
