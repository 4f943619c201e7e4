--------------------------- MODULE MCReaderCursor ---------------------------
(* ReaderCursor on small sets of interchangeable claims.                   *)
EXTENDS ReaderCursor, TLC

Symmetry == Permutations(Claims)
=============================================================================
