--------------------------- MODULE MCReaderViews ---------------------------
(* Small instances of ReaderViews for TLC. *)
EXTENDS ReaderViews, TLC

Symmetry == Permutations(Txn) \cup Permutations(Batch)

=============================================================================
