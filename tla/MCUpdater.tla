----------------------------- MODULE MCUpdater -----------------------------
(* Small instances of Updater for TLC. *)
EXTENDS Updater, TLC

\* The slots of WriteFileAtomic's goroutines are alike.
WriterSymmetry == Permutations(Writers)

=============================================================================
