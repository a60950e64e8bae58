---------------------------- MODULE MCAtomicFile ----------------------------
(* Small instances of AtomicFile for TLC. *)
EXTENDS AtomicFile, TLC

\* Inodes are alike, and so are contents and writers.
AlikeSymmetry == Permutations(Inodes) \cup Permutations(Values)
                   \cup Permutations(Writers)

=============================================================================
