---------------------------- MODULE MCFileGuard ----------------------------
(* Small instances of FileGuard for TLC. *)
EXTENDS FileGuard

=============================================================================
