--------------------------- MODULE MCInstanceData ---------------------------
(* Small instances of InstanceData for TLC. *)
EXTENDS InstanceData

=============================================================================
