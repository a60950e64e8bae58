----------------------------- MODULE MCLifecycle -----------------------------
(* Small instances of Lifecycle for TLC. *)
EXTENDS Lifecycle

\* A jitter below the interval, as in the defaults, and one above it.
MCConfigs == {[interval |-> 2, jitter |-> 1], [interval |-> 0, jitter |-> 1]}

=============================================================================
