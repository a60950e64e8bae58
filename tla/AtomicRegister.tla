--------------------------- MODULE AtomicRegister ---------------------------
(***************************************************************************)
(* What WriteFileAtomic promises its callers: a register whose value is    *)
(* always one that some write was given as a whole.  A write under way     *)
(* takes effect at one moment or not at all.  The end of the process drops *)
(* the writes under way; a loss of power besides takes the register back   *)
(* to the value that had become stable.                                    *)
(***************************************************************************)
CONSTANTS Writers, Values, NoValue

VARIABLES value,    \* what a reader sees
          stable,   \* what a reader would see after a loss of power
          pending   \* the value each writer is writing, or NoValue

vars == <<value, stable, pending>>

Nobody == [w \in Writers |-> NoValue]

Init == value = NoValue /\ stable = NoValue /\ pending = Nobody

Begin(w, v) ==
  /\ pending[w] = NoValue
  /\ pending' = [pending EXCEPT ![w] = v]
  /\ UNCHANGED <<value, stable>>

Publish(w) ==
  /\ pending[w] # NoValue
  /\ value' = pending[w]
  /\ pending' = [pending EXCEPT ![w] = NoValue]
  /\ UNCHANGED stable

Abort(w) ==
  /\ pending[w] # NoValue
  /\ pending' = [pending EXCEPT ![w] = NoValue]
  /\ UNCHANGED <<value, stable>>

Stabilize == stable' = value /\ UNCHANGED <<value, pending>>

Crash == pending' = Nobody /\ UNCHANGED <<value, stable>>

PowerLoss == value' = stable /\ pending' = Nobody /\ UNCHANGED stable

Next ==
  \/ \E w \in Writers, v \in Values : Begin(w, v)
  \/ \E w \in Writers : Publish(w) \/ Abort(w)
  \/ Stabilize \/ Crash \/ PowerLoss

Spec == Init /\ [][Next]_vars

=============================================================================
