---------------------------- MODULE GuardedCalls ----------------------------
(***************************************************************************)
(* What FileGuard promises its callers: a pool of so many accesses at a    *)
(* time.  A call has an access of its own, whose end is the only thing it  *)
(* returns with, or it is given up, and then its path is reported.  The    *)
(* access of a call given up keeps its place until it ends.  When a call   *)
(* finds no place the process is about to end.                             *)
(***************************************************************************)
EXTENDS Integers, FiniteSets

CONSTANTS Callers, Paths, MaxPending, None

VARIABLES call,     \* the path of each caller's call, or None
          done,     \* callers whose access has ended
          places,   \* places of the pool that are taken
          reports,  \* paths of calls given up that are still to be reported
          full      \* some call found no place

vars == <<call, done, places, reports, full>>

NoCalls == [c \in Callers |-> None]

\* Calls whose access has not ended; each of them holds a place.
Waiting == {c \in Callers : call[c] # None /\ c \notin done}

Init == call = NoCalls /\ done = {} /\ places = 0 /\ reports = {} /\ full = FALSE

Begin(c, p) ==
  /\ call[c] = None
  /\ places < MaxPending
  /\ call' = [call EXCEPT ![c] = p]
  /\ places' = places + 1
  /\ UNCHANGED <<done, reports, full>>

Access(c) ==
  /\ c \in Waiting
  /\ done' = done \cup {c}
  /\ UNCHANGED <<call, places, reports, full>>

Return(c) ==
  /\ c \in done
  /\ call' = [call EXCEPT ![c] = None]
  /\ done' = done \ {c}
  /\ UNCHANGED <<places, reports, full>>

GiveUp(c) ==
  /\ call[c] # None
  /\ reports' = reports \cup {call[c]}
  /\ call' = [call EXCEPT ![c] = None]
  /\ done' = done \ {c}
  /\ UNCHANGED <<places, full>>

Release ==
  /\ places > Cardinality(Waiting)
  /\ places' = places - 1
  /\ UNCHANGED <<call, done, reports, full>>

Report == reports' = {} /\ UNCHANGED <<call, done, places, full>>

Refuse ==
  /\ full \/ places = MaxPending
  /\ full' = TRUE
  /\ UNCHANGED <<call, done, places, reports>>

Restart ==
  /\ full
  /\ call' = NoCalls /\ done' = {} /\ places' = 0 /\ reports' = {} /\ full' = FALSE

Next ==
  \/ \E c \in Callers, p \in Paths : Begin(c, p)
  \/ \E c \in Callers : Access(c) \/ Return(c) \/ GiveUp(c)
  \/ Release \/ Report \/ Refuse \/ Restart

Spec == Init /\ [][Next]_vars

=============================================================================
