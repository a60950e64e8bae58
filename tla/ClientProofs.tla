----------------------------- MODULE ClientProofs -----------------------------
(***************************************************************************)
(* Proofs about Client: what IamTokenProofs shows of the token cache holds *)
(* of the cache inside the client, whose crashes, deadlines and attempts   *)
(* are no steps of IamToken, and no timeout is lost before the end of its  *)
(* request.                                                                *)
(***************************************************************************)
EXTENDS Client, IamTokenProofs

USE TokenAssumption, ClientAssumption

\* The client waits for a token just while one is fetched.
Waits == tpc # "idle" <=> pc = "fetch"

\* Between polls there is no request.
Unasked == pc \in {"idle", "down"} => req = {}

CInv == ClientTypeOK /\ IInv /\ Waits /\ Unasked

\* Without its last result and what it spent, the cache is as it was.
LEMMA ForgetKeeps ==
  ASSUME IInv, tpc = "idle", Forget
  PROVE  IInv' /\ tpc' = "idle"
BY DEF Forget, IInv, TypeOK, Budget, Holding, Paired, Newest, Covered,
       CachedTokenIsAlive, Cached, Nothing, From, Lives, Expiry

\* A process that ended has forgotten its token.
LEMMA CrashKeeps ==
  ASSUME IInv, Crash
  PROVE  IInv'
BY DEF Crash, IInv, TypeOK, Budget, Holding, Paired, Newest, Covered,
       CachedTokenIsAlive, Cached, Nothing, Never, From, Lives, URLs, Expiry

\* Seen from the cache, a step of the client is a step of the cache, the end of
\* an attempt or of the process.
LEMMA TokenView ==
  ASSUME CInv, ClientNext
  PROVE  \/ [Next]_tokenVars
         \/ tpc = "idle" /\ Forget
         \/ Crash
<1> USE DEF CInv, Waits
<1>1. CASE FillRequest \/ Retry \/ GiveUp \/ Start
           \/ \E p \in Paths : RecordTimeout(p)
  BY <1>1 DEF FillRequest, Retry, GiveUp, Start, RecordTimeout
<1>2. CASE GetToken
  BY <1>2 DEF GetToken, Next
<1>3. CASE Answered \/ CallFails
  BY <1>3 DEF Answered, Sent, CallFails
<1>4. CASE Tick \/ WorldStep
  BY <1>4 DEF Tick, WorldStep, Next
<1>5. QED
  BY <1>1, <1>2, <1>3, <1>4 DEF ClientNext, SendStep

LEMMA TokenKept ==
  ASSUME CInv, ClientNext
  PROVE  IInv'
BY TokenView, StepKeeps, ForgetKeeps, CrashKeeps DEF CInv

\* The client's own variables.
LEMMA ClientKept ==
  ASSUME CInv, ClientNext
  PROVE  /\ pc' \in {"down", "idle", "attempt", "fetch", "call", "failed"}
         /\ timeouts' \in SUBSET Paths /\ req' \in SUBSET Paths
         /\ polls' \in 0..PollsPerTick
         /\ Waits' /\ Unasked'
<1> USE DEF CInv, ClientTypeOK, Waits, Unasked
<1>1. CASE FillRequest \/ Retry
  BY <1>1 DEF FillRequest, Retry, tokenVars
<1>2. CASE GetToken
  BY <1>2 DEF GetToken
<1>3. CASE Answered
  BY <1>3 DEF Answered, Sent, Ends, Forget
<1>4. CASE CallFails
  BY <1>4 DEF CallFails, Ends, Forget
<1>5. CASE GiveUp
  BY <1>5 DEF GiveUp, Ends, tokenVars
<1>6. CASE Tick
  BY <1>6 DEF Tick, TokenTick
<1>7. CASE WorldStep
  BY <1>7 DEF WorldStep, ServiceStep, Rotate, SourceBecomes, clientVars
<1>8. CASE Crash
  BY <1>8 DEF Crash
<1>9. CASE Start \/ \E p \in Paths : RecordTimeout(p)
  BY <1>9 DEF Start, RecordTimeout, tokenVars
<1>10. QED
  BY <1>1, <1>2, <1>3, <1>4, <1>5, <1>6, <1>7, <1>8, <1>9
  DEF ClientNext, SendStep

LEMMA ClientInvariant == ClientSpec => []CInv
<1>1. ClientInit => CInv
  <2>1. ClientInit => IInv
    BY InitHolds DEF ClientInit
  <2>2. QED
    BY <2>1 DEF ClientInit, Init, CInv, ClientTypeOK, IInv, Waits, Unasked
<1>2. CInv /\ ClientNext => CInv'
  BY TokenKept, ClientKept DEF CInv, ClientTypeOK, IInv
<1>3. CInv /\ UNCHANGED vars => CInv'
  <2>1. CInv /\ UNCHANGED vars => IInv'
    BY StepKeeps DEF CInv, vars
  <2>2. QED
    BY <2>1 DEF CInv, ClientTypeOK, IInv, Waits, Unasked, vars, tokenVars,
                clientVars
<1>4. QED
  BY <1>1, <1>2, <1>3, PTL DEF ClientSpec

-----------------------------------------------------------------------------
\* Every variable of the client and its cache keeps its type: no attempt waits
\* for more than three timeouts (client.go:163-200, metadata.go:201-213).
THEOREM ClientTypeCorrect == ClientSpec => []ClientTypeOK
<1>1. CInv => ClientTypeOK
  BY DEF CInv
<1>2. QED
  BY <1>1, ClientInvariant, PTL

\* A token with its own expiry is alive when the cache hands it to the client,
\* and one of unknown expiry is not handed out without asking again, across
\* crashes and attempts, too (metadata.go:125-144).
THEOREM ClientTokenIsAlive == ClientSpec => []CachedTokenIsAlive
<1>1. CInv => CachedTokenIsAlive
  BY DEF CInv, IInv
<1>2. QED
  BY <1>1, ClientInvariant, PTL

\* The client's polls give the service up for the file no sooner than a margin
\* after a call served from the cache (metadata.go:125-136).
THEOREM ClientOutageTolerated == ClientSpec => OutageTolerated
<1>1. CInv /\ [ClientNext]_vars
        => (tpc # "file" /\ tpc' = "file" => calm > Margin)
  <2> SUFFICES ASSUME CInv, [ClientNext]_vars, tpc # "file", tpc' = "file"
               PROVE  calm > Margin
    OBVIOUS
  <2>1. ~Crash /\ ~Forget
    BY DEF Crash, Forget
  <2>2. [Next]_tokenVars
    BY <2>1, TokenView DEF vars
  <2>3. QED
    BY <2>2, OutageStep DEF CInv
<1>2. UNCHANGED vars => UNCHANGED tokenVars
  BY DEF vars
<1>3. QED
  BY <1>1, ClientInvariant, PTL DEF ClientSpec, OutageTolerated

\* A timeout is forgotten only when the request that names it is answered or
\* given up, or with the process (client.go:165-195, :417).
THEOREM TimeoutsRideAlong == ClientSpec => TimeoutRidesAlong
<1>1. CInv /\ [ClientNext]_vars
        => \A p \in Paths :
             p \in timeouts \cup req /\ p \notin (timeouts \cup req)'
               => Answered \/ GiveUp \/ (CallFails /\ ~Retrying) \/ Crash
  <2> SUFFICES ASSUME CInv, [ClientNext]_vars, NEW p \in Paths,
                      p \in timeouts \cup req, p \notin (timeouts \cup req)'
               PROVE  Answered \/ GiveUp \/ (CallFails /\ ~Retrying) \/ Crash
    OBVIOUS
  <2>1. CASE UNCHANGED vars
    BY <2>1 DEF vars, clientVars
  <2>2. CASE FillRequest
    BY <2>2 DEF FillRequest, CInv, Unasked
  <2>3. CASE GetToken \/ Retry \/ Tick \/ WorldStep \/ Start
    BY <2>3 DEF GetToken, Retry, Tick, WorldStep, Start, clientVars
  <2>4. CASE CallFails
    BY <2>4 DEF CallFails
  <2>5. CASE \E q \in Paths : RecordTimeout(q)
    BY <2>5 DEF RecordTimeout
  <2>6. QED
    BY <2>1, <2>2, <2>3, <2>4, <2>5 DEF ClientNext, SendStep
<1>2. QED
  BY <1>1, ClientInvariant, PTL DEF ClientSpec, TimeoutRidesAlong

=============================================================================
