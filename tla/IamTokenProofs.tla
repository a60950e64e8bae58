--------------------------- MODULE IamTokenProofs ---------------------------
(***************************************************************************)
(* Proofs about IamToken for any lifetime of a token, refresh margin and   *)
(* default time to live.  The inductive invariant says what a call may     *)
(* have spent so far, and what the cache knows of the service: a token     *)
(* with its own expiry is as old as the cache believes, and within Margin  *)
(* ticks of a call served from the cache, the service gives out a token    *)
(* that lives as long as the cached one.                                   *)
(***************************************************************************)
EXTENDS IamToken, TLAPS

USE TokenAssumption

\* What a tick leaves of a life is a life.
LEMMA LessType == \A n \in Lives : /\ Less(n) \in Lives
                                   /\ n > 0 => Less(n) = n - 1
BY DEF Less, Lives

\* A call tries each URL once for the token and once for its expiry, but not
\* both again once the token is fetched.
Budget ==
  /\ tpc = "token" /\ url = "primary" => spent = 0
  /\ tpc = "token" => spent <= 1
  /\ tpc = "expiry" /\ url = "primary" => spent <= 1
  /\ tpc \in {"expiry", "file"} => spent <= 2

\* The token of a call exists while its expiry is fetched, and only then.
Holding == fetched # NoToken <=> tpc = "expiry"

\* A token that still has its own expiry is as old as the service says, and
\* as the cache believes.
Paired ==
  /\ fetched # NoToken /\ fetched.expiry = "own" => fetched.real = issued
  /\ Cached /\ cachedIAM.expiry = "own" => cachedIAM.left = cachedIAM.real

\* The service gives out a token that lives as long as the cached one, unless
\* that one's life is the default.  A token whose expiry is still to come has
\* no default life, and the default is not exceeded.
Newest ==
  /\ Cached /\ cachedIAM.left > DefaultTTL => issued >= cachedIAM.left
  /\ Cached /\ cachedIAM.expiry = "default" => cachedIAM.left <= DefaultTTL
  /\ fetched # NoToken => fetched.expiry # "default"

\* Within Margin ticks of a call served from the cache there is a cached token,
\* not expired, and the service gives out one that lives as long.
Covered ==
  calm <= Margin => /\ Cached
                    /\ cachedIAM.left > Margin - calm
                    /\ issued >= cachedIAM.left

IInv == /\ TypeOK /\ Budget /\ Holding
        /\ Paired /\ Newest /\ Covered
        /\ CachedTokenIsAlive

-----------------------------------------------------------------------------
\* A token is not NoToken.
LEMMA TokenIsToken == NoToken \notin Tokens
<1>1. Tokens \subseteq [left : Int, real : Int, expiry : Expiry]
  BY DEF Tokens, Lives
<1>2. QED
  BY <1>1

\* The cache and the file are empty-handed at the start.
LEMMA InitHolds == Init => IInv
BY DEF Init, IInv, TypeOK, Budget, Holding, Paired, Newest, Covered,
       CachedTokenIsAlive, Cached, Nothing, Never, Lives, From, URLs, Sources,
       Expiry

\* A call that is served from the cache, or begins to fetch.
LEMMA BeginKeeps ==
  ASSUME IInv, CallBegins
  PROVE  IInv'
<1> USE DEF IInv, TypeOK, Cached, From, Never, Lives, Expiry
<1>1. CASE FromCache
  <2>1. cachedIAM \in Tokens /\ cachedIAM.left > Margin
    BY <1>1 DEF FromCache, ServesFromCache
  <2>2. TypeOK'
    BY <1>1, <2>1 DEF FromCache, Give, Tokens, URLs
  <2>3. Budget' /\ Holding' /\ Paired' /\ Newest'
    BY <1>1 DEF FromCache, Give, Budget, Holding, Paired, Newest
  <2>4. issued >= cachedIAM.left
    BY <2>1 DEF Newest, Tokens
  <2>5. QED
    <3>1. cachedIAM.expiry # "default"
      BY <2>1 DEF Newest, Tokens
    <3>2. CachedTokenIsAlive'
      BY <1>1, <2>1, <3>1 DEF FromCache, Give, CachedTokenIsAlive, Paired, Tokens
    <3>3. Covered'
      BY <1>1, <2>1, <2>4 DEF FromCache, Give, Covered, Tokens
    <3>4. QED
      BY <2>2, <2>3, <3>2, <3>3
<1>2. CASE BeginFetch
  BY <1>2 DEF BeginFetch, Nothing, Budget, Holding, Paired, Newest, Covered,
              CachedTokenIsAlive
<1>3. QED
  BY <1>1, <1>2 DEF CallBegins

\* What a request costs.
LEMMA SpendAtMost ==
  ASSUME spent \in Nat, NEW s, Spend(s)
  PROVE  spent' \in {spent, spent + 1}
BY DEF Spend

\* A request, or the file.
LEMMA CallKeeps ==
  ASSUME IInv, CallGoesOn
  PROVE  IInv'
<1> USE DEF IInv, TypeOK, Cached, From, Never, Lives, Expiry, URLs, Sources
<1>1. CASE TryFallback
  <2>1. spent' \in {spent, spent + 1}
    BY <1>1, SpendAtMost DEF TryFallback
  <2>2. QED
    BY <1>1, <2>1 DEF TryFallback, Budget, Holding, Paired, Newest, Covered,
                      CachedTokenIsAlive
<1>2. CASE FetchToken
  <2>1. fetched' \in Tokens
    BY <1>2 DEF FetchToken, Tokens
  <2>2. fetched' # NoToken
    BY <2>1, TokenIsToken
  <2>3. QED
    BY <1>2, <2>1, <2>2 DEF FetchToken, Budget, Holding, Paired, Newest, Covered,
                      CachedTokenIsAlive
<1>3. CASE UseStale
  <2>1. spent' \in {spent, spent + 1}
    BY <1>3, SpendAtMost DEF UseStale, BothFail
  <2>2. cachedIAM \in Tokens /\ cachedIAM.left > 0
    BY <1>3 DEF UseStale, ServesStale
  <2>3. TypeOK'
    BY <1>3, <2>1, <2>2 DEF UseStale, Give, Tokens, Budget
  <2>4. QED
    BY <1>3, <2>1, <2>2, <2>3
    DEF UseStale, Give, Budget, Holding, Paired, Newest, Covered,
        CachedTokenIsAlive, Tokens
<1>4. CASE TokenUnavailable
  <2>1. spent' \in {spent, spent + 1}
    BY <1>4, SpendAtMost DEF TokenUnavailable, BothFail
  <2>2. QED
    BY <1>4, <2>1
    DEF TokenUnavailable, ToFile, Budget, Holding, Paired, Newest, Covered,
        CachedTokenIsAlive
<1>5. CASE FetchExpiry
  <2>1. fetched \in Tokens /\ cachedIAM' = [fetched EXCEPT !.left = issued]
    BY <1>5 DEF FetchExpiry, Holding
  <2>2. /\ cachedIAM' \in Tokens
        /\ cachedIAM' # NoToken
        /\ cachedIAM'.left = issued
        /\ cachedIAM'.real = fetched.real
        /\ cachedIAM'.expiry = fetched.expiry
    BY <2>1, TokenIsToken DEF Tokens
  <2>3. TypeOK' /\ Budget' /\ Holding'
    BY <1>5, <2>1, <2>2 DEF FetchExpiry, Give, Tokens, Budget, Holding
  <2>4. CachedTokenIsAlive'
    BY <1>5 DEF FetchExpiry, Give, CachedTokenIsAlive
  <2>5. Newest'
    BY <1>5, <2>2 DEF FetchExpiry, Give, Newest, Holding
  <2>6. Paired'
    <3>1. fetched' = NoToken /\ fetched # NoToken /\ issued' = issued
      BY <1>5 DEF FetchExpiry, Give, Holding
    <3>2. QED
      BY <2>2, <3>1 DEF Paired
  <2>7. Covered'
    <3>1. CASE calm > Margin
      BY <1>5, <3>1 DEF FetchExpiry, Covered
    <3>2. CASE calm <= Margin
      <4>1. cachedIAM \in Tokens /\ cachedIAM.left > Margin - calm
            /\ issued >= cachedIAM.left
        BY <3>2 DEF Covered
      <4>2. QED
        BY <1>5, <2>2, <4>1 DEF FetchExpiry, Covered, Tokens
    <3>3. QED
      BY <3>1, <3>2
  <2>8. QED
    BY <2>3, <2>4, <2>5, <2>6, <2>7
<1>6. CASE AlreadyExpired
  BY <1>6 DEF AlreadyExpired, ToFile, Budget, Holding, Paired, Newest,
              Covered, CachedTokenIsAlive
<1>7. CASE ExpiryUnknown
  <2>1. fetched \in Tokens
    BY <1>7 DEF ExpiryUnknown, Holding
  <2>2. cachedIAM' = [fetched EXCEPT !.left = DefaultTTL, !.expiry = "default"]
    BY <1>7 DEF ExpiryUnknown
  <2>3. DefaultTTL \in Lives /\ "default" \in Expiry
    OBVIOUS
  <2>4. /\ cachedIAM' \in Tokens
        /\ cachedIAM' # NoToken
        /\ cachedIAM'.left = DefaultTTL
        /\ cachedIAM'.expiry = "default"
    <3>1. cachedIAM' = [left |-> DefaultTTL, real |-> fetched.real,
                        expiry |-> "default"]
      BY <2>1, <2>2 DEF Tokens
    <3>2. QED
      BY <2>1, <2>3, <3>1, TokenIsToken DEF Tokens
  <2>5. spent' \in {spent, spent + 1}
    BY <1>7, SpendAtMost DEF ExpiryUnknown, NoExpiry, BothFail
  <2>6. TypeOK' /\ Budget' /\ Holding'
    BY <1>7, <2>1, <2>4, <2>5
    DEF ExpiryUnknown, Give, Tokens, Budget, Holding
  <2>7. Paired' /\ Newest' /\ Covered' /\ CachedTokenIsAlive'
    BY <1>7, <2>1, <2>4
    DEF ExpiryUnknown, Give, Paired, Newest, Covered, CachedTokenIsAlive
  <2>8. QED
    BY <2>6, <2>7
<1>8. CASE ReadTokenFile
  <2>1. spent' \in {spent, spent + 1}
    BY <1>8, SpendAtMost DEF ReadTokenFile
  <2>2. /\ given' \in [from : From, real : Lives, expiry : Expiry]
        /\ given'.expiry = "default" /\ given'.from # "cache"
    <3>1. given' \in {Nothing, [Nothing EXCEPT !.from = "file"]}
      BY <1>8 DEF ReadTokenFile
    <3>2. Nothing \in [from : From, real : Lives, expiry : Expiry]
          /\ Nothing.expiry = "default" /\ Nothing.from = "nowhere"
      BY DEF Nothing
    <3>3. /\ [Nothing EXCEPT !.from = "file"]
                \in [from : From, real : Lives, expiry : Expiry]
          /\ [Nothing EXCEPT !.from = "file"].expiry = "default"
          /\ [Nothing EXCEPT !.from = "file"].from = "file"
      BY <3>2
    <3>4. QED
      BY <3>1, <3>2, <3>3
  <2>3. TypeOK' /\ Budget'
    BY <1>8, <2>1, <2>2 DEF ReadTokenFile, Budget
  <2>4. Holding' /\ Paired' /\ Newest' /\ Covered' /\ CachedTokenIsAlive'
    BY <1>8, <2>2 DEF ReadTokenFile, Holding, Paired, Newest, Covered,
                      CachedTokenIsAlive
  <2>5. QED
    BY <2>3, <2>4
<1>9. QED
  BY <1>1, <1>2, <1>3, <1>4, <1>5, <1>6, <1>7, <1>8 DEF CallGoesOn

\* The service rotates its token or fails.
LEMMA ServiceKeeps ==
  ASSUME IInv, ServiceStep
  PROVE  IInv'
<1> USE DEF IInv, TypeOK, Cached, From, Never, Lives, Expiry
<1>1. CASE Rotate
  <2>1. CASE fetched = NoToken
    BY <1>1, <2>1 DEF Rotate, Budget, Holding, Paired, Newest, Covered,
                      CachedTokenIsAlive, Tokens
  <2>2. CASE fetched # NoToken
    <3>1. /\ fetched' \in Tokens
          /\ fetched' # NoToken
          /\ fetched'.expiry = "other"
      BY <1>1, <2>2, TokenIsToken DEF Rotate, Tokens
    <3>2. QED
      BY <1>1, <2>2, <3>1
      DEF Rotate, Budget, Holding, Paired, Newest, Covered,
          CachedTokenIsAlive, Tokens
  <2>3. QED
    BY <2>1, <2>2
<1>2. ASSUME NEW s \in Sources, NEW c \in Conditions, SourceBecomes(s, c)
      PROVE  IInv'
  BY <1>2 DEF SourceBecomes, Budget, Holding, Paired, Newest, Covered,
              CachedTokenIsAlive
<1>3. QED
  BY <1>1, <1>2 DEF ServiceStep

\* Time passes.
LEMMA TickKeeps ==
  ASSUME IInv, TokenTick
  PROVE  IInv'
<1> USE DEF IInv, TypeOK, From, Never, Expiry
<1>1. issued \in Lives /\ issued' = Less(issued) /\ issued' \in Lives
  BY LessType DEF TokenTick
<1>2. calm' \in 0..Never /\ (calm' <= Margin => calm' = calm + 1)
  BY DEF TokenTick
<1>3. fetched = NoToken /\ fetched' = NoToken
  BY DEF TokenTick, Holding
<1>4. CASE ~Cached
  BY <1>1, <1>2, <1>3, <1>4
  DEF TokenTick, Cached, Budget, Holding, Paired, Newest, Covered,
      CachedTokenIsAlive
<1>5. CASE Cached
  <2>1. cachedIAM \in Tokens
    BY <1>5 DEF Cached
  <2>2. /\ cachedIAM' \in Tokens
        /\ cachedIAM' # NoToken
        /\ cachedIAM'.left = Less(cachedIAM.left)
        /\ cachedIAM'.real = Less(cachedIAM.real)
        /\ cachedIAM'.expiry = cachedIAM.expiry
    <3>1. cachedIAM' = [cachedIAM EXCEPT !.left = Less(@), !.real = Less(@)]
      BY <1>5 DEF TokenTick
    <3>2. Less(cachedIAM.left) \in Lives /\ Less(cachedIAM.real) \in Lives
      BY <2>1, LessType DEF Tokens
    <3>3. cachedIAM' \in Tokens
      BY <2>1, <3>1, <3>2 DEF Tokens
    <3>4. QED
      BY <2>1, <3>1, <3>3, TokenIsToken DEF Tokens
  <2>3. TypeOK' /\ Budget' /\ Holding' /\ CachedTokenIsAlive'
    BY <1>1, <1>2, <1>3, <2>2
    DEF TokenTick, Budget, Holding, CachedTokenIsAlive
  <2>4. Paired'
    BY <1>3, <1>5, <2>1, <2>2 DEF Paired, Cached
  <2>5. Newest'
    BY <1>1, <1>3, <1>5, <2>1, <2>2 DEF Newest, Cached, Less, Tokens, Lives
  <2>6. Covered'
    BY <1>1, <1>2, <1>5, <2>1, <2>2 DEF Covered, Cached, Less, Tokens, Lives
  <2>7. QED
    BY <2>3, <2>4, <2>5, <2>6
<1>6. QED
  BY <1>4, <1>5

\* Every step of the cache keeps IInv.
LEMMA StepKeeps == IInv /\ [Next]_tokenVars => IInv'
<1>1. IInv /\ UNCHANGED tokenVars => IInv'
  BY DEF IInv, TypeOK, Budget, Holding, Paired, Newest, Covered,
         CachedTokenIsAlive, Cached, tokenVars
<1>2. QED
  BY <1>1, BeginKeeps, CallKeeps, ServiceKeeps, TickKeeps DEF Next

\* IInv holds throughout.
LEMMA InvariantHolds == Spec => []IInv
BY StepKeeps, InitHolds, PTL DEF Spec

-----------------------------------------------------------------------------
\* Every variable of the token cache keeps its type; in particular a call runs
\* into at most three timeouts (metadata.go:110-155, 201-213).
THEOREM TypeCorrect == Spec => []TypeOK
<1>1. IInv => TypeOK
  BY DEF IInv
<1>2. QED
  BY <1>1, InvariantHolds, PTL

\* A token with its own expiry is alive when the cache hands it out, with more
\* than the margin left or, in an outage, at all, and one whose expiry could not
\* be had is not handed out without asking again (metadata.go:125-144).
THEOREM CacheIsAlive == Spec => []CachedTokenIsAlive
<1>1. IInv => CachedTokenIsAlive
  BY DEF IInv
<1>2. QED
  BY <1>1, InvariantHolds, PTL

\* Soon after a call served from the cache, no step gives up the service.
LEMMA OutageStep ==
  ASSUME IInv, [Next]_tokenVars, tpc # "file", tpc' = "file"
  PROVE  calm > Margin
<1> SUFFICES ASSUME calm <= Margin
             PROVE  FALSE
  BY DEF IInv, TypeOK, Never
<1>1. /\ cachedIAM \in Tokens
      /\ Cached
      /\ cachedIAM.left > 0
      /\ issued > 0
  BY DEF IInv, TypeOK, Covered, Cached, Tokens, Lives, Never
<1>2. TokenUnavailable \/ AlreadyExpired
  BY DEF Next, CallBegins, CallGoesOn, ServiceStep, tokenVars, FromCache,
         BeginFetch, Give, TryFallback, FetchToken, UseStale, FetchExpiry,
         ExpiryUnknown, ReadTokenFile, Rotate, SourceBecomes, TokenTick
<1>3. QED
  BY <1>1, <1>2 DEF TokenUnavailable, ServesStale, AlreadyExpired

\* Within Margin ticks of a call served from the cache, no call gives up the
\* service for the file, whatever the service does (metadata.go:125-136).
THEOREM OutageIsTolerated == Spec => OutageTolerated
<1>1. IInv /\ [Next]_tokenVars
        => (tpc # "file" /\ tpc' = "file" => calm > Margin)
  BY OutageStep
<1>2. QED
  BY <1>1, InvariantHolds, PTL DEF Spec, OutageTolerated

=============================================================================
