------------------------------ MODULE IamToken ------------------------------
(***************************************************************************)
(* GetIamToken of internal/metadata/metadata.go: the token cache in front  *)
(* of the metadata service, and the file behind it.  A token and its       *)
(* expiry are fetched by two requests, each tried on two URLs.             *)
(*                                                                         *)
(* A token is what remains of its life, in ticks: `left' is what the cache *)
(* believes, `real' is the truth.  `expiry' says where that belief is      *)
(* from: the token's own expiry, the one of a token that came after it, or *)
(* the default time to live.  The last two are ghosts.  A call takes       *)
(* seconds and a tick stands for a good part of an hour, so time passes    *)
(* between calls; what a call spends on URLs that hang is counted apart,   *)
(* in `spent'.                                                             *)
(***************************************************************************)
EXTENDS Integers

CONSTANTS Lifetime,    \* life of a token the service issues
          Margin,      \* tokenRefreshMargin
          DefaultTTL,  \* instanceDataCacheTTL, for an unknown expiry
          Conditions,  \* what a source of tokens may do
          NoToken      \* no token

\* Where the life of a token is known from.
Expiry == {"own", "other", "default"}

ASSUME TokenAssumption ==
  /\ Lifetime \in Nat /\ Margin \in Nat /\ DefaultTTL \in Nat
  /\ 0 < DefaultTTL /\ DefaultTTL <= Margin /\ Margin < Lifetime
  /\ "up" \in Conditions /\ Conditions \subseteq {"up", "refuses", "hangs"}
  /\ NoToken \notin [left : Int, real : Int, expiry : Expiry]

VARIABLES
  service,    \* what each source does: "up", "refuses" at once, or "hangs"
  issued,     \* what remains of the token the service gives out
  cachedIAM,  \* the cached token, or NoToken
  tpc,        \* where GetIamToken is
  url,        \* the URL it tries
  fetched,    \* the token of this call, while its expiry is fetched
  spent,      \* requests of this call that ran into their timeout
  given,      \* the last result: where it is from, and its real life then
  calm        \* ghost: ticks since a call was last served from the cache,
              \* if only tokens of known expiry were cached since

tokenVars == <<service, issued, cachedIAM, tpc, url, fetched, spent, given,
               calm>>

URLs    == {"primary", "fallback"}
Sources == URLs \cup {"file"}
Lives   == 0..Lifetime
Tokens  == [left : Lives, real : Lives, expiry : Expiry]
From    == {"nowhere", "cache", "stale", "fetched", "file"}
Never   == Margin + 1             \* as good as any longer time

TypeOK ==
  /\ service \in [Sources -> Conditions]
  /\ issued \in Lives
  /\ cachedIAM \in Tokens \cup {NoToken}
  /\ tpc \in {"idle", "token", "expiry", "file"}
  /\ url \in URLs
  /\ fetched \in Tokens \cup {NoToken}
  /\ spent \in 0..3
  /\ given \in [from : From, real : Lives, expiry : Expiry]
  /\ calm \in 0..Never

Nothing == [from |-> "nowhere", real |-> 0, expiry |-> "default"]

Init ==
  /\ service = [s \in Sources |-> "up"]
  /\ issued = Lifetime
  /\ cachedIAM = NoToken
  /\ tpc = "idle"
  /\ url = "primary"
  /\ fetched = NoToken
  /\ spent = 0
  /\ given = Nothing
  /\ calm = Never

-----------------------------------------------------------------------------
(* The cache *)

Cached == cachedIAM # NoToken

\* Mutant: the comparison is turned round.
ServesFromCacheLate == Cached /\ cachedIAM.left < Margin

\* The cached token is not yet due for its refresh.
ServesFromCache == Cached /\ cachedIAM.left > Margin

\* Mutant: a token due for its refresh is no longer used.
ServesStaleNever == Cached /\ cachedIAM.left > Margin

\* The cached token is due, but not yet expired.
ServesStale == Cached /\ cachedIAM.left > 0

\* The call returns token t.
Give(t, from) ==
  /\ given' = [from |-> from, real |-> t.real, expiry |-> t.expiry]
  /\ tpc' = "idle"
  /\ url' = "primary"
  /\ fetched' = NoToken

FromCache ==
  /\ tpc = "idle"
  /\ ServesFromCache
  /\ Give(cachedIAM, "cache")
  /\ spent' = 0
  /\ calm' = 0
  /\ UNCHANGED <<service, issued, cachedIAM>>

BeginFetch ==
  /\ tpc = "idle"
  /\ ~ServesFromCache
  /\ tpc' = "token"
  /\ spent' = 0
  /\ given' = Nothing
  /\ UNCHANGED <<service, issued, cachedIAM, url, fetched, calm>>

-----------------------------------------------------------------------------
(* The requests *)

\* What a request that fails costs the call.
Spend(s) == spent' = spent + (IF service[s] = "hangs" THEN 1 ELSE 0)

\* Mutants: the URLs are tried in turn for ever; the last one is tried again
\* and again.
TryFallbackInTurn ==
  /\ tpc \in {"token", "expiry"}
  /\ service[url] # "up"
  /\ url' = IF url = "primary" THEN "fallback" ELSE "primary"
  /\ UNCHANGED <<service, issued, cachedIAM, tpc, fetched, spent, given, calm>>

TryFallbackAgain ==
  /\ tpc \in {"token", "expiry"}
  /\ service[url] # "up"
  /\ url' = "fallback"
  /\ Spend(url)
  /\ UNCHANGED <<service, issued, cachedIAM, tpc, fetched, given, calm>>

\* The first URL fails, so the second is tried.
TryFallback ==
  /\ tpc \in {"token", "expiry"}
  /\ url = "primary" /\ service[url] # "up"
  /\ url' = "fallback"
  /\ Spend(url)
  /\ UNCHANGED <<service, issued, cachedIAM, tpc, fetched, given, calm>>

BothFail == url = "fallback" /\ service[url] # "up" /\ Spend(url)

FetchToken ==
  /\ tpc = "token"
  /\ service[url] = "up"
  /\ fetched' = [left |-> issued, real |-> issued, expiry |-> "own"]
  /\ tpc' = "expiry"
  /\ url' = "primary"
  /\ UNCHANGED <<service, issued, cachedIAM, spent, given, calm>>

\* No token is to be had: the cached one will do until it expires.
UseStale ==
  /\ tpc = "token"
  /\ BothFail
  /\ ServesStale
  /\ Give(cachedIAM, "stale")
  /\ UNCHANGED <<service, issued, cachedIAM, calm>>

ToFile == tpc' = "file" /\ url' = "primary" /\ fetched' = NoToken

\* Mutant: no fallback to the file.
TokenUnavailableNoFile ==
  /\ tpc = "token"
  /\ BothFail
  /\ ~ServesStale
  /\ tpc' = "idle" /\ url' = "primary" /\ fetched' = NoToken
  /\ UNCHANGED <<service, issued, cachedIAM, given, calm>>

TokenUnavailable ==
  /\ tpc = "token"
  /\ BothFail
  /\ ~ServesStale
  /\ ToFile
  /\ UNCHANGED <<service, issued, cachedIAM, given, calm>>

\* The expiry comes from the token the service gives out by now.
FetchExpiry ==
  /\ tpc = "expiry"
  /\ service[url] = "up"
  /\ issued > 0
  /\ cachedIAM' = [fetched EXCEPT !.left = issued]
  /\ Give(fetched, "fetched")
  /\ UNCHANGED <<service, issued, spent, calm>>

\* An expired token is not cached, and no cached one is tried.
AlreadyExpired ==
  /\ tpc = "expiry"
  /\ service[url] = "up"
  /\ issued = 0
  /\ ToFile
  /\ UNCHANGED <<service, issued, cachedIAM, spent, given, calm>>

\* No expiry is to be had: both URLs fail, or the answer cannot be parsed, in
\* which case the other URL is not asked.
NoExpiry == BothFail \/ (service[url] = "up" /\ UNCHANGED spent)

\* Mutant: a token of unknown expiry is trusted for its whole life.
ExpiryUnknownTrusted ==
  /\ tpc = "expiry"
  /\ NoExpiry
  /\ cachedIAM' = [fetched EXCEPT !.left = Lifetime, !.expiry = "default"]
  /\ calm' = Never
  /\ Give(fetched, "fetched")
  /\ UNCHANGED <<service, issued>>

ExpiryUnknown ==
  /\ tpc = "expiry"
  /\ NoExpiry
  /\ cachedIAM' = [fetched EXCEPT !.left = DefaultTTL, !.expiry = "default"]
  /\ calm' = Never
  /\ Give(fetched, "fetched")
  /\ UNCHANGED <<service, issued>>

\* readAndTrimFile; its token is whatever was mounted.
ReadTokenFile ==
  /\ tpc = "file"
  /\ tpc' = "idle"
  /\ given' = IF service["file"] = "up" THEN [Nothing EXCEPT !.from = "file"]
                                       ELSE Nothing
  /\ Spend("file")
  /\ UNCHANGED <<service, issued, cachedIAM, url, fetched, calm>>

-----------------------------------------------------------------------------
(* The metadata service, time *)

\* The service gives out a new token from now on; one fetched by a call under
\* way will not get its own expiry.
Rotate ==
  /\ issued' = Lifetime
  /\ fetched' = IF fetched = NoToken THEN NoToken
                ELSE [fetched EXCEPT !.expiry = "other"]
  /\ UNCHANGED <<service, cachedIAM, tpc, url, spent, given, calm>>

SourceBecomes(s, c) ==
  /\ service[s] # c
  /\ service' = [service EXCEPT ![s] = c]
  /\ UNCHANGED <<issued, cachedIAM, tpc, url, fetched, spent, given, calm>>

Less(n) == IF n > 0 THEN n - 1 ELSE 0

TokenTick ==
  /\ tpc = "idle"
  /\ issued' = Less(issued)
  /\ cachedIAM' = IF Cached THEN [cachedIAM EXCEPT !.left = Less(@),
                                                   !.real = Less(@)]
                            ELSE NoToken
  /\ calm' = IF calm < Never THEN calm + 1 ELSE Never
  /\ UNCHANGED <<service, tpc, url, fetched, spent, given>>

-----------------------------------------------------------------------------
CallBegins == FromCache \/ BeginFetch

CallGoesOn ==
  \/ TryFallback \/ FetchToken \/ UseStale \/ TokenUnavailable
  \/ FetchExpiry \/ AlreadyExpired \/ ExpiryUnknown \/ ReadTokenFile

ServiceStep ==
  \/ Rotate
  \/ \E s \in Sources, c \in Conditions : SourceBecomes(s, c)

Next == CallBegins \/ CallGoesOn \/ ServiceStep \/ TokenTick

Spec == Init /\ [][Next]_tokenVars

-----------------------------------------------------------------------------
(* Safety *)

\* A token whose expiry could not be had is not served again without asking
\* the service: what it is given for a life never passes for a known one.  A
\* token cached with its own expiry is alive when it is served, in an outage
\* too, and has more than the margin left while it is not due
\* (metadata.go:125-144).
CachedTokenIsAlive ==
  /\ given.from = "cache" => given.expiry # "default"
  /\ given.expiry = "own" => /\ given.from = "cache" => given.real > Margin
                             /\ given.from = "stale" => given.real > 0

\* A call served from the cache is followed by at least Margin ticks in which
\* no call gives the service up for the file, unless a token came without its
\* expiry: an outage shorter than the margin goes unnoticed, whatever tokens
\* the service gives out meanwhile (metadata.go:125-136).
OutageTolerated == [][tpc # "file" /\ tpc' = "file" => calm > Margin]_tokenVars

=============================================================================
