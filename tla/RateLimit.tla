------------------------------ MODULE RateLimit ------------------------------
(***************************************************************************)
(* The GitHub clients of targets that share one credential                 *)
(* (internal/github/client.go and auth.go): the token each request         *)
(* carries, the pause of a pool that runs low, and the rate limit state    *)
(* read from the answers, against a GitHub that counts per pool what the   *)
(* requests cost.                                                          *)
(*                                                                         *)
(* A target's collection loop makes one request at a time.  Until the      *)
(* first one GitHub may have counted others: those of the process before a *)
(* restart, and the credential pings of main, which no transport sees.     *)
(***************************************************************************)
EXTENDS Integers, FiniteSets

CONSTANTS
  Target,      \* targets that share the credential
  Pool,        \* rate limit pools the requests count against
  Cost,        \* GitHub: the most that one request costs in a pool
  Limit,       \* GitHub: what the requests of a pool may cost in a window
  Window,      \* GitHub: length of a window
  Threshold,   \* rateLimitPauseThreshold
  Fallback,    \* the pause when X-RateLimit-Reset is missing (60 s)
  TokenLife,   \* life of an installation token (1 h)
  Margin,      \* refresh when the token expires within this time (5 min)
  MaxClock     \* bound: the clock stops here

\* "other" collects the pools GitHub does not document.
Bucket == Pool \cup {"other"}

\* What a response says: all headers (or no X-RateLimit-Resource, which falls
\* back to the request's pool); no reset time; an undocumented resource; no
\* (or a malformed) remaining count, or no response to a request GitHub counted.
Headers == {"full", "noReset", "undocumented", "none"}

\* What a request may cost in some pool.
Charges == UNION {1 .. Cost[p] : p \in Pool}

ASSUME ParameterAssumption ==
  /\ IsFiniteSet(Target)
  /\ "other" \notin Pool
  /\ Cost \in [Pool -> Nat \ {0}]
  /\ Limit \in Nat /\ Threshold \in Nat /\ Fallback \in Nat
  /\ Window \in Nat \ {0} /\ TokenLife \in Nat /\ Margin \in Nat
  /\ MaxClock \in Nat \ {0}
  /\ Margin <= TokenLife

VARIABLES
  clock,      \* the current time
  \* GitHub
  used,       \* what a pool's window has counted
  windowEnd,  \* when that window ends, 0 before the first
  refused,    \* history: targets refused in a pool's window for its rate limit
  low,        \* history: pools whose window was below the threshold at the start
  blind,      \* history: pools some answer told less than everything about
  \* the clients
  app,        \* the credential is a GitHub App, not a personal access token
  pools,      \* rlPools: NoPool when missing from the map
  expiresAt,  \* a target's cached installation token's expiry, 0 for none
  pc,         \* where a target's request is
  pool,       \* the pool it is classified to; "other" without a request
  token,      \* the expiry of the token it carries
  until,      \* when its pause ends
  waited      \* history: how long it paused

github  == <<used, windowEnd, refused, low, blind>>
client  == <<app, pools, expiresAt>>
request == <<pool, token, until, waited>>
vars    == <<clock, github, client, pc, request>>

\* The remaining count is only reported; the pause depends on the rest.
NoPool  == [resetAt |-> 0, paused |-> FALSE]
\* A personal access token does not expire.
Forever == MaxClock + TokenLife + 1

\* The request is over.
Done(t) ==
  /\ pc' = [pc EXCEPT ![t] = "idle"]
  /\ pool' = [pool EXCEPT ![t] = "other"]
  /\ token' = [token EXCEPT ![t] = 0]
  /\ until' = [until EXCEPT ![t] = 0]
  /\ waited' = [waited EXCEPT ![t] = 0]

-----------------------------------------------------------------------------
(* The token source *)

\* Mutant: a token is used up to its last moment.
ValidWhileLive(t) == expiresAt[t] > clock

\* Token: the cached token serves while it has Margin left.
Cached(t) == expiresAt[t] # 0 /\ expiresAt[t] - clock >= Margin

NewRequest(t, p) ==
  /\ pc[t] = "idle"
  /\ pc' = [pc EXCEPT ![t] = "token"]
  /\ pool' = [pool EXCEPT ![t] = p]
  /\ UNCHANGED <<clock, github, client, token, until, waited>>

Carry(t, expiry) ==
  /\ pc' = [pc EXCEPT ![t] = "check"]
  /\ token' = [token EXCEPT ![t] = expiry]
  /\ UNCHANGED <<clock, github, app, pools, pool, until, waited>>

\* oauth2.Transport asks for the token before the request reaches the pause.
TakeToken(t) ==
  /\ pc[t] = "token"
  /\ \/ ~app /\ Carry(t, Forever)
     \/ app /\ Cached(t) /\ Carry(t, expiresAt[t])
  /\ UNCHANGED expiresAt

ExchangeToken(t) ==
  /\ pc[t] = "token" /\ app /\ ~Cached(t)
  /\ expiresAt' = [expiresAt EXCEPT ![t] = clock + TokenLife]
  /\ Carry(t, clock + TokenLife)

\* The exchange fails; the cache stays and the caller gets the error.
ExchangeFails(t) ==
  /\ pc[t] = "token" /\ app /\ ~Cached(t)
  /\ Done(t)
  /\ UNCHANGED <<clock, github, client>>

-----------------------------------------------------------------------------
(* The pause *)

\* Mutant: a pool that runs low pauses every request.
AnyPaused(t) == \E b \in Bucket : pools[t][b].paused /\ pools[t][b].resetAt > clock

\* waitIfPaused: the request's pool is paused and its window has not ended.
MustWait(t) == pools[t][pool[t]].paused /\ pools[t][pool[t]].resetAt > clock

CheckPause(t) ==
  /\ pc[t] = "check"
  /\ IF MustWait(t)
     THEN /\ pc' = [pc EXCEPT ![t] = "paused"]
          /\ until' = [until EXCEPT ![t] = pools[t][pool[t]].resetAt]
     ELSE /\ pc' = [pc EXCEPT ![t] = "send"]
          /\ UNCHANGED until
  /\ UNCHANGED <<clock, github, client, pool, token, waited>>

Resume(t) ==
  /\ pc[t] = "paused" /\ clock >= until[t]
  /\ pc' = [pc EXCEPT ![t] = "send"]
  /\ UNCHANGED <<clock, github, client, request>>

\* The context is cancelled during the pause, or the request fails on its way.
Fail(t) ==
  /\ pc[t] \in {"paused", "send"}
  /\ Done(t)
  /\ UNCHANGED <<clock, github, client>>

-----------------------------------------------------------------------------
(* GitHub's answer, and what RoundTrip makes of it *)

NewWindow(p) == clock >= windowEnd[p]

UsedBefore(p) == IF NewWindow(p) THEN 0 ELSE used[p]

\* GitHub refuses what does not fit (it may let the last one through), and does
\* not count it.
Refused(p, cost) == UsedBefore(p) + cost > Limit

UsedAfter(p, cost) == IF Refused(p, cost) THEN UsedBefore(p) ELSE UsedBefore(p) + cost

WindowAfter(p) == IF NewWindow(p) THEN clock + Window ELSE windowEnd[p]

RefusedAfter(t, p, cost) ==
  (IF NewWindow(p) THEN {} ELSE refused[p]) \cup (IF Refused(p, cost) THEN {t} ELSE {})

\* Mutant: pauses at zero instead of below the threshold.
PauseWhenEmpty(remaining, resetAt) ==
  [resetAt |-> resetAt, paused |-> remaining = 0]

\* updateRateLimit: the new state of a pool.
PoolState(remaining, resetAt) ==
  [resetAt |-> resetAt, paused |-> remaining < Threshold]

\* Mutant: takes a window to start with each answer.
ResetFromNow(p, headers, cost) == clock + Window

\* RoundTrip: the reset time an answer stands for.
ResetAt(p, headers, cost) ==
  IF headers # "noReset" THEN WindowAfter(p)
  ELSE IF Limit - UsedAfter(p, cost) < Threshold THEN clock + Fallback ELSE 0

\* responsePool
ResponsePool(p, headers) == IF headers = "undocumented" THEN "other" ELSE p

PoolsAfter(t, p, headers, cost) ==
  IF headers = "none" THEN pools[t]
  ELSE [pools[t] EXCEPT ![ResponsePool(p, headers)] =
          PoolState(Limit - UsedAfter(p, cost), ResetAt(p, headers, cost))]

RoundTrip(t, headers, cost) ==
  LET p == pool[t]
  IN  /\ pc[t] = "send" /\ cost \in 1 .. Cost[p]
      /\ used' = [used EXCEPT ![p] = UsedAfter(p, cost)]
      /\ windowEnd' = [windowEnd EXCEPT ![p] = WindowAfter(p)]
      /\ refused' = [refused EXCEPT ![p] = RefusedAfter(t, p, cost)]
      /\ low' = IF NewWindow(p) THEN low \ {p} ELSE low
      /\ blind' = IF headers = "full" THEN blind ELSE blind \cup {p}
      /\ pools' = [pools EXCEPT ![t] = PoolsAfter(t, p, headers, cost)]
      /\ Done(t)
      /\ UNCHANGED <<clock, app, expiresAt>>

\* Time passes between requests and in pauses; nothing else takes long.
Tick ==
  /\ clock < MaxClock
  /\ \A t \in Target : pc[t] = "idle" \/ (pc[t] = "paused" /\ clock < until[t])
  /\ clock' = clock + 1
  /\ waited' = [t \in Target |-> IF pc[t] = "paused" THEN waited[t] + 1 ELSE waited[t]]
  /\ UNCHANGED <<github, client, pc, pool, token, until>>

-----------------------------------------------------------------------------
\* GitHub's windows may have any count and end anywhere; the clients know nothing.
Init ==
  /\ clock = 1
  /\ used \in [Pool -> 0 .. Limit]
  /\ windowEnd \in [Pool -> 0 .. clock + Window]
  /\ refused = [p \in Pool |-> {}]
  /\ low = {p \in Pool : ~NewWindow(p) /\ Limit - used[p] < Threshold}
  /\ blind = {}
  /\ app \in BOOLEAN
  /\ pools = [t \in Target |-> [b \in Bucket |-> NoPool]]
  /\ expiresAt = [t \in Target |-> 0]
  /\ pc = [t \in Target |-> "idle"]
  /\ pool = [t \in Target |-> "other"]
  /\ token = [t \in Target |-> 0]
  /\ until = [t \in Target |-> 0]
  /\ waited = [t \in Target |-> 0]

TargetStep(t) ==
  \/ \E p \in Pool : NewRequest(t, p)
  \/ TakeToken(t) \/ ExchangeToken(t) \/ ExchangeFails(t)
  \/ CheckPause(t) \/ Resume(t) \/ Fail(t)
  \/ \E headers \in Headers, cost \in Charges : RoundTrip(t, headers, cost)

Next == Tick \/ \E t \in Target : TargetStep(t)

Spec == Init /\ [][Next]_vars

-----------------------------------------------------------------------------
(* Properties *)

PoolRecord == [resetAt : Nat, paused : BOOLEAN]

TypeOK ==
  /\ clock \in 1 .. MaxClock
  /\ used \in [Pool -> 0 .. Limit]
  /\ windowEnd \in [Pool -> Nat]
  /\ refused \in [Pool -> SUBSET Target]
  /\ low \in SUBSET Pool /\ blind \in SUBSET Pool
  /\ app \in BOOLEAN
  /\ pools \in [Target -> [Bucket -> PoolRecord]]
  /\ expiresAt \in [Target -> Nat]
  /\ pc \in [Target -> {"idle", "token", "check", "paused", "send"}]
  /\ pool \in [Target -> Bucket]
  /\ token \in [Target -> Nat] /\ until \in [Target -> Nat] /\ waited \in [Target -> Nat]

\* A request counts against one of GitHub's pools until it is over.
RequestsCount == \A t \in Target : pc[t] # "idle" => pool[t] \in Pool

\* What is left of a token's life, with the time the request has paused.
TokenCovered ==
  \A t \in Target :
    /\ pc[t] \in {"idle", "token", "check"} => waited[t] = 0
    /\ pc[t] \in {"check", "paused", "send"} => token[t] + waited[t] >= clock + Margin

\* A pool's pause that still runs is the one GitHub's window calls for.
PausesMatchWindow ==
  \A t \in Target : \A p \in Pool \ blind :
    pools[t][p].paused /\ pools[t][p].resetAt > clock =>
      /\ pools[t][p].resetAt = windowEnd[p]
      /\ Limit - used[p] < Threshold

\* Every target may make one more request once a pool is below the threshold.
FewTargets(p) == Cost[p] * Cardinality(Target) <= Threshold /\ Threshold <= Limit

\* The pause keeps the credential's quota (github-auth, Purpose: "pause requests
\* before the rate limit is exhausted"), though each target has a rate limit state
\* of its own. Whatever a restart leaves of a window, a target that GitHub refused
\* sends nothing to that pool until the window ends. And in a window that was not
\* low at the start no request is refused at all, if the threshold has room for
\* one request of every target.
QuotaKept ==
  \A p \in Pool \ blind : windowEnd[p] > clock =>
    /\ Cost[p] <= Threshold => \A t \in refused[p] : ~(pc[t] = "send" /\ pool[t] = p)
    /\ FewTargets(p) /\ p \notin low => refused[p] = {}

\* The targets that will pause for a pool until its current window ends.
Knows(p) == {t \in Target : pools[t][p].paused /\ pools[t][p].resetAt = windowEnd[p]}

\* Below the threshold, a window counts one more request of each target that then
\* sees the low count and pauses; one about to send has not seen it yet.
QuotaShared ==
  \A p \in Pool \ blind : windowEnd[p] > clock =>
    /\ \A t \in Target : pc[t] = "send" /\ pool[t] = p => t \notin Knows(p)
    /\ Cost[p] <= Threshold => refused[p] \subseteq Knows(p)
    /\ FewTargets(p) /\ p \notin low =>
         used[p] <= Limit - Threshold + Cost[p] * Cardinality(Knows(p))

\* A target's pause lasts until the reset its own state still tells.
PausesUntilReset ==
  \A t \in Target :
    LET own == pools[t][pool[t]]
    IN  pc[t] = "paused" /\ own.paused /\ own.resetAt > clock => until[t] = own.resetAt

\* A request pauses for its own pool only, when GitHub really has few requests
\* left in it, and until GitHub's window really ends (github-auth, "Low pool
\* does not pause other pools").
PauseMatchesGitHub ==
  \A t \in Target :
    pc[t] = "paused" /\ clock < until[t] /\ pool[t] \notin blind =>
      /\ Limit - used[pool[t]] < Threshold
      /\ until[t] = windowEnd[pool[t]]

\* The inductive invariant behind the pause, the token and the quota: the types,
\* and what the code relies on when it pauses a request that has its token.
Inv ==
  /\ TypeOK
  /\ RequestsCount
  /\ TokenCovered
  /\ PausesMatchWindow
  /\ PauseMatchesGitHub
  /\ PausesUntilReset
  /\ QuotaShared
  /\ QuotaKept

\* A request carries a live token, unless it paused for the margin or longer.
TokenLostOnlyInPause ==
  \A t \in Target : pc[t] = "send" /\ token[t] <= clock => waited[t] >= Margin

\* Claimed by github-auth:59-62 (the token is refreshed "without ... returning an
\* error to callers"): no request is sent with an expired token.
TokenValidWhenSent == \A t \in Target : pc[t] = "send" => token[t] > clock
=============================================================================
