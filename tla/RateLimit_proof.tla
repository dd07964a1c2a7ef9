--------------------------- MODULE RateLimit_proof ---------------------------
(***************************************************************************)
(* Proofs about RateLimit: its inductive invariant, and with it that a     *)
(* pause is the one GitHub's window calls for, that a token is lost only   *)
(* in a pause of the margin or longer, and what the pause keeps of the     *)
(* quota that targets share.                                               *)
(***************************************************************************)
EXTENDS RateLimit, FiniteSetTheorems, TLAPS

\* GitHub's counts stay in range, and only grow while a window is open.
LEMMA Counting ==
  ASSUME TypeOK, NEW p \in Pool, NEW cost \in Nat
  PROVE  /\ UsedAfter(p, cost) \in 0 .. Limit
         /\ WindowAfter(p) \in Nat /\ WindowAfter(p) > clock
         /\ windowEnd[p] > clock => /\ WindowAfter(p) = windowEnd[p]
                                    /\ UsedAfter(p, cost) >= used[p]
<1> USE ParameterAssumption DEF ParameterAssumption
<1>1. used[p] \in 0 .. Limit /\ windowEnd[p] \in Nat /\ clock \in Nat
  BY DEF TypeOK
<1> QED BY <1>1 DEF UsedAfter, UsedBefore, Refused, WindowAfter, NewWindow

\* What an answer leaves in a target's pools has the type of the map.
LEMMA PoolsAfterType ==
  ASSUME TypeOK, NEW t \in Target, NEW p \in Pool, NEW headers \in Headers,
         NEW cost \in Nat
  PROVE  PoolsAfter(t, p, headers, cost) \in [Bucket -> PoolRecord]
<1> USE ParameterAssumption DEF ParameterAssumption
<1>1. pools[t] \in [Bucket -> PoolRecord] /\ clock \in Nat
  BY DEF TypeOK
<1>2. UsedAfter(p, cost) \in 0 .. Limit /\ WindowAfter(p) \in Nat
  BY Counting
<1>3. ResetAt(p, headers, cost) \in Nat
  BY <1>1, <1>2 DEF ResetAt
<1>4. PoolState(Limit - UsedAfter(p, cost), ResetAt(p, headers, cost)) \in PoolRecord
  BY <1>2, <1>3 DEF PoolState, PoolRecord
<1> QED BY <1>1, <1>4 DEF PoolsAfter

\* The targets that pause for a pool are finitely many.
LEMMA KnowsFinite ==
  ASSUME NEW p
  PROVE  /\ IsFiniteSet(Knows(p)) /\ Cardinality(Knows(p)) \in Nat
         /\ Cardinality(Target) \in Nat
         /\ \A t \in Target : t \notin Knows(p) => Cardinality(Knows(p)) < Cardinality(Target)
<1> USE ParameterAssumption DEF ParameterAssumption
<1>1. Knows(p) \subseteq Target
  BY DEF Knows
<1>2. IsFiniteSet(Knows(p)) /\ Cardinality(Knows(p)) \in Nat /\ Cardinality(Target) \in Nat
  BY <1>1, FS_Subset, FS_CardinalityType
<1>3. ASSUME NEW t \in Target, t \notin Knows(p) PROVE Cardinality(Knows(p)) < Cardinality(Target)
  <2>1. Knows(p) # Target
    BY <1>3
  <2>2. Cardinality(Knows(p)) # Cardinality(Target)
    BY <1>1, <2>1, FS_Subset
  <2>3. Cardinality(Knows(p)) <= Cardinality(Target)
    BY <1>1, FS_Subset
  <2> QED BY <1>2, <2>2, <2>3
<1> QED BY <1>2, <1>3

\* Another request of each target, and what they all may cost.
LEMMA Room ==
  ASSUME NEW c \in Nat, NEW n \in Nat
  PROVE  /\ c * n \in Nat /\ c * (n + 1) = c * n + c
         /\ \A m \in Nat : n < m => c * n + c <= c * m
<1>1. c * n \in Nat /\ c * (n + 1) = c * n + c
  OBVIOUS
<1>2. ASSUME NEW m \in Nat, n < m PROVE c * n + c <= c * m
  <2> DEFINE k == m - (n + 1)
  <2>1. k \in Nat /\ m = (n + 1) + k
    BY <1>2
  <2>2. c * m = c * (n + 1) + c * k /\ c * k \in Nat
    <3> HIDE DEF k
    <3> QED BY <2>1
  <2> QED BY <1>1, <2>2
<1> QED BY <1>1, <1>2

\* A request that GitHub answers costs something, and no more than any may.
LEMMA ChargeType ==
  ASSUME RequestsCount, NEW t \in Target, NEW headers, NEW cost, RoundTrip(t, headers, cost)
  PROVE  /\ pool[t] \in Pool /\ Cost[pool[t]] \in Nat
         /\ cost \in Nat /\ cost >= 1 /\ cost <= Cost[pool[t]]
<1>1. pool[t] \in Pool
  BY DEF RequestsCount, RoundTrip
<1>2. Cost[pool[t]] \in Nat /\ cost \in 1 .. Cost[pool[t]]
  BY <1>1, ParameterAssumption DEF RoundTrip, ParameterAssumption
<1> QED BY <1>1, <1>2

-----------------------------------------------------------------------------
(* The invariant *)

\* The invariant holds initially.
LEMMA InitInv == Init => Inv
<1> SUFFICES ASSUME Init PROVE Inv
  OBVIOUS
<1> USE ParameterAssumption DEF ParameterAssumption
<1>1. TypeOK
  <2>1. NoPool \in PoolRecord
    BY DEF NoPool, PoolRecord
  <2>2. windowEnd \in [Pool -> Nat] /\ clock \in 1 .. MaxClock
    BY DEF Init
  <2> QED BY <2>1, <2>2 DEF Init, TypeOK, Bucket
<1>2. RequestsCount /\ TokenCovered /\ PauseMatchesGitHub
  BY DEF Init, RequestsCount, TokenCovered, PauseMatchesGitHub
<1>3. PausesMatchWindow
  BY DEF Init, PausesMatchWindow, NoPool, Bucket
<1>4. PausesUntilReset /\ QuotaKept
  BY DEF Init, PausesUntilReset, QuotaKept
<1>5. QuotaShared
  <2> SUFFICES ASSUME NEW p \in Pool, windowEnd[p] > clock, p \notin low
               PROVE  used[p] <= Limit - Threshold + Cost[p] * Cardinality(Knows(p))
    BY DEF Init, QuotaShared
  <2>1. used[p] \in 0 .. Limit /\ windowEnd[p] \in Nat /\ clock \in Nat
    BY <1>1 DEF TypeOK
  <2>2. used[p] <= Limit - Threshold
    BY <2>1 DEF Init, NewWindow
  <2>3. Cost[p] * Cardinality(Knows(p)) \in Nat
    BY KnowsFinite, Room
  <2> QED BY <2>1, <2>2, <2>3
<1> QED BY <1>1, <1>2, <1>3, <1>4, <1>5 DEF Inv

\* Every step preserves the types.
LEMMA StepType == TypeOK /\ RequestsCount /\ [Next]_vars => TypeOK'
<1> SUFFICES ASSUME TypeOK, RequestsCount, [Next]_vars PROVE TypeOK'
  OBVIOUS
<1> USE ParameterAssumption DEF ParameterAssumption
<1>1. CASE Tick
  <2>1. waited' \in [Target -> Nat]
    BY <1>1 DEF Tick, TypeOK
  <2> QED BY <1>1, <2>1 DEF Tick, TypeOK, github, client
<1>2. ASSUME NEW t \in Target, Done(t)
      PROVE  /\ pc' \in [Target -> {"idle", "token", "check", "paused", "send"}]
             /\ pool' \in [Target -> Bucket] /\ token' \in [Target -> Nat]
             /\ until' \in [Target -> Nat] /\ waited' \in [Target -> Nat]
  BY <1>2 DEF Done, TypeOK, Bucket
<1>3. ASSUME NEW t \in Target, TargetStep(t) PROVE TypeOK'
  <2>1. ASSUME NEW p \in Pool, NewRequest(t, p) PROVE TypeOK'
    BY <2>1 DEF NewRequest, TypeOK, github, client, Bucket
  <2>2. ASSUME NEW expiry \in Nat, Carry(t, expiry), expiresAt' \in [Target -> Nat]
        PROVE  TypeOK'
    BY <2>2 DEF Carry, TypeOK, github
  <2>3. CASE TakeToken(t)
    <3>1. Forever \in Nat /\ expiresAt[t] \in Nat
      BY DEF Forever, TypeOK
    <3> QED BY <2>2, <2>3, <3>1 DEF TakeToken, TypeOK
  <2>4. CASE ExchangeToken(t)
    <3>1. clock + TokenLife \in Nat /\ expiresAt' \in [Target -> Nat]
      BY <2>4 DEF ExchangeToken, TypeOK
    <3> QED BY <2>2, <2>4, <3>1 DEF ExchangeToken
  <2>5. CASE ExchangeFails(t)
    BY <1>2, <2>5 DEF ExchangeFails, TypeOK, github, client
  <2>6. CASE CheckPause(t)
    <3>1. pools[t][pool[t]].resetAt \in Nat
      BY DEF TypeOK, PoolRecord
    <3> QED BY <2>6, <3>1 DEF CheckPause, TypeOK, github, client
  <2>7. CASE Resume(t)
    BY <2>7 DEF Resume, TypeOK, github, client, request
  <2>8. CASE Fail(t)
    BY <1>2, <2>8 DEF Fail, TypeOK, github, client
  <2>9. ASSUME NEW headers \in Headers, NEW cost \in Charges, RoundTrip(t, headers, cost)
        PROVE  TypeOK'
    <3>1. pool[t] \in Pool /\ cost \in Nat
      BY <2>9, ChargeType
    <3>2. /\ UsedAfter(pool[t], cost) \in 0 .. Limit /\ WindowAfter(pool[t]) \in Nat
          /\ PoolsAfter(t, pool[t], headers, cost) \in [Bucket -> PoolRecord]
      BY <3>1, Counting, PoolsAfterType
    <3>3. used' \in [Pool -> 0 .. Limit] /\ windowEnd' \in [Pool -> Nat]
      BY <2>9, <3>1, <3>2 DEF RoundTrip, TypeOK
    <3>4. low' \in SUBSET Pool /\ blind' \in SUBSET Pool
      BY <2>9, <3>1 DEF RoundTrip, TypeOK
    <3>6. refused' \in [Pool -> SUBSET Target]
      <4>1. RefusedAfter(t, pool[t], cost) \in SUBSET Target
        BY <3>1 DEF RefusedAfter, TypeOK
      <4> QED BY <2>9, <3>1, <4>1 DEF RoundTrip, TypeOK
    <3>5. pools' \in [Target -> [Bucket -> PoolRecord]]
      BY <2>9, <3>2 DEF RoundTrip, TypeOK
    <3> QED BY <1>2, <2>9, <3>3, <3>4, <3>5, <3>6 DEF RoundTrip, TypeOK
  <2> QED BY <1>3, <2>1, <2>3, <2>4, <2>5, <2>6, <2>7, <2>8, <2>9 DEF TargetStep
<1>4. CASE UNCHANGED vars
  BY <1>4 DEF TypeOK, vars, github, client, request
<1> QED BY <1>1, <1>3, <1>4 DEF Next

\* A request keeps the pool it was classified to, and gives it up at its end.
LEMMA StepRequestsCount == TypeOK /\ RequestsCount /\ [Next]_vars => RequestsCount'
<1> SUFFICES ASSUME TypeOK, RequestsCount, [Next]_vars,
                    NEW u \in Target, pc'[u] # "idle"
             PROVE  pool'[u] \in Pool
  BY DEF RequestsCount
<1> USE DEF TypeOK, RequestsCount
<1>1. CASE Tick
  BY <1>1 DEF Tick
<1>2. ASSUME NEW t \in Target, TargetStep(t) PROVE pool'[u] \in Pool
  <2>1. ASSUME NEW p \in Pool, NewRequest(t, p) PROVE pool'[u] \in Pool
    BY <2>1 DEF NewRequest
  <2>2. CASE TakeToken(t) \/ ExchangeToken(t) \/ CheckPause(t) \/ Resume(t)
    BY <2>2 DEF TakeToken, ExchangeToken, CheckPause, Resume, Carry, request
  <2>3. ASSUME Done(t) PROVE pool'[u] \in Pool
    BY <2>3 DEF Done
  <2> QED BY <1>2, <2>1, <2>2, <2>3 DEF TargetStep, ExchangeFails, Fail, RoundTrip
<1>3. CASE UNCHANGED vars
  BY <1>3 DEF vars, request
<1> QED BY <1>1, <1>2, <1>3 DEF Next

\* A token has the margin left when it is taken, and loses it only in a pause.
LEMMA StepTokenCovered == TypeOK /\ TokenCovered /\ [Next]_vars => TokenCovered'
<1> SUFFICES ASSUME TypeOK, TokenCovered, [Next]_vars, NEW u \in Target
             PROVE  /\ pc'[u] \in {"idle", "token", "check"} => waited'[u] = 0
                    /\ pc'[u] \in {"check", "paused", "send"} =>
                         token'[u] + waited'[u] >= clock' + Margin
  BY DEF TokenCovered
<1> USE ParameterAssumption DEF ParameterAssumption, TypeOK, TokenCovered
<1>1. CASE Tick
  BY <1>1 DEF Tick
<1>2. ASSUME NEW t \in Target, TargetStep(t)
      PROVE  /\ pc'[u] \in {"idle", "token", "check"} => waited'[u] = 0
             /\ pc'[u] \in {"check", "paused", "send"} =>
                  token'[u] + waited'[u] >= clock' + Margin
  <2>1. CASE \E p \in Pool : NewRequest(t, p)
    BY <2>1 DEF NewRequest
  <2>2. CASE TakeToken(t)
    BY <2>2 DEF TakeToken, Carry, Cached, Forever
  <2>3. CASE ExchangeToken(t)
    BY <2>3 DEF ExchangeToken, Carry
  <2>4. CASE CheckPause(t)
    BY <2>4 DEF CheckPause
  <2>5. CASE Resume(t)
    BY <2>5 DEF Resume, request
  <2>6. CASE Done(t) /\ UNCHANGED clock
    BY <2>6 DEF Done
  <2> QED BY <1>2, <2>1, <2>2, <2>3, <2>4, <2>5, <2>6
          DEF TargetStep, ExchangeFails, Fail, RoundTrip
<1>3. CASE UNCHANGED vars
  BY <1>3 DEF vars, request
<1> QED BY <1>1, <1>2, <1>3 DEF Next

\* The steps of the clients leave GitHub and the pools alone; an answer is the
\* only one that does not.
LEMMA OnlyAnswersChangePools ==
  ASSUME NEW t \in Target, TargetStep(t)
  PROVE  \/ \E headers \in Headers, cost \in Charges : RoundTrip(t, headers, cost)
         \/ UNCHANGED <<clock, used, windowEnd, blind, pools>>
BY DEF TargetStep, NewRequest, TakeToken, ExchangeToken, ExchangeFails, CheckPause,
       Resume, Fail, Carry, github, client

\* What an answer does to the pause of a pool about which GitHub told all.
LEMMA AnswerKeepsMatch ==
  ASSUME TypeOK, RequestsCount, PausesMatchWindow,
         NEW t \in Target, NEW headers \in Headers, NEW cost, RoundTrip(t, headers, cost)
  PROVE  PausesMatchWindow'
<1> USE ParameterAssumption DEF ParameterAssumption
<1> DEFINE q == pool[t]
<1> SUFFICES ASSUME NEW u \in Target, NEW p \in Pool, p \notin blind',
                    pools'[u][p].paused, pools'[u][p].resetAt > clock
             PROVE  /\ pools'[u][p].resetAt = windowEnd'[p]
                    /\ Limit - used'[p] < Threshold
  BY DEF PausesMatchWindow, RoundTrip
<1>1. /\ q \in Pool /\ cost \in Nat /\ clock \in Nat /\ p \notin blind
      /\ used[p] \in 0 .. Limit /\ windowEnd[p] \in Nat
  BY ChargeType DEF RequestsCount, RoundTrip, TypeOK
<1>2. /\ used' = [used EXCEPT ![q] = UsedAfter(q, cost)]
      /\ windowEnd' = [windowEnd EXCEPT ![q] = WindowAfter(q)]
      /\ pools' = [pools EXCEPT ![t] = PoolsAfter(t, q, headers, cost)]
  BY DEF RoundTrip
<1>3. CASE p # q
  <2>1. used'[p] = used[p] /\ windowEnd'[p] = windowEnd[p]
    BY <1>1, <1>2, <1>3 DEF TypeOK
  <2>2. pools'[u][p] = pools[u][p]
    <3>1. PoolsAfter(t, q, headers, cost)[p] = pools[t][p]
      <4>1. ResponsePool(q, headers) # p
        BY <1>1, <1>3 DEF ResponsePool
      <4> QED BY <1>1, <4>1 DEF PoolsAfter, TypeOK
    <3> QED BY <1>2, <3>1 DEF TypeOK
  <2> QED BY <1>1, <2>1, <2>2 DEF PausesMatchWindow
<1>4. CASE p = q
  <2>1. headers = "full"
    BY <1>1, <1>4 DEF RoundTrip
  <2>2. used'[p] = UsedAfter(p, cost) /\ windowEnd'[p] = WindowAfter(p)
    BY <1>1, <1>2, <1>4 DEF TypeOK
  <2>3. CASE u = t
    <3>1. pools'[u][p] = PoolState(Limit - UsedAfter(p, cost), ResetAt(p, headers, cost))
      BY <1>1, <1>2, <1>4, <2>1, <2>3 DEF PoolsAfter, ResponsePool, TypeOK, Bucket
    <3>2. ResetAt(p, headers, cost) = WindowAfter(p)
      BY <2>1 DEF ResetAt
    <3> DEFINE state == PoolState(Limit - UsedAfter(p, cost), ResetAt(p, headers, cost))
    <3>3. /\ state.resetAt = WindowAfter(p)
          /\ state.paused <=> Limit - UsedAfter(p, cost) < Threshold
      BY <3>2 DEF PoolState
    <3>4. state.paused
      BY <3>1
    <3> QED BY <2>2, <3>1, <3>3, <3>4
  <2>4. CASE u # t
    <3>1. pools[u][p].paused /\ pools[u][p].resetAt > clock /\ pools'[u][p] = pools[u][p]
      BY <1>2, <2>4 DEF TypeOK
    <3>2. pools[u][p].resetAt = windowEnd[p] /\ Limit - used[p] < Threshold
      BY <1>1, <3>1 DEF PausesMatchWindow
    <3>3. WindowAfter(p) = windowEnd[p] /\ UsedAfter(p, cost) >= used[p]
          /\ UsedAfter(p, cost) \in 0 .. Limit
      BY <1>1, <3>1, <3>2, Counting
    <3> QED BY <1>1, <2>2, <3>1, <3>2, <3>3
  <2> QED BY <2>3, <2>4
<1> QED BY <1>3, <1>4

\* The pools of every target agree with GitHub's windows after every step.
LEMMA StepPausesMatch ==
  TypeOK /\ RequestsCount /\ PausesMatchWindow /\ [Next]_vars => PausesMatchWindow'
<1> SUFFICES ASSUME TypeOK, RequestsCount, PausesMatchWindow, [Next]_vars
             PROVE  PausesMatchWindow'
  OBVIOUS
<1>1. CASE Tick
  <2>1. clock \in Nat /\ clock' = clock + 1 /\ UNCHANGED <<used, windowEnd, blind, pools>>
    BY <1>1, ParameterAssumption DEF Tick, TypeOK, github, client, ParameterAssumption
  <2>2. \A t \in Target : \A p \in Pool : pools[t][p].resetAt \in Nat
    BY DEF TypeOK, Bucket, PoolRecord
  <2> QED BY <2>1, <2>2 DEF PausesMatchWindow
<1>2. ASSUME NEW t \in Target, TargetStep(t) PROVE PausesMatchWindow'
  BY <1>2, OnlyAnswersChangePools, AnswerKeepsMatch DEF PausesMatchWindow
<1>3. CASE UNCHANGED vars
  BY <1>3 DEF PausesMatchWindow, vars, github, client
<1> QED BY <1>1, <1>2, <1>3 DEF Next

\* A request pauses until the end of the window that its client knows, and the
\* window stays as it is until then, whatever the other targets do.
LEMMA StepPauseMatches ==
  TypeOK /\ RequestsCount /\ PausesMatchWindow /\ PauseMatchesGitHub /\ [Next]_vars
    => PauseMatchesGitHub'
<1> SUFFICES ASSUME TypeOK, RequestsCount, PausesMatchWindow, PauseMatchesGitHub, [Next]_vars,
                    NEW u \in Target, pc'[u] = "paused", clock' < until'[u],
                    pool'[u] \notin blind'
             PROVE  /\ Limit - used'[pool'[u]] < Threshold
                    /\ until'[u] = windowEnd'[pool'[u]]
  BY DEF PauseMatchesGitHub
<1> USE ParameterAssumption DEF ParameterAssumption
<1>1. CASE Tick
  <2>1. clock \in Nat /\ clock' = clock + 1 /\ until[u] \in Nat
        /\ UNCHANGED <<used, windowEnd, blind, pc, pool, until>>
    BY <1>1 DEF Tick, TypeOK, github
  <2> QED BY <2>1 DEF PauseMatchesGitHub
<1>2. ASSUME NEW t \in Target, TargetStep(t)
      PROVE  /\ Limit - used'[pool'[u]] < Threshold
             /\ until'[u] = windowEnd'[pool'[u]]
  <2>1. CASE \E headers \in Headers, cost \in Charges : RoundTrip(t, headers, cost)
    <3> PICK headers \in Headers, cost \in Charges : RoundTrip(t, headers, cost)
      BY <2>1
    <3>1. t # u /\ pc[u] = "paused" /\ pool'[u] = pool[u] /\ until'[u] = until[u]
          /\ clock' = clock
      BY DEF RoundTrip, Done, TypeOK
    <3> DEFINE p == pool[u]
    <3> DEFINE q == pool[t]
    <3>2. p \in Pool /\ q \in Pool /\ p \notin blind /\ cost \in Nat
      BY <3>1, ChargeType DEF RequestsCount, RoundTrip
    <3>3. Limit - used[p] < Threshold /\ until[u] = windowEnd[p] /\ windowEnd[p] > clock
      <4>1. clock < until[u]
        BY <3>1
      <4>2. Limit - used[p] < Threshold /\ until[u] = windowEnd[p]
        BY <3>1, <3>2, <4>1 DEF PauseMatchesGitHub
      <4> QED BY <4>1, <4>2
    <3>4. /\ used' = [used EXCEPT ![q] = UsedAfter(q, cost)]
          /\ windowEnd' = [windowEnd EXCEPT ![q] = WindowAfter(q)]
      BY DEF RoundTrip
    <3>5. used[p] \in 0 .. Limit /\ windowEnd[p] \in Nat
      BY <3>2 DEF TypeOK
    <3>6. WindowAfter(p) = windowEnd[p] /\ UsedAfter(p, cost) >= used[p]
          /\ UsedAfter(p, cost) \in 0 .. Limit
      BY <3>2, <3>3, Counting
    <3>7. used'[p] >= used[p] /\ used'[p] \in 0 .. Limit /\ windowEnd'[p] = windowEnd[p]
      BY <3>2, <3>4, <3>5, <3>6 DEF TypeOK
    <3> QED BY <3>1, <3>3, <3>5, <3>7
  <2>2. CASE CheckPause(t) /\ u = t
    <3>1. MustWait(u) /\ until'[u] = pools[u][pool[u]].resetAt /\ pool'[u] = pool[u]
          /\ UNCHANGED <<used, windowEnd, blind>>
      BY <2>2 DEF CheckPause, TypeOK, github
    <3>2. pool[u] \in Pool \ blind
      BY <2>2, <3>1 DEF CheckPause, RequestsCount
    <3> QED BY <3>1, <3>2 DEF MustWait, PausesMatchWindow
  <2>3. CASE /\ ~(CheckPause(t) /\ u = t)
             /\ ~\E headers \in Headers, cost \in Charges : RoundTrip(t, headers, cost)
    <3>1. UNCHANGED <<clock, used, windowEnd, blind>>
      BY <1>2, <2>3, OnlyAnswersChangePools
    <3>2. pc[u] = "paused" /\ pool'[u] = pool[u] /\ until'[u] = until[u]
      BY <1>2, <2>3 DEF TargetStep, NewRequest, TakeToken, ExchangeToken, ExchangeFails,
           CheckPause, Resume, Fail, Carry, Done, request, TypeOK
    <3> QED BY <3>1, <3>2 DEF PauseMatchesGitHub
  <2> QED BY <2>1, <2>2, <2>3
<1>3. CASE UNCHANGED vars
  BY <1>3 DEF PauseMatchesGitHub, vars, github, request
<1> QED BY <1>1, <1>2, <1>3 DEF Next

-----------------------------------------------------------------------------
(* The quota *)

\* A request's pause keeps the reset it was taken from: only the target's own
\* answers change its pools, and a paused request has none.
LEMMA StepPausesUntilReset ==
  TypeOK /\ PausesUntilReset /\ [Next]_vars => PausesUntilReset'
<1> SUFFICES ASSUME TypeOK, PausesUntilReset, [Next]_vars, NEW u \in Target,
                    pc'[u] = "paused", pools'[u][pool'[u]].paused,
                    pools'[u][pool'[u]].resetAt > clock'
             PROVE  until'[u] = pools'[u][pool'[u]].resetAt
  BY DEF PausesUntilReset
<1> USE ParameterAssumption DEF ParameterAssumption
<1>1. CASE Tick
  <2>1. clock \in Nat /\ clock' = clock + 1 /\ UNCHANGED <<pools, pc, pool, until>>
    BY <1>1 DEF Tick, TypeOK, client
  <2>2. pools[u][pool[u]].resetAt \in Nat
    BY DEF TypeOK, PoolRecord
  <2> QED BY <2>1, <2>2 DEF PausesUntilReset
<1>2. ASSUME NEW t \in Target, TargetStep(t)
      PROVE  until'[u] = pools'[u][pool'[u]].resetAt
  <2>1. CASE CheckPause(t) /\ u = t
    BY <2>1 DEF CheckPause, TypeOK, client
  <2>2. CASE ~(CheckPause(t) /\ u = t)
    <3>1. /\ pc[u] = "paused" /\ pool'[u] = pool[u] /\ until'[u] = until[u]
          /\ clock' = clock /\ pools'[u] = pools[u]
      BY <1>2, <2>2 DEF TargetStep, NewRequest, TakeToken, ExchangeToken, ExchangeFails,
         CheckPause, Resume, Fail, RoundTrip, Carry, Done, client, request, TypeOK
    <3> QED BY <3>1 DEF PausesUntilReset
  <2> QED BY <2>1, <2>2
<1>3. CASE UNCHANGED vars
  BY <1>3 DEF PausesUntilReset, vars, client, request
<1> QED BY <1>1, <1>2, <1>3 DEF Next

\* What an answer that tells all leaves of its pool.
LEMMA FullAnswer ==
  ASSUME TypeOK, NEW t \in Target, NEW p \in Pool, p = pool[t],
         NEW cost, RoundTrip(t, "full", cost)
  PROVE  /\ used'[p] = UsedAfter(p, cost) /\ windowEnd'[p] = WindowAfter(p)
         /\ refused'[p] = RefusedAfter(t, p, cost)
         /\ pools'[t][p].resetAt = WindowAfter(p)
         /\ pools'[t][p].paused <=> Limit - UsedAfter(p, cost) < Threshold
         /\ pc'[t] = "idle"
<1>1. /\ used'[p] = UsedAfter(p, cost) /\ windowEnd'[p] = WindowAfter(p)
      /\ refused'[p] = RefusedAfter(t, p, cost) /\ pc'[t] = "idle"
  BY DEF RoundTrip, Done, TypeOK
<1>2. pools'[t] = PoolsAfter(t, p, "full", cost)
  BY DEF RoundTrip, TypeOK
<1> DEFINE state == PoolState(Limit - UsedAfter(p, cost), WindowAfter(p))
<1>3. pools'[t][p] = state
  BY <1>2 DEF PoolsAfter, ResponsePool, ResetAt, TypeOK, Bucket
<1>4. state.resetAt = WindowAfter(p) /\ (state.paused <=> Limit - UsedAfter(p, cost) < Threshold)
  BY DEF PoolState
<1>5. pools'[t][p].resetAt = WindowAfter(p)
      /\ (pools'[t][p].paused <=> Limit - UsedAfter(p, cost) < Threshold)
  <2> HIDE DEF state
  <2> QED BY <1>3, <1>4
<1> QED BY <1>1, <1>5

\* An answer leaves what it is not about: other pools, and other targets.
LEMMA AnswerFrame ==
  ASSUME TypeOK, RequestsCount, NEW t \in Target, NEW headers \in Headers,
         NEW cost, RoundTrip(t, headers, cost)
  PROVE  /\ pool[t] \in Pool /\ clock' = clock
         /\ \A p \in Pool : p # pool[t] =>
              /\ used'[p] = used[p] /\ windowEnd'[p] = windowEnd[p]
              /\ refused'[p] = refused[p] /\ (p \in low' <=> p \in low)
              /\ \A u \in Target : pools'[u][p] = pools[u][p]
         /\ \A u \in Target : u # t =>
              pools'[u] = pools[u] /\ pc'[u] = pc[u] /\ pool'[u] = pool[u]
         /\ pc'[t] = "idle"
<1>1. pool[t] \in Pool
  BY DEF RequestsCount, RoundTrip
<1>2. \A u \in Target : u # t => pools'[u] = pools[u] /\ pc'[u] = pc[u] /\ pool'[u] = pool[u]
  BY DEF RoundTrip, Done, TypeOK
<1>3. clock' = clock /\ pc'[t] = "idle"
  BY DEF RoundTrip, Done, TypeOK
<1>4. ASSUME NEW p \in Pool, p # pool[t]
      PROVE  /\ used'[p] = used[p] /\ windowEnd'[p] = windowEnd[p]
             /\ refused'[p] = refused[p] /\ (p \in low' <=> p \in low)
             /\ pools'[t][p] = pools[t][p]
  <2>1. used'[p] = used[p] /\ windowEnd'[p] = windowEnd[p] /\ refused'[p] = refused[p]
    BY <1>1, <1>4 DEF RoundTrip, TypeOK
  <2>2. p \in low' <=> p \in low
    BY <1>1, <1>4 DEF RoundTrip
  <2>3. pools'[t] = PoolsAfter(t, pool[t], headers, cost)
    BY DEF RoundTrip, TypeOK
  <2>4. ResponsePool(pool[t], headers) # p
    BY <1>4, ParameterAssumption DEF ResponsePool, ParameterAssumption
  <2> QED BY <2>1, <2>2, <2>3, <2>4 DEF PoolsAfter, TypeOK
<1> QED BY <1>1, <1>2, <1>3, <1>4

\* Who knows of a pool's window after an answer that tells all: a target that did
\* if the window is still the same, and the answer's own if the count is low. A
\* refused request's count is, when the threshold is at least what it costs.
LEMMA WhoKnows ==
  ASSUME Inv, NEW t \in Target, NEW p \in Pool \ blind, p = pool[t],
         NEW cost, RoundTrip(t, "full", cost)
  PROVE  /\ t \in Knows(p)' <=> Limit - UsedAfter(p, cost) < Threshold
         /\ \A u \in Target : u # t =>
              (u \in Knows(p)' <=> ~NewWindow(p) /\ u \in Knows(p))
         /\ Cost[p] <= Threshold /\ Refused(p, cost) => t \in Knows(p)'
<1> USE ParameterAssumption DEF ParameterAssumption
<1>1. TypeOK /\ RequestsCount /\ PausesMatchWindow
  BY DEF Inv
<1>2. /\ clock \in Nat /\ used[p] \in 0 .. Limit /\ windowEnd[p] \in Nat
      /\ cost \in Nat /\ cost <= Cost[p] /\ WindowAfter(p) > clock
      /\ UsedAfter(p, cost) \in 0 .. Limit
  BY <1>1, ChargeType, Counting DEF TypeOK
<1>3. /\ windowEnd'[p] = WindowAfter(p)
      /\ t \in Knows(p)' <=> Limit - UsedAfter(p, cost) < Threshold
  BY <1>1, FullAnswer DEF Knows
<1>4. ASSUME NEW u \in Target, u # t
      PROVE  u \in Knows(p)' <=> ~NewWindow(p) /\ u \in Knows(p)
  <2>1. pools'[u] = pools[u]
    BY <1>1, <1>4, AnswerFrame DEF Headers
  <2>2. u \in Knows(p)' <=> pools[u][p].paused /\ pools[u][p].resetAt = WindowAfter(p)
    BY <1>3, <2>1 DEF Knows
  <2>3. ASSUME pools[u][p].paused, pools[u][p].resetAt = WindowAfter(p)
        PROVE  WindowAfter(p) = windowEnd[p]
    BY <1>1, <1>2, <2>3 DEF PausesMatchWindow
  <2>4. CASE NewWindow(p)
    BY <1>2, <2>2, <2>3, <2>4 DEF NewWindow
  <2>5. CASE ~NewWindow(p)
    BY <2>2, <2>5 DEF WindowAfter, Knows
  <2> QED BY <2>4, <2>5
<1>5. ASSUME Cost[p] <= Threshold, Refused(p, cost)
      PROVE  Limit - UsedAfter(p, cost) < Threshold
  <2>1. UsedAfter(p, cost) = UsedBefore(p) /\ UsedBefore(p) + cost > Limit
    BY <1>5 DEF UsedAfter, Refused
  <2> QED BY <1>2, <1>5, <2>1
<1> QED BY <1>3, <1>4, <1>5

\* With few targets an answer finds room: its target sent the request not knowing
\* that the pool runs low, and knows it now.
LEMMA AnswerFits ==
  ASSUME Inv, NEW t \in Target, NEW p \in Pool \ blind, p = pool[t],
         NEW cost, RoundTrip(t, "full", cost),
         FewTargets(p), NewWindow(p) \/ p \notin low
  PROVE  /\ used'[p] <= Limit - Threshold + Cost[p] * Cardinality(Knows(p)')
         /\ ~Refused(p, cost)
<1> USE ParameterAssumption DEF ParameterAssumption
<1> DEFINE n == Cardinality(Knows(p))
<1> DEFINE nn == Cardinality(Knows(p)')
<1> DEFINE all == Cost[p] * Cardinality(Target)
<1>1. TypeOK /\ RequestsCount /\ QuotaShared
  BY DEF Inv
<1>2. /\ clock \in Nat /\ used[p] \in 0 .. Limit /\ windowEnd[p] \in Nat
      /\ cost \in Nat /\ cost <= Cost[p] /\ Cost[p] \in Nat
      /\ UsedAfter(p, cost) \in 0 .. Limit
  BY <1>1, ChargeType, Counting DEF TypeOK
<1>3. used'[p] = UsedAfter(p, cost) /\ pc[t] = "send"
  <2>1. used'[p] = UsedAfter(p, cost)
    BY <1>1, FullAnswer
  <2> QED BY <2>1 DEF RoundTrip
<1>4. IsFiniteSet(Knows(p)') /\ nn \in Nat
  <2>1. Knows(p)' \subseteq Target
    BY DEF Knows
  <2> QED BY <2>1, FS_Subset, FS_CardinalityType
<1>5. /\ all <= Threshold /\ Threshold <= Limit /\ all \in Nat
      /\ Cardinality(Target) \in Nat
  BY <1>2, KnowsFinite, Room DEF FewTargets
<1>6. Cost[p] * nn \in Nat
  BY <1>2, <1>4, Room
<1>7. t \notin Knows(p)' => used'[p] <= Limit - Threshold
  BY <1>2, <1>3, WhoKnows
<1>8. CASE NewWindow(p)
  <2>1. Cost[p] <= all
    <3>1. Cardinality(Target) # 0
      BY <1>5, FS_EmptySet
    <3>2. Cost[p] * 0 + Cost[p] <= all
      BY <1>2, <1>5, <3>1, Room
    <3> QED BY <1>2, <3>2
  <2>2. UsedBefore(p) = 0
    BY <1>8 DEF UsedBefore
  <2>3. ~Refused(p, cost) /\ used'[p] = cost
    BY <1>2, <1>3, <1>5, <2>1, <2>2 DEF Refused, UsedAfter
  <2>4. t \in Knows(p)' => Cost[p] <= Cost[p] * nn
    <3> SUFFICES ASSUME t \in Knows(p)' PROVE Cost[p] <= Cost[p] * nn
      OBVIOUS
    <3>1. nn # 0
      BY <1>4, FS_EmptySet
    <3>2. Cost[p] * 0 + Cost[p] <= Cost[p] * nn
      BY <1>2, <1>4, <3>1, Room
    <3> QED BY <1>2, <3>2
  <2> HIDE DEF nn, all
  <2> QED BY <1>2, <1>5, <1>6, <1>7, <2>3, <2>4 DEF nn
<1>9. CASE ~NewWindow(p)
  <2>1. windowEnd[p] > clock
    BY <1>2, <1>9 DEF NewWindow
  <2>2. used[p] <= Limit - Threshold + Cost[p] * n /\ t \notin Knows(p)
    BY <1>1, <1>3, <1>9, <2>1 DEF QuotaShared
  <2>3. n \in Nat /\ n < Cardinality(Target) /\ IsFiniteSet(Knows(p))
    BY <2>2, KnowsFinite
  <2>4. Cost[p] * n + Cost[p] <= all /\ Cost[p] * n \in Nat
        /\ Cost[p] * (n + 1) = Cost[p] * n + Cost[p]
    BY <1>2, <1>5, <2>3, Room
  <2>5. UsedBefore(p) = used[p]
    BY <1>9 DEF UsedBefore
  <2>6. used[p] + cost <= Limit - Threshold + (Cost[p] * n + Cost[p])
    <3> HIDE DEF n
    <3> QED BY <1>2, <1>5, <2>2, <2>4
  <2>7. used[p] + cost <= Limit
    <3> HIDE DEF n, all
    <3> QED BY <1>2, <1>5, <2>4, <2>6
  <2>8. ~Refused(p, cost) /\ used'[p] = used[p] + cost
    BY <1>2, <1>3, <2>5, <2>7 DEF Refused, UsedAfter
  <2>9. CASE t \in Knows(p)'
    <3>1. Knows(p)' = Knows(p) \cup {t}
      BY <1>9, <2>9, WhoKnows DEF Knows
    <3>2. nn = n + 1
      BY <2>2, <2>3, <3>1, FS_AddElement
    <3> QED BY <2>4, <2>6, <2>8, <3>2
  <2>10. CASE t \notin Knows(p)'
    <3> HIDE DEF nn
    <3> QED BY <1>2, <1>5, <1>6, <1>7, <2>8, <2>10 DEF nn
  <2> QED BY <2>8, <2>9, <2>10
<1> QED BY <1>8, <1>9

\* An answer that tells all keeps what is shared of the quota.
LEMMA AnswerKeepsQuota ==
  ASSUME Inv, NEW t \in Target, NEW p \in Pool \ blind, p = pool[t],
         NEW cost, RoundTrip(t, "full", cost)
  PROVE  /\ \A u \in Target : pc'[u] = "send" /\ pool'[u] = p => u \notin Knows(p)'
         /\ Cost[p] <= Threshold => refused'[p] \subseteq Knows(p)'
         /\ FewTargets(p) /\ p \notin low' =>
              /\ used'[p] <= Limit - Threshold + Cost[p] * Cardinality(Knows(p)')
              /\ refused'[p] = {}
<1>1. TypeOK /\ RequestsCount /\ QuotaShared /\ QuotaKept
  BY DEF Inv
<1>2. /\ refused'[p] = RefusedAfter(t, p, cost) /\ pc'[t] # "send"
      /\ low' = IF NewWindow(p) THEN low \ {p} ELSE low
  <2>1. refused'[p] = RefusedAfter(t, p, cost) /\ pc'[t] # "send"
    BY <1>1, FullAnswer
  <2> QED BY <2>1 DEF RoundTrip
<1>3. \A u \in Target : u # t => pc'[u] = pc[u] /\ pool'[u] = pool[u]
  BY <1>1, AnswerFrame DEF Headers
<1>4. clock \in Int /\ windowEnd[p] \in Int
  BY <1>1 DEF TypeOK
<1>5. ~NewWindow(p) => windowEnd[p] > clock
  BY <1>4 DEF NewWindow
<1>6. ASSUME NEW u \in Target, pc'[u] = "send", pool'[u] = p PROVE u \notin Knows(p)'
  <2>1. u # t /\ pc[u] = "send" /\ pool[u] = p
    BY <1>2, <1>3, <1>6
  <2> QED BY <1>1, <1>5, <2>1, WhoKnows DEF QuotaShared
<1>7. ASSUME Cost[p] <= Threshold, NEW u \in refused'[p] PROVE u \in Knows(p)'
  <2>1. \/ Refused(p, cost) /\ u = t
        \/ ~NewWindow(p) /\ u \in refused[p]
    BY <1>2 DEF RefusedAfter
  <2>2. CASE Refused(p, cost) /\ u = t
    BY <1>7, <2>2, WhoKnows
  <2>3. CASE ~NewWindow(p) /\ u \in refused[p]
    <3>1. u \in Knows(p) /\ t \notin Knows(p)
      BY <1>1, <1>5, <1>7, <2>3 DEF QuotaShared, RoundTrip
    <3>2. u \in Target
      BY <3>1 DEF Knows
    <3> QED BY <2>3, <3>1, <3>2, WhoKnows
  <2> QED BY <2>1, <2>2, <2>3
<1>8. ASSUME FewTargets(p), p \notin low'
      PROVE  /\ used'[p] <= Limit - Threshold + Cost[p] * Cardinality(Knows(p)')
             /\ refused'[p] = {}
  <2>1. NewWindow(p) \/ p \notin low
    BY <1>2, <1>8
  <2>2. /\ used'[p] <= Limit - Threshold + Cost[p] * Cardinality(Knows(p)')
        /\ ~Refused(p, cost)
    BY <1>8, <2>1, AnswerFits
  <2>3. ~NewWindow(p) => refused[p] = {}
    BY <1>1, <1>5, <1>8, <2>1 DEF QuotaKept
  <2> QED BY <1>2, <2>2, <2>3 DEF RefusedAfter
<1> QED BY <1>6, <1>7, <1>8

\* What QuotaShared and QuotaKept say of a pool whose window is open.
QuotaOf(p) ==
  /\ \A t \in Target : pc[t] = "send" /\ pool[t] = p => t \notin Knows(p)
  /\ Cost[p] <= Threshold => refused[p] \subseteq Knows(p)
  /\ FewTargets(p) /\ p \notin low =>
       /\ used[p] <= Limit - Threshold + Cost[p] * Cardinality(Knows(p))
       /\ refused[p] = {}

QuotaOfPools == \A p \in Pool \ blind : windowEnd[p] > clock => QuotaOf(p)

\* The quota's invariant, pool by pool: a refused target knows, and one that knows
\* does not send.
LEMMA QuotaByPool == QuotaShared /\ QuotaKept <=> QuotaOfPools
<1> USE DEF QuotaOfPools
<1>1. ASSUME QuotaShared, QuotaKept, NEW p \in Pool \ blind, windowEnd[p] > clock
      PROVE  QuotaOf(p)
  BY <1>1 DEF QuotaShared, QuotaKept, QuotaOf
<1>2. ASSUME \A p \in Pool \ blind : windowEnd[p] > clock => QuotaOf(p)
      PROVE  QuotaShared /\ QuotaKept
  <2>1. QuotaShared
    BY <1>2 DEF QuotaShared, QuotaOf
  <2>2. ASSUME NEW p \in Pool \ blind, windowEnd[p] > clock, Cost[p] <= Threshold,
               NEW t \in refused[p], pc[t] = "send", pool[t] = p
        PROVE  FALSE
    <3>1. t \in Knows(p) /\ t \in Target
      BY <1>2, <2>2 DEF QuotaOf, Knows
    <3> QED BY <1>2, <2>2, <3>1 DEF QuotaOf
  <2> QED BY <1>2, <2>1, <2>2 DEF QuotaKept, QuotaOf
<1> QED BY <1>1, <1>2

\* The quota stays shared, and kept.
LEMMA StepQuota == Inv /\ [Next]_vars => QuotaShared' /\ QuotaKept'
<1> SUFFICES ASSUME Inv, [Next]_vars
             PROVE  QuotaOfPools'
  BY QuotaByPool, PTL
<1> USE ParameterAssumption DEF ParameterAssumption
<1>1. /\ TypeOK /\ RequestsCount /\ PausesUntilReset
      /\ QuotaOfPools
  BY QuotaByPool DEF Inv
<1>2. ASSUME UNCHANGED <<used, windowEnd, refused, low, blind, pools>>,
             clock \in Nat, clock' \in Nat, clock <= clock',
             \A u \in Target : pc'[u] = "send" /\ pool'[u] \in Pool \ blind =>
               \/ pc[u] = "send" /\ pool[u] = pool'[u]
               \/ windowEnd[pool'[u]] > clock' => u \notin Knows(pool'[u])
      PROVE  QuotaOfPools'
  <2>1. \A p : Knows(p)' = Knows(p)
    BY <1>2 DEF Knows
  <2>2. \A p \in Pool : windowEnd[p] \in Nat
    BY <1>1 DEF TypeOK
  <2> QED BY <1>1, <1>2, <2>1, <2>2 DEF QuotaOfPools, QuotaOf, FewTargets
<1>3. CASE Tick
  <2>1. /\ UNCHANGED <<used, windowEnd, refused, low, blind, pools, pc, pool>>
        /\ clock \in Nat /\ clock' \in Nat /\ clock <= clock'
    BY <1>1, <1>3 DEF Tick, TypeOK, github, client
  <2> QED BY <1>2, <2>1
<1>4. ASSUME NEW t \in Target, NEW headers \in Headers, NEW cost \in Charges,
             RoundTrip(t, headers, cost),
             NEW p \in Pool \ blind', windowEnd'[p] > clock'
      PROVE  QuotaOf(p)'
  <2>1. /\ pool[t] \in Pool /\ clock' = clock /\ pc'[t] # "send"
        /\ blind' = IF headers = "full" THEN blind ELSE blind \cup {pool[t]}
    BY <1>1, <1>4, AnswerFrame DEF RoundTrip
  <2>2. p \in Pool \ blind
    BY <1>4, <2>1
  <2>3. CASE p = pool[t]
    <3>1. headers = "full"
      BY <1>4, <2>1, <2>3
    <3> QED BY <1>4, <2>2, <2>3, <3>1, AnswerKeepsQuota DEF QuotaOf, FewTargets
  <2>4. CASE p # pool[t]
    <3>1. /\ used'[p] = used[p] /\ windowEnd'[p] = windowEnd[p]
          /\ refused'[p] = refused[p] /\ (p \in low' <=> p \in low)
          /\ \A u \in Target : pools'[u][p] = pools[u][p]
      BY <1>1, <1>4, <2>2, <2>4, AnswerFrame
    <3>2. Knows(p)' = Knows(p)
      BY <3>1 DEF Knows
    <3>3. \A u \in Target : pc'[u] = "send" => pc[u] = "send" /\ pool'[u] = pool[u]
      BY <1>1, <1>4, <2>1, AnswerFrame
    <3>4. QuotaOf(p)
      BY <1>1, <1>4, <2>1, <2>2, <3>1 DEF QuotaOfPools
    <3> QED BY <3>1, <3>2, <3>3, <3>4 DEF QuotaOf, FewTargets
  <2> QED BY <2>3, <2>4
<1>5. ASSUME NEW t \in Target, TargetStep(t),
             ~ \E headers \in Headers, cost \in Charges : RoundTrip(t, headers, cost)
      PROVE  QuotaOfPools'
  <2>1. UNCHANGED <<clock, used, windowEnd, refused, low, blind, pools>> /\ clock \in Nat
    BY <1>1, <1>5 DEF TargetStep, NewRequest, TakeToken, ExchangeToken, ExchangeFails, CheckPause,
       Resume, Fail, Carry, github, client, TypeOK
  <2>2. ASSUME NEW u \in Target, pc'[u] = "send", pool'[u] \in Pool \ blind
        PROVE  \/ pc[u] = "send" /\ pool[u] = pool'[u]
               \/ windowEnd[pool'[u]] > clock' => u \notin Knows(pool'[u])
    <3>1. CASE CheckPause(t) /\ u = t
      <4>1. pool'[u] = pool[u] /\ ~MustWait(u)
        BY <1>1, <2>2, <3>1 DEF CheckPause, TypeOK
      <4> QED BY <2>1, <4>1 DEF MustWait, Knows
    <3>2. CASE Resume(t) /\ u = t
      <4>1. pool'[u] = pool[u] /\ pc[u] = "paused" /\ clock >= until[u]
        BY <3>2 DEF Resume, request
      <4>2. pools[u][pool[u]].resetAt \in Nat /\ until[u] \in Nat
        BY <1>1 DEF TypeOK, PoolRecord
      <4> QED BY <1>1, <2>1, <4>1, <4>2 DEF PausesUntilReset, Knows
    <3>3. CASE ~(CheckPause(t) /\ u = t) /\ ~(Resume(t) /\ u = t)
      BY <1>1, <1>5, <2>2, <3>3 DEF TargetStep, NewRequest, TakeToken, ExchangeToken,
         ExchangeFails, CheckPause, Resume, Fail, Carry, Done, request, TypeOK
    <3> QED BY <3>1, <3>2, <3>3
  <2> QED BY <1>2, <2>1, <2>2
<1>6. CASE UNCHANGED vars
  <2>1. UNCHANGED <<clock, used, windowEnd, refused, low, blind, pools, pc, pool>> /\ clock \in Nat
    BY <1>1, <1>6 DEF vars, github, client, request, TypeOK
  <2> QED BY <1>2, <2>1
<1> QED BY <1>3, <1>4, <1>5, <1>6 DEF Next, QuotaOfPools

-----------------------------------------------------------------------------
(* The theorems *)

\* The invariant holds in every reachable state, for any number of targets and
\* pools, any limit, threshold, window and token life.
THEOREM Invariant == Spec => []Inv
<1>1. Inv /\ [Next]_vars => Inv'
  BY StepType, StepRequestsCount, StepTokenCovered, StepPausesMatch, StepPauseMatches,
     StepPausesUntilReset, StepQuota DEF Inv
<1> QED BY InitInv, <1>1, PTL DEF Spec

\* A request pauses only when GitHub has few requests left in its own pool, and
\* until the end of GitHub's window: waitIfPaused and updateRateLimit keep each
\* pool's state apart, and no other target's request can make it wrong.
THEOREM PausesAreGitHubs == Spec => []PauseMatchesGitHub
<1>1. Inv => PauseMatchesGitHub
  BY DEF Inv
<1> QED BY Invariant, <1>1, PTL

\* Token's five minutes cover every request that does not pause for them: only a
\* pause of the margin or longer sends a request with an expired token.
THEOREM TokensLastWithoutPause == Spec => []TokenLostOnlyInPause
<1>1. Inv => TokenLostOnlyInPause
  BY ParameterAssumption DEF Inv, TypeOK, TokenCovered, TokenLostOnlyInPause, ParameterAssumption
<1> QED BY Invariant, <1>1, PTL

\* Of a pool GitHub's answers tell all about: a target that was refused sends no
\* more before the window ends, even if the process found the window used up; and
\* if the threshold has room for one request of every target, at what it may cost,
\* nobody is refused in a window that was not low already at the start.
THEOREM SharedQuotaIsKept == Spec => []QuotaKept
<1>1. Inv => QuotaKept
  BY DEF Inv
<1> QED BY Invariant, <1>1, PTL
=============================================================================
