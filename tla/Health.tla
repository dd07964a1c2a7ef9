------------------------------- MODULE Health -------------------------------
(***************************************************************************)
(* The health state of every target (internal/health/health.go) with all   *)
(* that drives it: main's startup and shutdown, the targets' collection    *)
(* loops (Runner.Run and runOnce) and the answers GitHub gives inside a    *)
(* cycle (the auth result hook of internal/github/client.go).              *)
(*                                                                         *)
(* Time is counted in abstract units; 0 stands for Go's zero time.         *)
(***************************************************************************)
EXTENDS Integers, FiniteSets

CONSTANTS
  NumTargets,          \* targets, in the order of the configuration
  App,                 \* targets that authenticate as a GitHub App
  Interval,            \* collection_interval
  CycleBound,          \* the longest a cycle takes unless a request hangs
  StallTimeout,        \* health.stall_timeout
  UnauthorizedCycles,  \* health.unauthorized_cycles
  MaxResponses,        \* bound: responses of one kind counted in a cycle
  MaxClock             \* bound: the clock stops here

Target == 1 .. NumTargets
Time   == 1 .. MaxClock

\* The last conjunct is what the default stall timeout, twice the interval plus
\* one hour, grants: an hour's rate-limit pause and another interval of work.
ASSUME ParameterAssumption ==
  /\ NumTargets \in Nat \ {0} /\ App \subseteq Target
  /\ Interval \in Nat \ {0} /\ CycleBound \in Nat /\ StallTimeout \in Nat
  /\ UnauthorizedCycles \in Nat \ {0}
  /\ MaxResponses \in Nat /\ MaxClock \in Nat \ {0}
  /\ Interval + CycleBound <= StallTimeout

VARIABLES
  clock,              \* the current time
  main,               \* what the main goroutine does next
  at,                 \* the target it does it for
  cancelled,          \* SIGTERM or SIGINT has cancelled the context
  loop,               \* where each target's collection loop is
  due,                \* when its cycle ends at the latest, or its sleep ends
  discoveryOK,        \* result of its last repo discovery
  \* Tracker.targets
  credentialChecked, ready, loopExited,
  loopStartedAt, lastCycleAt,
  consecutiveUnauth, unauthResponses, otherResponses,
  \* history
  answered,           \* the statuses GitHub answered in the current cycle
  unauthorizedRun     \* unauthorized cycles in a row, as README.md:184 defines
                      \* them, up to UnauthorizedCycles

process   == <<clock, main, at, cancelled>>
loops     == <<loop, due, discoveryOK>>
flags     == <<credentialChecked, ready, loopExited>>
times     == <<loopStartedAt, lastCycleAt>>
responses == <<unauthResponses, otherResponses, answered>>
streaks   == <<consecutiveUnauth, unauthorizedRun>>
vars      == <<process, loops, flags, times, responses, streaks>>

Working(t) == loop[t] \in {"run", "collect", "flush"}

-----------------------------------------------------------------------------
(* The probes *)

\* Mutant: a completed cycle does not count as progress.
SinceLoopStart(t) == loopStartedAt[t]

\* liveness: the last sign of progress of a started loop.
Since(t) == IF lastCycleAt[t] = 0 THEN loopStartedAt[t] ELSE lastCycleAt[t]

\* Mutant: only a target that completed a cycle can be stalled.
StalledAfterCycle(t) == lastCycleAt[t] # 0 /\ clock - Since(t) > StallTimeout

Stalled(t) == loopStartedAt[t] # 0 /\ clock - Since(t) > StallTimeout

Unauthorized(t) == consecutiveUnauth[t] >= UnauthorizedCycles

\* /healthz answers 200.
Healthz == \A t \in Target : ~loopExited[t] /\ ~Stalled(t) /\ ~Unauthorized(t)

\* /readyz answers 200.
Readyz == \A t \in Target : credentialChecked[t] /\ ready[t]

-----------------------------------------------------------------------------
(* The main goroutine.  Init is the state when the health server listens:   *)
(* the configuration is loaded and every target registered.                 *)

\* The metrics provider and self-telemetry are built.
BuildProviders ==
  /\ main = "providers"
  /\ main' = "check" /\ at' = 1
  /\ UNCHANGED <<clock, cancelled, loops, flags, times, responses, streaks>>

\* buildTargetRunner: the credential ping succeeds, which it cannot once the
\* context is cancelled.  It uses a client of its own, without the hooks.
CheckCredential ==
  /\ main = "check" /\ ~cancelled
  /\ credentialChecked' = [credentialChecked EXCEPT ![at] = TRUE]
  /\ IF at = NumTargets THEN main' = "start" /\ at' = 1
                        ELSE main' = main /\ at' = at + 1
  /\ UNCHANGED <<clock, cancelled, loops, ready, loopExited, times, responses, streaks>>

\* Any error before the loops start ends the process.
StartupFails ==
  /\ main \in {"providers", "check"}
  /\ main' = "exited"
  /\ UNCHANGED <<clock, at, cancelled, loops, flags, times, responses, streaks>>

\* LoopStarted, then the goroutine that runs the loop.
StartLoop ==
  /\ main = "start"
  /\ loopStartedAt' = [loopStartedAt EXCEPT ![at] = clock]
  /\ loop' = [loop EXCEPT ![at] = "run"]
  /\ due' = [due EXCEPT ![at] = clock + CycleBound]
  /\ IF at = NumTargets THEN main' = "wait" /\ at' = at
                        ELSE main' = main /\ at' = at + 1
  /\ UNCHANGED <<clock, cancelled, discoveryOK, flags, lastCycleAt, responses, streaks>>

\* The signal arrived and every loop returned: final flush and exit.
Shutdown ==
  /\ main = "wait" /\ cancelled
  /\ \A t \in Target : loop[t] = "returned"
  /\ main' = "exited"
  /\ UNCHANGED <<clock, at, cancelled, loops, flags, times, responses, streaks>>

Signal ==
  /\ main # "exited" /\ ~cancelled
  /\ cancelled' = TRUE
  /\ UNCHANGED <<clock, main, at, loops, flags, times, responses, streaks>>

-----------------------------------------------------------------------------
(* A target's collection loop *)

\* runOnce: CycleStarted.
StartCycle(t) ==
  /\ loop[t] = "run"
  /\ loop' = [loop EXCEPT ![t] = "collect"]
  /\ unauthResponses' = [unauthResponses EXCEPT ![t] = 0]
  /\ otherResponses' = [otherResponses EXCEPT ![t] = 0]
  /\ answered' = [answered EXCEPT ![t] = {}]
  /\ UNCHANGED <<process, due, discoveryOK, flags, times, streaks>>

\* A response GitHub gave is counted (AuthResult).
CountUnauthorized(t) ==
  /\ unauthResponses[t] < MaxResponses
  /\ unauthResponses' = [unauthResponses EXCEPT ![t] = @ + 1]
  /\ UNCHANGED otherResponses

CountOther(t) ==
  /\ otherResponses[t] < MaxResponses
  /\ otherResponses' = [otherResponses EXCEPT ![t] = @ + 1]
  /\ UNCHANGED unauthResponses

Answer(t, status) ==
  /\ loop[t] = "collect"
  /\ answered' = [answered EXCEPT ![t] = @ \cup {status}]
  /\ UNCHANGED <<process, loops, flags, times, streaks>>

\* RoundTrip reports every response to an API request.
AnswerRequest(t) ==
  \/ Answer(t, "401") /\ CountUnauthorized(t)
  \/ Answer(t, "other") /\ CountOther(t)

\* The token source reports a token exchange only when it is answered with 401.
AnswerExchange(t) ==
  /\ t \in App
  /\ \/ Answer(t, "401") /\ CountUnauthorized(t)
     \/ Answer(t, "other") /\ UNCHANGED <<unauthResponses, otherResponses>>

\* collect returns; repo discovery answers from its cache once it succeeded.
EndCollect(t, ok) ==
  /\ loop[t] = "collect"
  /\ discoveryOK[t] => ok
  /\ loop' = [loop EXCEPT ![t] = "flush"]
  /\ discoveryOK' = [discoveryOK EXCEPT ![t] = ok]
  /\ UNCHANGED <<process, due, flags, times, responses, streaks>>

\* A request gets no answer; the client has no timeout of its own.
Hang(t) ==
  /\ loop[t] = "collect" /\ ~cancelled
  /\ loop' = [loop EXCEPT ![t] = "hung"]
  /\ UNCHANGED <<process, due, discoveryOK, flags, times, responses, streaks>>

\* Mutant: a request in flight does not watch the context.
KeepWaiting(t) == loop[t] = "hung" /\ cancelled /\ UNCHANGED vars

\* Shutdown cancels the request that hangs, and what is left of the cycle.
Interrupt(t) ==
  /\ loop[t] = "hung" /\ cancelled
  /\ loop' = [loop EXCEPT ![t] = "collect"]
  /\ due' = [due EXCEPT ![t] = clock + CycleBound]
  /\ UNCHANGED <<process, discoveryOK, flags, times, responses, streaks>>

\* Mutant: a cycle whose discovery failed is enough.
ReadyAnyway(t) == TRUE

\* Mutant: a 401 makes the target unready.
ReadyIfAuthorized(t) == discoveryOK[t] /\ unauthResponses[t] = 0

ReadyAfter(t) == ready[t] \/ discoveryOK[t]

\* Mutant: the cases of CycleFinished in the other order.
CountAny401(t) ==
  IF unauthResponses[t] > 0 THEN consecutiveUnauth[t] + 1
  ELSE IF otherResponses[t] > 0 THEN 0 ELSE consecutiveUnauth[t]

NextUnauth(t) ==
  IF otherResponses[t] > 0 THEN 0
  ELSE IF unauthResponses[t] > 0 THEN consecutiveUnauth[t] + 1
  ELSE consecutiveUnauth[t]

\* history: README.md:184, from all that GitHub answered.
NextRun(t) ==
  IF "other" \in answered[t] THEN 0
  ELSE IF "401" \in answered[t] /\ unauthorizedRun[t] < UnauthorizedCycles
       THEN unauthorizedRun[t] + 1
  ELSE unauthorizedRun[t]

\* The flush is over (or skipped): CycleFinished, then the pause.
FinishCycle(t) ==
  /\ loop[t] = "flush"
  /\ lastCycleAt' = [lastCycleAt EXCEPT ![t] = clock]
  /\ ready' = [ready EXCEPT ![t] = ReadyAfter(t)]
  /\ consecutiveUnauth' = [consecutiveUnauth EXCEPT ![t] = NextUnauth(t)]
  /\ unauthorizedRun' = [unauthorizedRun EXCEPT ![t] = NextRun(t)]
  /\ loop' = [loop EXCEPT ![t] = "sleep"]
  /\ due' = [due EXCEPT ![t] = clock + Interval]
  /\ UNCHANGED <<process, discoveryOK, credentialChecked, loopExited, loopStartedAt, responses>>

\* The timer fires.  When the context is cancelled too, select may pick either.
WakeUp(t) ==
  /\ loop[t] = "sleep" /\ clock >= due[t]
  /\ loop' = [loop EXCEPT ![t] = "run"]
  /\ due' = [due EXCEPT ![t] = clock + CycleBound]
  /\ UNCHANGED <<process, discoveryOK, flags, times, responses, streaks>>

\* Run returns; main's goroutine calls LoopExited unless the context is done.
ReturnLoop(t) ==
  /\ loop[t] = "sleep" /\ cancelled
  /\ loop' = [loop EXCEPT ![t] = "returned"]
  /\ loopExited' = [loopExited EXCEPT ![t] = ~cancelled]
  /\ UNCHANGED <<process, due, discoveryOK, credentialChecked, ready, times, responses, streaks>>

\* A loop that does not hang moves on before its time is up.
Prompt(t) == Working(t) \/ loop[t] = "sleep" => clock < due[t]

Tick ==
  /\ main # "exited" /\ clock < MaxClock
  /\ \A t \in Target : Prompt(t)
  /\ clock' = clock + 1
  /\ UNCHANGED <<main, at, cancelled, loops, flags, times, responses, streaks>>

-----------------------------------------------------------------------------
Init ==
  /\ clock = 1
  /\ main = "providers" /\ at = 1
  /\ cancelled = FALSE
  /\ loop = [t \in Target |-> "none"]
  /\ due = [t \in Target |-> 0]
  /\ discoveryOK = [t \in Target |-> FALSE]
  /\ credentialChecked = [t \in Target |-> FALSE]
  /\ ready = [t \in Target |-> FALSE]
  /\ loopExited = [t \in Target |-> FALSE]
  /\ loopStartedAt = [t \in Target |-> 0]
  /\ lastCycleAt = [t \in Target |-> 0]
  /\ consecutiveUnauth = [t \in Target |-> 0]
  /\ unauthResponses = [t \in Target |-> 0]
  /\ otherResponses = [t \in Target |-> 0]
  /\ answered = [t \in Target |-> {}]
  /\ unauthorizedRun = [t \in Target |-> 0]

MainStep == BuildProviders \/ CheckCredential \/ StartupFails \/ StartLoop \/ Shutdown

\* The steps a loop takes by itself.
LoopStep(t) ==
  \/ StartCycle(t)
  \/ \E ok \in BOOLEAN : EndCollect(t, ok)
  \/ Interrupt(t)
  \/ FinishCycle(t)
  \/ WakeUp(t)
  \/ ReturnLoop(t)

Next ==
  \/ Tick \/ Signal \/ MainStep
  \/ \E t \in Target : AnswerRequest(t) \/ AnswerExchange(t) \/ Hang(t) \/ LoopStep(t)

Spec == Init /\ [][Next]_vars

\* Goroutines are scheduled, and time passes.
FairSpec ==
  Spec /\ WF_vars(MainStep) /\ WF_vars(Tick) /\ \A t \in Target : WF_vars(LoopStep(t))

-----------------------------------------------------------------------------
(* Properties *)

TypeOK ==
  /\ clock \in Time
  /\ main \in {"providers", "check", "start", "wait", "exited"}
  /\ at \in Target
  /\ cancelled \in BOOLEAN
  /\ loop \in [Target -> {"none", "run", "collect", "hung", "flush", "sleep", "returned"}]
  /\ due \in [Target -> Nat]
  /\ discoveryOK \in [Target -> BOOLEAN]
  /\ credentialChecked \in [Target -> BOOLEAN]
  /\ ready \in [Target -> BOOLEAN]
  /\ loopExited \in [Target -> BOOLEAN]
  /\ loopStartedAt \in [Target -> 0 .. MaxClock]
  /\ lastCycleAt \in [Target -> 0 .. MaxClock]
  /\ consecutiveUnauth \in [Target -> Nat]
  /\ unauthResponses \in [Target -> 0 .. MaxResponses]
  /\ otherResponses \in [Target -> 0 .. MaxResponses]
  /\ answered \in [Target -> SUBSET {"401", "other"}]
  /\ unauthorizedRun \in [Target -> 0 .. UnauthorizedCycles]

\* /healthz never fails for a stall that is none (README.md:183): until shutdown
\* begins, a target reported as stalled hangs in a request, however the loops
\* start, pause and overlap.
StallIsReal == \A t \in Target : Stalled(t) /\ ~cancelled => loop[t] = "hung"

\* A loop that hangs is reported, also when it hangs in its first cycle.
HangReported ==
  \A t \in Target :
    (loop[t] = "hung" /\ Since(t) + StallTimeout < MaxClock) ~> (Stalled(t) \/ cancelled)

\* Once ready, the exporter stays ready (README.md:178), whatever GitHub answers.
ReadyStays == [][Readyz => Readyz']_vars

\* For a target with a token, /healthz reports exactly the runs of unauthorized
\* cycles that README.md:184 describes.
UnauthorizedForTokens ==
  \A t \in Target \ App : Unauthorized(t) <=> unauthorizedRun[t] >= UnauthorizedCycles

\* Once the signal arrives the process exits, also when requests hang.
ShutdownCompletes == cancelled ~> main = "exited"

(***************************************************************************)
(* The inductive invariant behind StallIsReal and UnauthorizedForTokens.   *)
(***************************************************************************)
\* The loops start one after the other.
LoopsStarted ==
  \A t \in Target :
    main \in {"providers", "check"} \/ (main = "start" /\ t >= at) => loop[t] = "none"

\* A loop has a start, and its last cycle came after it, in the past.
TimesOrdered ==
  \A t \in Target :
    /\ loop[t] = "none" <=> loopStartedAt[t] = 0
    /\ loop[t] = "none" => lastCycleAt[t] = 0
    /\ loopStartedAt[t] <= clock /\ lastCycleAt[t] <= clock

\* A sleep ends an interval after the last cycle; the next cycle ends before
\* the stall timeout, counted from the last cycle or the loop's start.
CyclesInTime ==
  \A t \in Target :
    /\ loop[t] = "sleep" =>
         lastCycleAt[t] # 0 /\ clock <= due[t] /\ due[t] = lastCycleAt[t] + Interval
    /\ Working(t) /\ ~cancelled =>
         clock <= due[t] /\ due[t] <= Since(t) + StallTimeout
    /\ loop[t] = "returned" => cancelled

\* A ready target completed a cycle whose repo discovery succeeded.
ReadyCollected == \A t \in Target : ready[t] => lastCycleAt[t] # 0 /\ discoveryOK[t]

\* Without token exchanges the counters see all that GitHub answers.
TokensCounted ==
  \A t \in Target \ App :
    /\ unauthResponses[t] > 0 <=> "401" \in answered[t]
    /\ otherResponses[t] > 0 <=> "other" \in answered[t]
    /\ unauthorizedRun[t] = IF Unauthorized(t) THEN UnauthorizedCycles
                                               ELSE consecutiveUnauth[t]

Inv == TypeOK /\ LoopsStarted /\ TimesOrdered /\ CyclesInTime /\ ReadyCollected /\ TokensCounted

=============================================================================
