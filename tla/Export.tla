------------------------------- MODULE Export -------------------------------
(***************************************************************************)
(* How the product metrics leave the process: the runners' cycles publish  *)
(* counters and snapshots and flush (internal/collector/runner.go), one    *)
(* PeriodicReader collects them through the runners' callbacks and pushes  *)
(* them (internal/exporter), and main shuts all of it down                 *)
(* (cmd/github-activity-exporter/main.go).                                 *)
(*                                                                         *)
(* A counter and a gauge are represented by the number of the cycle that   *)
(* last wrote them; gauge 0 is a missing one.  The reader is the SDK's     *)
(* (external): one goroutine that serves its ticker and the flush requests *)
(* one at a time, each a collection followed by an export.                 *)
(***************************************************************************)
EXTENDS Integers, FiniteSets

CONSTANTS
  Runner,
  MaxCycle,   \* bound: cycles of each runner
  MaxErrors   \* bound: pushes that fail

Push  == [counter : [Runner -> Nat], gauge : [Runner -> Nat]]
Tick  == "tick"
Final == "final"

ASSUME ParameterAssumption ==
  /\ Runner # {} /\ Tick \notin Runner /\ Final \notin Runner
  /\ MaxCycle \in [Runner -> Nat] /\ MaxErrors \in Nat

VARIABLES
  \* runners
  pc,           \* where each runner's goroutine is
  cycle,        \* cycles begun
  counter,      \* the cycle whose events its counters include
  snapshot,     \* latestPR, latestIssue, latestDash: the cycle they are from
  registered,   \* the runners whose callback is registered
  \* the reader's goroutine
  reader,       \* [pc, for: whom it serves, todo: callbacks still to run, data]
  \* main
  main,         \* "run", "wait" after the signal, "shutdown", "done"
  \* what became of the pushes
  backend,      \* the last push the OTLP endpoint accepted
  attempted,    \* history: the last push that was sent
  failures,     \* history: pushes that failed
  otlpErrors    \* github_exporter.otlp.errors

runners == <<pc, cycle, counter, snapshot>>
vars == <<runners, registered, reader, main, backend, attempted, failures, otlpErrors>>

Cancelled == main # "run"

Nothing == [counter |-> [r \in Runner |-> 0], gauge |-> [r \in Runner |-> 0]]
Waiting == [pc |-> "wait", for |-> Tick, todo |-> {}, data |-> Nothing]

Init ==
  /\ pc = [r \in Runner |-> "idle"]
  /\ cycle = [r \in Runner |-> 0]
  /\ counter = [r \in Runner |-> 0] /\ snapshot = [r \in Runner |-> 0]
  /\ registered = Runner
  /\ reader = Waiting
  /\ main = "run"
  /\ backend = Nothing /\ attempted = Nothing
  /\ failures = 0 /\ otlpErrors = 0

-----------------------------------------------------------------------------
(* Runner.Run *)

Goto(r, from, to) == pc[r] = from /\ pc' = [pc EXCEPT ![r] = to]

\* Mutant: the snapshots are replaced before the events are recorded.
PublishAtStart(r) ==
  /\ Goto(r, "idle", "collect")
  /\ cycle[r] < MaxCycle[r]
  /\ cycle' = [cycle EXCEPT ![r] = @ + 1]
  /\ snapshot' = [snapshot EXCEPT ![r] = cycle'[r]]
  /\ UNCHANGED <<counter, registered, reader, main, backend, attempted, failures, otlpErrors>>

\* Run may start one more cycle after the signal: its select sees both the
\* timer and the cancelled context.
StartCycle(r) ==
  /\ Goto(r, "idle", "collect")
  /\ cycle[r] < MaxCycle[r]
  /\ cycle' = [cycle EXCEPT ![r] = @ + 1]
  /\ UNCHANGED <<counter, snapshot, registered, reader, main, backend, attempted, failures, otlpErrors>>

\* collect returns early: the snapshots of the last cycle stay.
DiscoveryFails(r) ==
  /\ Goto(r, "collect", "flush")
  /\ UNCHANGED <<cycle, counter, snapshot, registered, reader, main, backend, attempted, failures, otlpErrors>>

\* PRCollector.Collect: recordEvents for a repo, or its collection fails.
Record(r) ==
  /\ Goto(r, "collect", "recorded")
  /\ counter' = [counter EXCEPT ![r] = cycle[r]]
  /\ UNCHANGED <<cycle, snapshot, registered, reader, main, backend, attempted, failures, otlpErrors>>

RepoFails(r) ==
  /\ Goto(r, "collect", "failed")
  /\ UNCHANGED <<cycle, counter, snapshot, registered, reader, main, backend, attempted, failures, otlpErrors>>

\* The snapshots are replaced together; a failed repo is in none of them.
Publish(r) ==
  /\ \/ Goto(r, "recorded", "flush") /\ snapshot' = [snapshot EXCEPT ![r] = cycle[r]]
     \/ Goto(r, "failed", "flush") /\ snapshot' = [snapshot EXCEPT ![r] = 0]
  /\ UNCHANGED <<cycle, counter, registered, reader, main, backend, attempted, failures, otlpErrors>>

\* flushMetrics skips once the context is cancelled.
SkipFlush(r) ==
  /\ Cancelled
  /\ Goto(r, "flush", "idle")
  /\ UNCHANGED <<cycle, counter, snapshot, registered, reader, main, backend, attempted, failures, otlpErrors>>

\* Mutant: ForceFlush returns without waiting for its push.
FlushUnawaited(r) ==
  /\ ~Cancelled
  /\ Goto(r, "flush", "ok")
  /\ UNCHANGED <<cycle, counter, snapshot, registered, reader, main, backend, attempted, failures, otlpErrors>>

Flush(r) ==
  /\ ~Cancelled
  /\ Goto(r, "flush", "queued")
  /\ UNCHANGED <<cycle, counter, snapshot, registered, reader, main, backend, attempted, failures, otlpErrors>>

\* Mutant: a flush queued behind another one ignores its deadline.
GiveUpServed(r) ==
  /\ Goto(r, "served", "idle")
  /\ UNCHANGED <<cycle, counter, snapshot, registered, reader, main, backend, attempted, failures, otlpErrors>>

\* ForceFlush gives up after 30 s, queued behind another export or waiting for
\* its own, or with the runner's context.  Neither counts as a push error.
GiveUp(r) ==
  /\ \/ Goto(r, "queued", "idle")
     \/ Goto(r, "served", "idle")
  /\ UNCHANGED <<cycle, counter, snapshot, registered, reader, main, backend, attempted, failures, otlpErrors>>

\* flushMetrics' verdict on what ForceFlush returned: an error other than a
\* timeout counts, unless the context was cancelled meanwhile.
RunnerCounts(err) == err /\ ~Cancelled

Flushed(r) ==
  /\ pc[r] \in {"ok", "error"} /\ Goto(r, pc[r], "idle")
  /\ otlpErrors' = otlpErrors + (IF RunnerCounts(pc[r] = "error") THEN 1 ELSE 0)
  /\ UNCHANGED <<cycle, counter, snapshot, registered, reader, main, backend, attempted, failures>>

\* Run's deferred Unregister waits for a collection in progress (the SDK's
\* pipeline lock).
Unregistered(r) == registered \ {r}

Exit(r) ==
  /\ Cancelled /\ reader.pc # "collect"
  /\ Goto(r, "idle", "exited")
  /\ registered' = Unregistered(r)
  /\ UNCHANGED <<cycle, counter, snapshot, reader, main, backend, attempted, failures, otlpErrors>>

-----------------------------------------------------------------------------
(* The reader *)

Serve(for) ==
  reader' = [pc |-> "collect", for |-> for, todo |-> registered, data |-> Nothing]

TickFires ==
  /\ reader.pc = "wait" /\ main \in {"run", "wait"}
  /\ Serve(Tick)
  /\ UNCHANGED <<runners, registered, main, backend, attempted, failures, otlpErrors>>

Accept(r) ==
  /\ reader.pc = "wait"
  /\ Goto(r, "queued", "served")
  /\ Serve(r)
  /\ UNCHANGED <<cycle, counter, snapshot, registered, main, backend, attempted, failures, otlpErrors>>

\* observableCallback of one runner.
ReadSnapshot(r) ==
  /\ reader.pc = "collect" /\ r \in reader.todo
  /\ reader' = [reader EXCEPT !.todo = @ \ {r}, !.data.gauge[r] = snapshot[r]]
  /\ UNCHANGED <<runners, registered, main, backend, attempted, failures, otlpErrors>>

\* Mutant: delta temporality.
ReadDeltas ==
  /\ reader.pc = "collect" /\ reader.todo = {}
  /\ reader' = [reader EXCEPT !.pc = "export",
       !.data.counter = [r \in Runner |->
          IF counter[r] >= attempted.counter[r] THEN counter[r] - attempted.counter[r] ELSE 0]]
  /\ attempted' = reader'.data
  /\ UNCHANGED <<runners, registered, main, backend, failures, otlpErrors>>

\* The counters are read after the callbacks have run.
ReadCounters ==
  /\ reader.pc = "collect" /\ reader.todo = {}
  /\ reader' = [reader EXCEPT !.pc = "export", !.data.counter = counter]
  /\ attempted' = reader'.data
  /\ UNCHANGED <<runners, registered, main, backend, failures, otlpErrors>>

\* Mutant: the error is also returned to the flush.
ReturnedResult(failed) == failed

\* errorCountingExporter.Export counts a failed push and returns nil.
ExportResult(failed) == FALSE

\* The served runner gets the result, unless it gave up meanwhile.
Reply(err) ==
  pc' = [r \in Runner |-> IF reader.for = r /\ pc[r] = "served"
                          THEN IF err THEN "error" ELSE "ok"
                          ELSE pc[r]]

AfterExport == IF reader.for = Final THEN "done" ELSE main

Exported ==
  /\ reader.pc = "export"
  /\ backend' = reader.data
  /\ reader' = Waiting /\ main' = AfterExport
  /\ Reply(ExportResult(FALSE))
  /\ UNCHANGED <<cycle, counter, snapshot, registered, attempted, failures, otlpErrors>>

\* One push takes at most 10 s (pushTimeout).
ExportFails ==
  /\ reader.pc = "export"
  /\ failures < MaxErrors /\ failures' = failures + 1
  /\ otlpErrors' = otlpErrors + 1
  /\ reader' = Waiting /\ main' = AfterExport
  /\ Reply(ExportResult(TRUE))
  /\ UNCHANGED <<cycle, counter, snapshot, registered, backend, attempted>>

-----------------------------------------------------------------------------
(* main *)

Signal ==
  /\ main = "run" /\ main' = "wait"
  /\ UNCHANGED <<runners, registered, reader, backend, attempted, failures, otlpErrors>>

\* wg.Wait, then Provider.Shutdown.
AllExited == \A r \in Runner : pc[r] = "exited"

Shutdown ==
  /\ main = "wait" /\ AllExited
  /\ main' = "shutdown"
  /\ UNCHANGED <<runners, registered, reader, backend, attempted, failures, otlpErrors>>

\* The reader's context is cancelled: a collection of its ticker in progress
\* ends without a push (a push in progress succeeds or fails, as above).
AbortCollection ==
  /\ main = "shutdown" /\ reader.pc = "collect" /\ reader.for # Final
  /\ reader' = Waiting
  /\ UNCHANGED <<runners, registered, main, backend, attempted, failures, otlpErrors>>

\* Mutant: the last export is taken for the final one.
NoFinalPush ==
  /\ main = "shutdown" /\ reader.pc = "wait"
  /\ main' = "done"
  /\ UNCHANGED <<runners, registered, reader, backend, attempted, failures, otlpErrors>>

\* The final collection and push, once the reader's goroutine has ended.
FinalPush ==
  /\ main = "shutdown" /\ reader.pc = "wait"
  /\ Serve(Final)
  /\ UNCHANGED <<runners, registered, main, backend, attempted, failures, otlpErrors>>

-----------------------------------------------------------------------------
RunnerStep(r) ==
  \/ DiscoveryFails(r) \/ Record(r) \/ RepoFails(r) \/ Publish(r)
  \/ SkipFlush(r) \/ Flush(r) \/ Flushed(r)
ReaderStep ==
  \/ (\E r \in Runner : ReadSnapshot(r)) \/ ReadCounters
  \/ Exported \/ ExportFails
MainStep == Shutdown \/ AbortCollection \/ FinalPush

Next ==
  \/ \E r \in Runner : StartCycle(r) \/ RunnerStep(r) \/ Accept(r) \/ GiveUp(r) \/ Exit(r)
  \/ TickFires \/ ReaderStep
  \/ Signal \/ MainStep

Spec == Init /\ [][Next]_vars

\* Goroutines that can run do; a flush is answered or times out; the timer and
\* a cancelled context end Run's pause at once.  Exit needs strong fairness:
\* the SDK's lock is free between any two collections.
FairSpec ==
  /\ Spec
  /\ \A r \in Runner : WF_vars(RunnerStep(r)) /\ WF_vars(GiveUp(r)) /\ SF_vars(Exit(r))
  /\ WF_vars(ReaderStep) /\ WF_vars(MainStep)

-----------------------------------------------------------------------------
(* Properties *)

TypeOK ==
  /\ pc \in [Runner -> {"idle", "collect", "recorded", "failed", "flush", "queued",
                        "served", "ok", "error", "exited"}]
  /\ cycle \in [Runner -> Nat] /\ counter \in [Runner -> Nat]
  /\ snapshot \in [Runner -> Nat] /\ registered \subseteq Runner
  /\ reader \in [pc : {"wait", "collect", "export"}, for : Runner \cup {Tick, Final},
                 todo : SUBSET Runner, data : Push]
  /\ main \in {"run", "wait", "shutdown", "done"}
  /\ backend \in Push /\ attempted \in Push
  /\ failures \in 0 .. MaxErrors /\ otlpErrors \in Nat

\* The order of one cycle and of the pushes: events, snapshots, collection, push.
EventsFirst ==
  \A r \in Runner :
    /\ snapshot[r] <= counter[r] /\ counter[r] <= cycle[r]
    /\ pc[r] = "recorded" => counter[r] = cycle[r]
    /\ reader.data.gauge[r] <= counter[r]
    /\ attempted.gauge[r] <= attempted.counter[r]
    /\ backend.counter[r] <= attempted.counter[r] /\ attempted.counter[r] <= counter[r]

\* A runner that waits for its push is the one served, and nothing of its cycle
\* changes meanwhile.
Covered(push, r) == push.counter[r] = counter[r] /\ push.gauge[r] = snapshot[r]
FlushServed ==
  \A r \in Runner :
    /\ pc[r] # "error"
    /\ pc[r] = "served" => reader.for = r /\ reader.pc # "wait"
    /\ pc[r] \in {"served", "ok"} /\ reader.pc = "collect" /\ r \notin reader.todo =>
         reader.data.gauge[r] = snapshot[r]
    /\ pc[r] = "ok" \/ (pc[r] = "served" /\ reader.pc = "export") => Covered(attempted, r)

\* After the runners only the final push is left.
Ending ==
  /\ registered = {r \in Runner : pc[r] # "exited"}
  /\ reader.pc = "collect" => reader.todo \subseteq registered
  /\ reader.pc = "export" => reader.data = attempted
  /\ main \in {"shutdown", "done"} => AllExited
  /\ main # "shutdown" => reader.for # Final
  /\ main = "done" => reader.pc = "wait"
  /\ reader.for = Final /\ reader.pc = "collect" => reader.data.gauge = Nothing.gauge
  /\ main = "done" \/ (reader.for = Final /\ reader.pc = "export") =>
       attempted.counter = counter /\ attempted.gauge = Nothing.gauge

Inv == TypeOK /\ EventsFirst /\ FlushServed /\ Ending /\ otlpErrors = failures

\* A push may mix the counters and gauges of different cycles, but never shows
\* the gauges of a cycle without its events: they are recorded before the
\* snapshots are replaced, and read after them.
GaugesNotAheadOfCounters ==
  \A r \in Runner : attempted.gauge[r] <= attempted.counter[r]

\* Every failed push is counted once in github_exporter.otlp.errors: by the
\* exporter, and not again by the runner whose flush it served.
PushErrorsCountedOnce == otlpErrors = failures

\* A flush that returned without error sent a push that carries the counters
\* and gauges of the runner's cycle, whatever ticks and flushes ran before it.
FlushCoversCycle ==
  \A r \in Runner : pc[r] = "ok" =>
    attempted.counter[r] = counter[r] /\ attempted.gauge[r] = snapshot[r]

\* If the final push is accepted the endpoint has all events of all cycles,
\* also those of pushes that failed or flushes that were given up or skipped.
\* It carries no gauge: the callbacks are gone by then.
FinalPushCompletes ==
  main = "done" /\ backend = attempted =>
    backend.counter = counter /\ backend.gauge = Nothing.gauge

\* The endpoint never sees a cumulative counter go back: the pushes of all
\* runners and of the ticker go out one after the other.
CountersNeverGoBack ==
  [][\A r \in Runner : backend'.counter[r] >= backend.counter[r]]_vars

\* A signal ends the process, also when it lands in a flush.
SignalEnds == main = "wait" ~> main = "done"
=============================================================================
