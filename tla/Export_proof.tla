---------------------------- MODULE Export_proof ----------------------------
(***************************************************************************)
(* Proofs about Export: its inductive invariant, and with it that no push  *)
(* shows gauges ahead of its counters, that a failed push is counted once, *)
(* that a flush covers its cycle, that the final push has all the events,  *)
(* and that the endpoint never sees a counter go back.                     *)
(***************************************************************************)
EXTENDS Export, TLAPS

\* The invariant holds initially.
LEMMA InitInv == Init => Inv
<1> SUFFICES ASSUME Init PROVE Inv
  OBVIOUS
<1> USE ParameterAssumption DEF ParameterAssumption, Init, Nothing, Waiting, Push,
        Tick, Final
<1>1. TypeOK
  BY DEF TypeOK
<1>2. EventsFirst
  BY DEF EventsFirst
<1>3. FlushServed
  BY DEF FlushServed, Covered
<1>4. Ending
  BY DEF Ending
<1> QED BY <1>1, <1>2, <1>3, <1>4 DEF Inv

-----------------------------------------------------------------------------
(* The steps, by the variables they change *)

\* Every step preserves the types.
LEMMA StepType ==
  ASSUME TypeOK, [Next]_vars PROVE TypeOK'
<1> USE ParameterAssumption DEF ParameterAssumption, TypeOK, runners, Goto, Push,
        Nothing, Tick, Final
<1>1. ASSUME NEW r \in Runner, StartCycle(r) PROVE TypeOK'
  BY <1>1 DEF StartCycle
<1>2. ASSUME NEW r \in Runner, DiscoveryFails(r) PROVE TypeOK'
  BY <1>2 DEF DiscoveryFails
<1>3. ASSUME NEW r \in Runner, Record(r) PROVE TypeOK'
  BY <1>3 DEF Record
<1>4. ASSUME NEW r \in Runner, RepoFails(r) PROVE TypeOK'
  BY <1>4 DEF RepoFails
<1>5. ASSUME NEW r \in Runner, Publish(r) PROVE TypeOK'
  BY <1>5 DEF Publish
<1>6. ASSUME NEW r \in Runner, SkipFlush(r) PROVE TypeOK'
  BY <1>6 DEF SkipFlush
<1>7. ASSUME NEW r \in Runner, Flush(r) PROVE TypeOK'
  BY <1>7 DEF Flush
<1>8. ASSUME NEW r \in Runner, Flushed(r) PROVE TypeOK'
  BY <1>8 DEF Flushed, RunnerCounts
<1>9. ASSUME NEW r \in Runner, Accept(r) PROVE TypeOK'
  BY <1>9 DEF Accept, Serve
<1>10. ASSUME NEW r \in Runner, GiveUp(r) PROVE TypeOK'
  BY <1>10 DEF GiveUp
<1>11. ASSUME NEW r \in Runner, Exit(r) PROVE TypeOK'
  BY <1>11 DEF Exit, Unregistered
<1>12. ASSUME NEW r \in Runner, ReadSnapshot(r) PROVE TypeOK'
  BY <1>12 DEF ReadSnapshot
<1>13. CASE TickFires
  BY <1>13 DEF TickFires, Serve
<1>14. CASE ReadCounters
  BY <1>14 DEF ReadCounters
<1>15. CASE Exported
  BY <1>15 DEF Exported, Reply, ExportResult, AfterExport, Waiting
<1>16. CASE ExportFails
  BY <1>16 DEF ExportFails, Reply, ExportResult, AfterExport, Waiting
<1>17. CASE Signal
  BY <1>17 DEF Signal
<1>18. CASE Shutdown
  BY <1>18 DEF Shutdown
<1>19. CASE AbortCollection
  BY <1>19 DEF AbortCollection, Waiting
<1>20. CASE FinalPush
  BY <1>20 DEF FinalPush, Serve
<1>21. CASE UNCHANGED vars
  BY <1>21 DEF vars
<1> QED
  BY <1>1, <1>2, <1>3, <1>4, <1>5, <1>6, <1>7, <1>8, <1>9, <1>10, <1>11, <1>12,
     <1>13, <1>14, <1>15, <1>16, <1>17, <1>18, <1>19, <1>20, <1>21 DEF Next,
     RunnerStep, ReaderStep, MainStep

\* Counters run ahead of gauges, and the pushes behind both.
LEMMA StepEvents ==
  ASSUME Inv, [Next]_vars PROVE EventsFirst'
<1> USE ParameterAssumption DEF ParameterAssumption, Inv, TypeOK, EventsFirst, Ending,
        runners, Goto, Push, Nothing
<1>1. ASSUME NEW r \in Runner, StartCycle(r) PROVE EventsFirst'
  BY <1>1 DEF StartCycle
<1>2. ASSUME NEW r \in Runner, DiscoveryFails(r) PROVE EventsFirst'
  BY <1>2 DEF DiscoveryFails
<1>3. ASSUME NEW r \in Runner, Record(r) PROVE EventsFirst'
  BY <1>3 DEF Record
<1>4. ASSUME NEW r \in Runner, RepoFails(r) PROVE EventsFirst'
  BY <1>4 DEF RepoFails
<1>5. ASSUME NEW r \in Runner, Publish(r) PROVE EventsFirst'
  <2>1. UNCHANGED <<cycle, counter, reader, attempted, backend>>
    BY <1>5 DEF Publish
  <2>2. pc' = [pc EXCEPT ![r] = "flush"]
    BY <1>5 DEF Publish
  <2>3. \/ pc[r] = "recorded" /\ snapshot' = [snapshot EXCEPT ![r] = cycle[r]]
        \/ pc[r] = "failed" /\ snapshot' = [snapshot EXCEPT ![r] = 0]
    BY <1>5 DEF Publish
  <2> QED BY <2>1, <2>2, <2>3
<1>6. ASSUME NEW r \in Runner, SkipFlush(r) PROVE EventsFirst'
  BY <1>6 DEF SkipFlush
<1>7. ASSUME NEW r \in Runner, Flush(r) PROVE EventsFirst'
  BY <1>7 DEF Flush
<1>8. ASSUME NEW r \in Runner, Flushed(r) PROVE EventsFirst'
  BY <1>8 DEF Flushed, RunnerCounts
<1>9. ASSUME NEW r \in Runner, Accept(r) PROVE EventsFirst'
  BY <1>9 DEF Accept, Serve
<1>10. ASSUME NEW r \in Runner, GiveUp(r) PROVE EventsFirst'
  BY <1>10 DEF GiveUp
<1>11. ASSUME NEW r \in Runner, Exit(r) PROVE EventsFirst'
  BY <1>11 DEF Exit, Unregistered
<1>12. ASSUME NEW r \in Runner, ReadSnapshot(r) PROVE EventsFirst'
  BY <1>12 DEF ReadSnapshot
<1>13. CASE TickFires
  BY <1>13 DEF TickFires, Serve
<1>14. CASE ReadCounters
  BY <1>14 DEF ReadCounters
<1>15. CASE Exported
  BY <1>15 DEF Exported, Reply, ExportResult, AfterExport, Waiting
<1>16. CASE ExportFails
  BY <1>16 DEF ExportFails, Reply, ExportResult, AfterExport, Waiting
<1>17. CASE Signal
  BY <1>17 DEF Signal
<1>18. CASE Shutdown
  BY <1>18 DEF Shutdown
<1>19. CASE AbortCollection
  BY <1>19 DEF AbortCollection, Waiting
<1>20. CASE FinalPush
  BY <1>20 DEF FinalPush, Serve
<1>21. CASE UNCHANGED vars
  BY <1>21 DEF vars
<1> QED
  BY <1>1, <1>2, <1>3, <1>4, <1>5, <1>6, <1>7, <1>8, <1>9, <1>10, <1>11, <1>12,
     <1>13, <1>14, <1>15, <1>16, <1>17, <1>18, <1>19, <1>20, <1>21 DEF Next,
     RunnerStep, ReaderStep, MainStep

\* The push a runner waits for carries its cycle.
LEMMA StepServed ==
  ASSUME Inv, [Next]_vars PROVE FlushServed'
<1> USE ParameterAssumption DEF ParameterAssumption, Inv, TypeOK, FlushServed, Ending,
        Covered, AllExited, runners, Goto, Push, Nothing, Tick, Final
<1>1. ASSUME NEW r \in Runner, StartCycle(r) PROVE FlushServed'
  BY <1>1 DEF StartCycle
<1>2. ASSUME NEW r \in Runner, DiscoveryFails(r) PROVE FlushServed'
  BY <1>2 DEF DiscoveryFails
<1>3. ASSUME NEW r \in Runner, Record(r) PROVE FlushServed'
  BY <1>3 DEF Record
<1>4. ASSUME NEW r \in Runner, RepoFails(r) PROVE FlushServed'
  BY <1>4 DEF RepoFails
<1>5. ASSUME NEW r \in Runner, Publish(r) PROVE FlushServed'
  BY <1>5 DEF Publish
<1>6. ASSUME NEW r \in Runner, SkipFlush(r) PROVE FlushServed'
  BY <1>6 DEF SkipFlush
<1>7. ASSUME NEW r \in Runner, Flush(r) PROVE FlushServed'
  BY <1>7 DEF Flush
<1>8. ASSUME NEW r \in Runner, Flushed(r) PROVE FlushServed'
  BY <1>8 DEF Flushed, RunnerCounts
<1>9. ASSUME NEW r \in Runner, Accept(r) PROVE FlushServed'
  BY <1>9 DEF Accept, Serve
<1>10. ASSUME NEW r \in Runner, GiveUp(r) PROVE FlushServed'
  BY <1>10 DEF GiveUp
<1>11. ASSUME NEW r \in Runner, Exit(r) PROVE FlushServed'
  BY <1>11 DEF Exit, Unregistered
<1>12. ASSUME NEW r \in Runner, ReadSnapshot(r) PROVE FlushServed'
  BY <1>12 DEF ReadSnapshot
<1>13. CASE TickFires
  BY <1>13 DEF TickFires, Serve
<1>14. CASE ReadCounters
  BY <1>14 DEF ReadCounters
<1>15. CASE Exported
  BY <1>15 DEF Exported, Reply, ExportResult, AfterExport, Waiting
<1>16. CASE ExportFails
  BY <1>16 DEF ExportFails, Reply, ExportResult, AfterExport, Waiting
<1>17. CASE Signal
  BY <1>17 DEF Signal
<1>18. CASE Shutdown
  BY <1>18 DEF Shutdown
<1>19. CASE AbortCollection
  BY <1>19 DEF AbortCollection, Waiting
<1>20. CASE FinalPush
  BY <1>20 DEF FinalPush, Serve
<1>21. CASE UNCHANGED vars
  BY <1>21 DEF vars
<1> QED
  BY <1>1, <1>2, <1>3, <1>4, <1>5, <1>6, <1>7, <1>8, <1>9, <1>10, <1>11, <1>12,
     <1>13, <1>14, <1>15, <1>16, <1>17, <1>18, <1>19, <1>20, <1>21 DEF Next,
     RunnerStep, ReaderStep, MainStep

\* Shutdown leaves the final push alone with the counters.
LEMMA StepEnding ==
  ASSUME Inv, [Next]_vars PROVE Ending'
<1> USE ParameterAssumption DEF ParameterAssumption, Inv, TypeOK, FlushServed, Ending,
        AllExited, runners, Goto, Push, Nothing, Tick, Final
<1>1. ASSUME NEW r \in Runner, StartCycle(r) PROVE Ending'
  BY <1>1 DEF StartCycle
<1>2. ASSUME NEW r \in Runner, DiscoveryFails(r) PROVE Ending'
  BY <1>2 DEF DiscoveryFails
<1>3. ASSUME NEW r \in Runner, Record(r) PROVE Ending'
  BY <1>3 DEF Record
<1>4. ASSUME NEW r \in Runner, RepoFails(r) PROVE Ending'
  BY <1>4 DEF RepoFails
<1>5. ASSUME NEW r \in Runner, Publish(r) PROVE Ending'
  BY <1>5 DEF Publish
<1>6. ASSUME NEW r \in Runner, SkipFlush(r) PROVE Ending'
  BY <1>6 DEF SkipFlush
<1>7. ASSUME NEW r \in Runner, Flush(r) PROVE Ending'
  BY <1>7 DEF Flush
<1>8. ASSUME NEW r \in Runner, Flushed(r) PROVE Ending'
  BY <1>8 DEF Flushed, RunnerCounts
<1>9. ASSUME NEW r \in Runner, Accept(r) PROVE Ending'
  BY <1>9 DEF Accept, Serve
<1>10. ASSUME NEW r \in Runner, GiveUp(r) PROVE Ending'
  BY <1>10 DEF GiveUp
<1>11. ASSUME NEW r \in Runner, Exit(r) PROVE Ending'
  BY <1>11 DEF Exit, Unregistered
<1>12. ASSUME NEW r \in Runner, ReadSnapshot(r) PROVE Ending'
  BY <1>12 DEF ReadSnapshot
<1>13. CASE TickFires
  BY <1>13 DEF TickFires, Serve
<1>14. CASE ReadCounters
  BY <1>14 DEF ReadCounters
<1>15. CASE Exported
  BY <1>15 DEF Exported, Reply, ExportResult, AfterExport, Waiting
<1>16. CASE ExportFails
  BY <1>16 DEF ExportFails, Reply, ExportResult, AfterExport, Waiting
<1>17. CASE Signal
  BY <1>17 DEF Signal
<1>18. CASE Shutdown
  BY <1>18 DEF Shutdown
<1>19. CASE AbortCollection
  BY <1>19 DEF AbortCollection, Waiting
<1>20. CASE FinalPush
  BY <1>20 DEF FinalPush, Serve
<1>21. CASE UNCHANGED vars
  BY <1>21 DEF vars
<1> QED
  BY <1>1, <1>2, <1>3, <1>4, <1>5, <1>6, <1>7, <1>8, <1>9, <1>10, <1>11, <1>12,
     <1>13, <1>14, <1>15, <1>16, <1>17, <1>18, <1>19, <1>20, <1>21 DEF Next,
     RunnerStep, ReaderStep, MainStep

\* Only a failed push is counted.
LEMMA StepCount ==
  ASSUME Inv, [Next]_vars PROVE (otlpErrors = failures)'
<1> USE ParameterAssumption DEF ParameterAssumption, Inv, TypeOK, FlushServed, runners, Goto
<1>1. ASSUME NEW r \in Runner, StartCycle(r) PROVE (otlpErrors = failures)'
  BY <1>1 DEF StartCycle
<1>2. ASSUME NEW r \in Runner, DiscoveryFails(r) PROVE (otlpErrors = failures)'
  BY <1>2 DEF DiscoveryFails
<1>3. ASSUME NEW r \in Runner, Record(r) PROVE (otlpErrors = failures)'
  BY <1>3 DEF Record
<1>4. ASSUME NEW r \in Runner, RepoFails(r) PROVE (otlpErrors = failures)'
  BY <1>4 DEF RepoFails
<1>5. ASSUME NEW r \in Runner, Publish(r) PROVE (otlpErrors = failures)'
  BY <1>5 DEF Publish
<1>6. ASSUME NEW r \in Runner, SkipFlush(r) PROVE (otlpErrors = failures)'
  BY <1>6 DEF SkipFlush
<1>7. ASSUME NEW r \in Runner, Flush(r) PROVE (otlpErrors = failures)'
  BY <1>7 DEF Flush
<1>8. ASSUME NEW r \in Runner, Flushed(r) PROVE (otlpErrors = failures)'
  BY <1>8 DEF Flushed, RunnerCounts
<1>9. ASSUME NEW r \in Runner, Accept(r) PROVE (otlpErrors = failures)'
  BY <1>9 DEF Accept, Serve
<1>10. ASSUME NEW r \in Runner, GiveUp(r) PROVE (otlpErrors = failures)'
  BY <1>10 DEF GiveUp
<1>11. ASSUME NEW r \in Runner, Exit(r) PROVE (otlpErrors = failures)'
  BY <1>11 DEF Exit, Unregistered
<1>12. ASSUME NEW r \in Runner, ReadSnapshot(r) PROVE (otlpErrors = failures)'
  BY <1>12 DEF ReadSnapshot
<1>13. CASE TickFires
  BY <1>13 DEF TickFires, Serve
<1>14. CASE ReadCounters
  BY <1>14 DEF ReadCounters
<1>15. CASE Exported
  BY <1>15 DEF Exported, Reply, ExportResult, AfterExport, Waiting
<1>16. CASE ExportFails
  BY <1>16 DEF ExportFails, Reply, ExportResult, AfterExport, Waiting
<1>17. CASE Signal
  BY <1>17 DEF Signal
<1>18. CASE Shutdown
  BY <1>18 DEF Shutdown
<1>19. CASE AbortCollection
  BY <1>19 DEF AbortCollection, Waiting
<1>20. CASE FinalPush
  BY <1>20 DEF FinalPush, Serve
<1>21. CASE UNCHANGED vars
  BY <1>21 DEF vars
<1> QED
  BY <1>1, <1>2, <1>3, <1>4, <1>5, <1>6, <1>7, <1>8, <1>9, <1>10, <1>11, <1>12,
     <1>13, <1>14, <1>15, <1>16, <1>17, <1>18, <1>19, <1>20, <1>21 DEF Next,
     RunnerStep, ReaderStep, MainStep

-----------------------------------------------------------------------------
(* The theorems *)

\* The invariant holds in every state.
THEOREM Invariance == Spec => []Inv
<1>1. Inv /\ [Next]_vars => Inv'
  <2> SUFFICES ASSUME Inv, [Next]_vars PROVE Inv'
    OBVIOUS
  <2>1. TypeOK'
    BY StepType DEF Inv
  <2> QED BY <2>1, StepEvents, StepServed, StepEnding, StepCount DEF Inv
<1> QED BY InitInv, <1>1, PTL DEF Spec

\* A push never shows the gauges of a cycle without its events.
THEOREM GaugesCovered == Spec => []GaugesNotAheadOfCounters
<1>1. Inv => GaugesNotAheadOfCounters
  BY DEF Inv, EventsFirst, GaugesNotAheadOfCounters
<1> QED BY Invariance, <1>1, PTL

\* Every failed push is counted once.
THEOREM ErrorsCounted == Spec => []PushErrorsCountedOnce
<1>1. Inv => PushErrorsCountedOnce
  BY DEF Inv, PushErrorsCountedOnce
<1> QED BY Invariance, <1>1, PTL

\* A flush that returned without error covers the runner's cycle.
THEOREM FlushCovers == Spec => []FlushCoversCycle
<1>1. Inv => FlushCoversCycle
  BY DEF Inv, FlushServed, Covered, FlushCoversCycle
<1> QED BY Invariance, <1>1, PTL

\* The final push has all the events, and no gauge.
THEOREM FinalComplete == Spec => []FinalPushCompletes
<1>1. Inv => FinalPushCompletes
  BY DEF Inv, Ending, FinalPushCompletes
<1> QED BY Invariance, <1>1, PTL

\* The endpoint never sees a counter go back.
THEOREM CountersMonotone == Spec => CountersNeverGoBack
<1>1. Inv /\ [Next]_vars => \A r \in Runner : backend'.counter[r] >= backend.counter[r]
  <2> SUFFICES ASSUME Inv, [Next]_vars, NEW r \in Runner
               PROVE  backend'.counter[r] >= backend.counter[r]
    OBVIOUS
  <2>1. backend.counter[r] \in Nat /\ backend.counter[r] <= attempted.counter[r]
    BY DEF Inv, TypeOK, EventsFirst, Push
  <2>2. CASE Exported
    <3>1. backend' = attempted
      BY <2>2 DEF Exported, Inv, Ending
    <3> QED BY <2>1, <3>1
  <2>3. CASE UNCHANGED backend
    BY <2>1, <2>3
  <2>4. Exported \/ UNCHANGED backend
    BY DEF Next, RunnerStep, ReaderStep, MainStep, vars, StartCycle, DiscoveryFails, Record,
           RepoFails, Publish, SkipFlush, Flush, Flushed, Accept, GiveUp, Exit, TickFires,
           ReadSnapshot, ReadCounters, ExportFails, Signal, Shutdown, AbortCollection, FinalPush
  <2> QED BY <2>2, <2>3, <2>4
<1> QED BY Invariance, <1>1, PTL DEF Spec, CountersNeverGoBack
=============================================================================
