---------------------------- MODULE Health_proof ----------------------------
(***************************************************************************)
(* Proofs about Health: its inductive invariant, and with it that a stall  *)
(* reported by /healthz is a hanging request, that a target with a token   *)
(* is reported as unauthorized exactly when README.md says so, and that a  *)
(* ready exporter stays ready.                                             *)
(***************************************************************************)
EXTENDS Health, TLAPS

\* Targets are numbered from 1; main goes through them in this order.
LEMMA TargetOrder ==
  /\ 1 \in Target
  /\ \A t \in Target : t \in Nat /\ (t # NumTargets => t + 1 \in Target)
BY ParameterAssumption DEF ParameterAssumption, Target

\* The invariant holds initially.
LEMMA InitInv == Init => Inv
<1> SUFFICES ASSUME Init PROVE Inv
  OBVIOUS
<1> USE ParameterAssumption DEF ParameterAssumption
<1>1. TypeOK
  <2>1. 1 \in Time /\ 0 \in 0 .. MaxClock /\ 0 \in 0 .. MaxResponses
        /\ 0 \in 0 .. UnauthorizedCycles
    BY DEF Time
  <2> QED BY <2>1, TargetOrder DEF Init, TypeOK
<1>2. LoopsStarted /\ TimesOrdered
  BY DEF Init, LoopsStarted, TimesOrdered
<1>3. CyclesInTime
  BY DEF Init, CyclesInTime, Working
<1>4. ReadyCollected
  BY DEF Init, ReadyCollected
<1>5. TokensCounted
  BY DEF Init, TokensCounted, Unauthorized
<1> QED BY <1>1, <1>2, <1>3, <1>4, <1>5 DEF Inv

-----------------------------------------------------------------------------
(* The steps, by the variables they change *)

\* The steps of the process, and those of the target t.
LEMMA NextCases ==
  ASSUME Next
  PROVE  Tick \/ Signal \/ MainStep
         \/ \E t \in Target : AnswerRequest(t) \/ AnswerExchange(t) \/ Hang(t) \/ LoopStep(t)
BY DEF Next

\* Every step preserves the types.
LEMMA StepType == TypeOK /\ [Next]_vars => TypeOK'
<1> SUFFICES ASSUME TypeOK, [Next]_vars PROVE TypeOK'
  OBVIOUS
<1> USE ParameterAssumption DEF ParameterAssumption, TypeOK
<1>1. CASE Tick
  BY <1>1 DEF Tick, Time, loops, flags, times, responses, streaks
<1>2. CASE Signal
  BY <1>2 DEF Signal, loops, flags, times, responses, streaks
<1>3. CASE MainStep
  <2> USE DEF loops, flags, times, responses, streaks
  <2>1. CASE BuildProviders
    BY <2>1, TargetOrder DEF BuildProviders
  <2>2. CASE CheckCredential
    BY <2>2, TargetOrder DEF CheckCredential
  <2>3. CASE StartupFails
    BY <2>3 DEF StartupFails
  <2>4. CASE StartLoop
    BY <2>4, TargetOrder DEF StartLoop, Time
  <2>5. CASE Shutdown
    BY <2>5 DEF Shutdown
  <2> QED BY <1>3, <2>1, <2>2, <2>3, <2>4, <2>5 DEF MainStep
<1>4. CASE \E t \in Target : AnswerRequest(t) \/ AnswerExchange(t) \/ Hang(t) \/ LoopStep(t)
  <2> PICK t \in Target : AnswerRequest(t) \/ AnswerExchange(t) \/ Hang(t) \/ LoopStep(t)
    BY <1>4
  <2> USE DEF process, loops, flags, times, responses, streaks
  <2>1. CASE AnswerRequest(t)
    BY <2>1 DEF AnswerRequest, Answer, CountUnauthorized, CountOther
  <2>2. CASE AnswerExchange(t)
    BY <2>2 DEF AnswerExchange, Answer, CountUnauthorized
  <2>3. CASE Hang(t)
    BY <2>3 DEF Hang
  <2>4. CASE StartCycle(t)
    BY <2>4 DEF StartCycle
  <2>5. CASE \E ok \in BOOLEAN : EndCollect(t, ok)
    BY <2>5 DEF EndCollect
  <2>6. CASE Interrupt(t)
    BY <2>6 DEF Interrupt, Time
  <2>7. CASE FinishCycle(t)
    <3>1. NextUnauth(t) \in Nat /\ NextRun(t) \in 0 .. UnauthorizedCycles /\ ReadyAfter(t) \in BOOLEAN
      BY DEF NextUnauth, NextRun, ReadyAfter
    <3> QED BY <2>7, <3>1 DEF FinishCycle, Time
  <2>8. CASE WakeUp(t)
    BY <2>8 DEF WakeUp, Time
  <2>9. CASE ReturnLoop(t)
    BY <2>9 DEF ReturnLoop
  <2> QED BY <2>1, <2>2, <2>3, <2>4, <2>5, <2>6, <2>7, <2>8, <2>9 DEF LoopStep
<1>5. CASE UNCHANGED vars
  BY <1>5 DEF vars, process, loops, flags, times, responses, streaks
<1> QED BY <1>1, <1>2, <1>3, <1>4, <1>5, NextCases
\* The loops start in order.
LEMMA StepLoopsStarted ==
  ASSUME TypeOK, LoopsStarted, [Next]_vars PROVE LoopsStarted'
<1> USE DEF TypeOK, LoopsStarted, process, loops, flags, times, responses, streaks
<1>1. CASE Tick
  BY <1>1 DEF Tick
<1>2. CASE Signal
  BY <1>2 DEF Signal
<1>3. CASE MainStep
  <2>1. CASE BuildProviders
    BY <2>1 DEF BuildProviders
  <2>2. CASE CheckCredential
    BY <2>2 DEF CheckCredential
  <2>3. CASE StartupFails
    BY <2>3 DEF StartupFails
  <2>4. CASE StartLoop
    <3> SUFFICES ASSUME NEW t \in Target, main' = "start", t >= at'
                 PROVE  loop'[t] = "none"
      BY <2>4 DEF StartLoop
    <3>1. at' = at + 1 /\ t \in Nat /\ at \in Nat
      BY <2>4, TargetOrder DEF StartLoop
    <3>2. t >= at /\ t # at
      BY <3>1
    <3> QED BY <2>4, <3>2 DEF StartLoop
  <2>5. CASE Shutdown
    BY <2>5 DEF Shutdown
  <2> QED BY <1>3, <2>1, <2>2, <2>3, <2>4, <2>5 DEF MainStep
<1>4. CASE \E t \in Target : AnswerRequest(t) \/ AnswerExchange(t) \/ Hang(t) \/ LoopStep(t)
  <2> PICK t \in Target : AnswerRequest(t) \/ AnswerExchange(t) \/ Hang(t) \/ LoopStep(t)
    BY <1>4
  <2>1. CASE AnswerRequest(t)
    BY <2>1 DEF AnswerRequest, Answer, CountUnauthorized, CountOther
  <2>2. CASE AnswerExchange(t)
    BY <2>2 DEF AnswerExchange, Answer, CountUnauthorized
  <2>3. CASE Hang(t)
    BY <2>3 DEF Hang
  <2>4. CASE StartCycle(t)
    BY <2>4 DEF StartCycle
  <2>5. CASE \E ok \in BOOLEAN : EndCollect(t, ok)
    BY <2>5 DEF EndCollect
  <2>6. CASE Interrupt(t)
    BY <2>6 DEF Interrupt
  <2>7. CASE FinishCycle(t)
    BY <2>7 DEF FinishCycle
  <2>8. CASE WakeUp(t)
    BY <2>8 DEF WakeUp
  <2>9. CASE ReturnLoop(t)
    BY <2>9 DEF ReturnLoop
  <2> QED BY <2>1, <2>2, <2>3, <2>4, <2>5, <2>6, <2>7, <2>8, <2>9 DEF LoopStep
<1>5. CASE UNCHANGED vars
  BY <1>5 DEF vars
<1> QED BY <1>1, <1>2, <1>3, <1>4, <1>5, NextCases

\* Starts and cycles are stamped in order.
LEMMA StepTimes ==
  ASSUME TypeOK, LoopsStarted, TimesOrdered, [Next]_vars PROVE TimesOrdered'
<1> USE DEF TypeOK, TimesOrdered, process, loops, flags, times, responses, streaks
<1>1. CASE Tick
  BY <1>1 DEF Tick, Time
<1>2. CASE Signal
  BY <1>2 DEF Signal
<1>3. CASE MainStep
  <2>1. CASE BuildProviders
    BY <2>1 DEF BuildProviders
  <2>2. CASE CheckCredential
    BY <2>2 DEF CheckCredential
  <2>3. CASE StartupFails
    BY <2>3 DEF StartupFails
  <2>4. CASE StartLoop
    BY <2>4, TargetOrder DEF StartLoop, LoopsStarted, Time
  <2>5. CASE Shutdown
    BY <2>5 DEF Shutdown
  <2> QED BY <1>3, <2>1, <2>2, <2>3, <2>4, <2>5 DEF MainStep
<1>4. CASE \E t \in Target : AnswerRequest(t) \/ AnswerExchange(t) \/ Hang(t) \/ LoopStep(t)
  <2> PICK t \in Target : AnswerRequest(t) \/ AnswerExchange(t) \/ Hang(t) \/ LoopStep(t)
    BY <1>4
  <2>1. CASE AnswerRequest(t)
    BY <2>1 DEF AnswerRequest, Answer, CountUnauthorized, CountOther
  <2>2. CASE AnswerExchange(t)
    BY <2>2 DEF AnswerExchange, Answer, CountUnauthorized
  <2>3. CASE Hang(t)
    BY <2>3 DEF Hang
  <2>4. CASE StartCycle(t)
    BY <2>4 DEF StartCycle
  <2>5. CASE \E ok \in BOOLEAN : EndCollect(t, ok)
    BY <2>5 DEF EndCollect
  <2>6. CASE Interrupt(t)
    BY <2>6 DEF Interrupt
  <2>7. CASE FinishCycle(t)
    BY <2>7 DEF FinishCycle, Time
  <2>8. CASE WakeUp(t)
    BY <2>8 DEF WakeUp
  <2>9. CASE ReturnLoop(t)
    BY <2>9 DEF ReturnLoop
  <2> QED BY <2>1, <2>2, <2>3, <2>4, <2>5, <2>6, <2>7, <2>8, <2>9 DEF LoopStep
<1>5. CASE UNCHANGED vars
  BY <1>5 DEF vars
<1> QED BY <1>1, <1>2, <1>3, <1>4, <1>5, NextCases

\* Cycles and sleeps end in time.
LEMMA StepCycles ==
  ASSUME TypeOK, LoopsStarted, TimesOrdered, CyclesInTime, [Next]_vars PROVE CyclesInTime'
<1> USE DEF TypeOK, CyclesInTime, Working, Since, ParameterAssumption, process, loops, flags, times, responses, streaks
<1>1. CASE Tick
  BY <1>1, ParameterAssumption DEF Tick, Prompt, Time
<1>2. CASE Signal
  BY <1>2 DEF Signal
<1>3. CASE MainStep
  <2>1. CASE BuildProviders
    BY <2>1 DEF BuildProviders
  <2>2. CASE CheckCredential
    BY <2>2 DEF CheckCredential
  <2>3. CASE StartupFails
    BY <2>3 DEF StartupFails
  <2>4. CASE StartLoop
    BY <2>4, TargetOrder, ParameterAssumption DEF StartLoop, LoopsStarted, TimesOrdered, Time
  <2>5. CASE Shutdown
    BY <2>5 DEF Shutdown
  <2> QED BY <1>3, <2>1, <2>2, <2>3, <2>4, <2>5 DEF MainStep
<1>4. CASE \E t \in Target : AnswerRequest(t) \/ AnswerExchange(t) \/ Hang(t) \/ LoopStep(t)
  <2> PICK t \in Target : AnswerRequest(t) \/ AnswerExchange(t) \/ Hang(t) \/ LoopStep(t)
    BY <1>4
  <2>1. CASE AnswerRequest(t)
    BY <2>1 DEF AnswerRequest, Answer, CountUnauthorized, CountOther
  <2>2. CASE AnswerExchange(t)
    BY <2>2 DEF AnswerExchange, Answer, CountUnauthorized
  <2>3. CASE Hang(t)
    BY <2>3 DEF Hang
  <2>4. CASE StartCycle(t)
    BY <2>4 DEF StartCycle
  <2>5. CASE \E ok \in BOOLEAN : EndCollect(t, ok)
    BY <2>5 DEF EndCollect
  <2>6. CASE Interrupt(t)
    BY <2>6 DEF Interrupt
  <2>7. CASE FinishCycle(t)
    BY <2>7, ParameterAssumption DEF FinishCycle, Time
  <2>8. CASE WakeUp(t)
    BY <2>8, ParameterAssumption DEF WakeUp, Time
  <2>9. CASE ReturnLoop(t)
    BY <2>9 DEF ReturnLoop
  <2> QED BY <2>1, <2>2, <2>3, <2>4, <2>5, <2>6, <2>7, <2>8, <2>9 DEF LoopStep
<1>5. CASE UNCHANGED vars
  BY <1>5 DEF vars
<1> QED BY <1>1, <1>2, <1>3, <1>4, <1>5, NextCases

\* A ready target was collected.
LEMMA StepReady ==
  ASSUME TypeOK, ReadyCollected, [Next]_vars PROVE ReadyCollected'
<1> USE DEF TypeOK, ReadyCollected, process, loops, flags, times, responses, streaks
<1>1. CASE Tick
  BY <1>1 DEF Tick
<1>2. CASE Signal
  BY <1>2 DEF Signal
<1>3. CASE MainStep
  <2>1. CASE BuildProviders
    BY <2>1 DEF BuildProviders
  <2>2. CASE CheckCredential
    BY <2>2 DEF CheckCredential
  <2>3. CASE StartupFails
    BY <2>3 DEF StartupFails
  <2>4. CASE StartLoop
    BY <2>4 DEF StartLoop
  <2>5. CASE Shutdown
    BY <2>5 DEF Shutdown
  <2> QED BY <1>3, <2>1, <2>2, <2>3, <2>4, <2>5 DEF MainStep
<1>4. CASE \E t \in Target : AnswerRequest(t) \/ AnswerExchange(t) \/ Hang(t) \/ LoopStep(t)
  <2> PICK t \in Target : AnswerRequest(t) \/ AnswerExchange(t) \/ Hang(t) \/ LoopStep(t)
    BY <1>4
  <2>1. CASE AnswerRequest(t)
    BY <2>1 DEF AnswerRequest, Answer, CountUnauthorized, CountOther
  <2>2. CASE AnswerExchange(t)
    BY <2>2 DEF AnswerExchange, Answer, CountUnauthorized
  <2>3. CASE Hang(t)
    BY <2>3 DEF Hang
  <2>4. CASE StartCycle(t)
    BY <2>4 DEF StartCycle
  <2>5. CASE \E ok \in BOOLEAN : EndCollect(t, ok)
    BY <2>5 DEF EndCollect
  <2>6. CASE Interrupt(t)
    BY <2>6 DEF Interrupt
  <2>7. CASE FinishCycle(t)
    BY <2>7 DEF FinishCycle, ReadyAfter, Time
  <2>8. CASE WakeUp(t)
    BY <2>8 DEF WakeUp
  <2>9. CASE ReturnLoop(t)
    BY <2>9 DEF ReturnLoop
  <2> QED BY <2>1, <2>2, <2>3, <2>4, <2>5, <2>6, <2>7, <2>8, <2>9 DEF LoopStep
<1>5. CASE UNCHANGED vars
  BY <1>5 DEF vars
<1> QED BY <1>1, <1>2, <1>3, <1>4, <1>5, NextCases

\* The counters follow GitHub's answers.
LEMMA StepTokens ==
  ASSUME TypeOK, TokensCounted, [Next]_vars PROVE TokensCounted'
<1> USE DEF TypeOK, TokensCounted, Unauthorized, ParameterAssumption, process, loops, flags, times, responses, streaks
<1>1. CASE Tick
  BY <1>1 DEF Tick
<1>2. CASE Signal
  BY <1>2 DEF Signal
<1>3. CASE MainStep
  <2>1. CASE BuildProviders
    BY <2>1 DEF BuildProviders
  <2>2. CASE CheckCredential
    BY <2>2 DEF CheckCredential
  <2>3. CASE StartupFails
    BY <2>3 DEF StartupFails
  <2>4. CASE StartLoop
    BY <2>4 DEF StartLoop
  <2>5. CASE Shutdown
    BY <2>5 DEF Shutdown
  <2> QED BY <1>3, <2>1, <2>2, <2>3, <2>4, <2>5 DEF MainStep
<1>4. CASE \E t \in Target : AnswerRequest(t) \/ AnswerExchange(t) \/ Hang(t) \/ LoopStep(t)
  <2> PICK t \in Target : AnswerRequest(t) \/ AnswerExchange(t) \/ Hang(t) \/ LoopStep(t)
    BY <1>4
  <2>1. CASE AnswerRequest(t)
    BY <2>1 DEF AnswerRequest, Answer, CountUnauthorized, CountOther
  <2>2. CASE AnswerExchange(t)
    BY <2>2 DEF AnswerExchange, Answer, CountUnauthorized
  <2>3. CASE Hang(t)
    BY <2>3 DEF Hang
  <2>4. CASE StartCycle(t)
    BY <2>4 DEF StartCycle
  <2>5. CASE \E ok \in BOOLEAN : EndCollect(t, ok)
    BY <2>5 DEF EndCollect
  <2>6. CASE Interrupt(t)
    BY <2>6 DEF Interrupt
  <2>7. CASE FinishCycle(t)
    BY <2>7, ParameterAssumption DEF FinishCycle, NextUnauth, NextRun
  <2>8. CASE WakeUp(t)
    BY <2>8 DEF WakeUp
  <2>9. CASE ReturnLoop(t)
    BY <2>9 DEF ReturnLoop
  <2> QED BY <2>1, <2>2, <2>3, <2>4, <2>5, <2>6, <2>7, <2>8, <2>9 DEF LoopStep
<1>5. CASE UNCHANGED vars
  BY <1>5 DEF vars
<1> QED BY <1>1, <1>2, <1>3, <1>4, <1>5, NextCases

-----------------------------------------------------------------------------
(* The results *)

\* Every step preserves the invariant.
LEMMA StepInv == Inv /\ [Next]_vars => Inv'
BY StepType, StepLoopsStarted, StepTimes, StepCycles, StepReady, StepTokens DEF Inv

\* The inductive invariant holds in every state: types, the order of loop
\* starts and cycles, and what /healthz and /readyz are computed from.
THEOREM Invariant == Spec => []Inv
<1>1. Init => Inv
  BY InitInv
<1>2. Inv /\ [Next]_vars => Inv'
  BY StepInv
<1> QED BY <1>1, <1>2, PTL DEF Spec

\* A stall that /healthz reports before shutdown is a request that hangs.
THEOREM NoFalseStall == Spec => []StallIsReal
<1>1. Inv => StallIsReal
  <2> SUFFICES ASSUME Inv, NEW t \in Target, Stalled(t), ~cancelled
               PROVE  loop[t] = "hung"
    BY DEF StallIsReal
  <2> USE DEF Inv, TypeOK, Stalled
  <2>1. loop[t] # "none"
    BY DEF TimesOrdered
  <2>2. loop[t] # "sleep"
    BY ParameterAssumption DEF CyclesInTime, Since, ParameterAssumption, Time
  <2>3. ~Working(t)
    BY ParameterAssumption DEF CyclesInTime, Since, ParameterAssumption, Time
  <2>4. loop[t] # "returned"
    BY DEF CyclesInTime
  <2> QED BY <2>1, <2>2, <2>3, <2>4 DEF Working
<1> QED BY <1>1, Invariant, PTL

\* A target with a token is reported as unauthorized exactly after the runs of
\* unauthorized cycles that the README describes.
THEOREM TokenVerdict == Spec => []UnauthorizedForTokens
<1>1. Inv => UnauthorizedForTokens
  BY ParameterAssumption
     DEF Inv, TypeOK, TokensCounted, UnauthorizedForTokens, Unauthorized, ParameterAssumption
<1> QED BY <1>1, Invariant, PTL

\* A ready exporter stays ready.
THEOREM StaysReady == Spec => ReadyStays
<1>1. Inv /\ [Next]_vars => (Readyz => Readyz')
  <2> SUFFICES ASSUME Inv, [Next]_vars, Readyz PROVE Readyz'
    OBVIOUS
  <2> USE DEF Inv, TypeOK, Readyz, process, loops, flags, times, responses, streaks
  <2>1. CASE Tick \/ Signal \/ MainStep
    BY <2>1 DEF Tick, Signal, MainStep, BuildProviders, CheckCredential, StartupFails,
                StartLoop, Shutdown
  <2>2. CASE \E t \in Target : AnswerRequest(t) \/ AnswerExchange(t) \/ Hang(t) \/ LoopStep(t)
    <3> PICK t \in Target : AnswerRequest(t) \/ AnswerExchange(t) \/ Hang(t) \/ LoopStep(t)
      BY <2>2
    <3>1. CASE FinishCycle(t)
      BY <3>1 DEF FinishCycle, ReadyAfter
    <3>2. CASE AnswerRequest(t) \/ AnswerExchange(t) \/ Hang(t)
      BY <3>2 DEF AnswerRequest, AnswerExchange, Answer, Hang
    <3> QED BY <3>1, <3>2 DEF LoopStep, StartCycle, EndCollect, Interrupt, WakeUp, ReturnLoop
  <2>3. CASE UNCHANGED vars
    BY <2>3 DEF vars
  <2> QED BY <2>1, <2>2, <2>3, NextCases
<1> QED BY <1>1, Invariant, PTL DEF Spec, ReadyStays

=============================================================================
