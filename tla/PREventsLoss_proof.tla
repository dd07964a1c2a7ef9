------------------------- MODULE PREventsLoss_proof -------------------------
(***************************************************************************)
(* Proofs about PREvents, continued: that no event is missed.  LossInv is  *)
(* Inv with what SettledCounted and NotLost, two of its conjuncts, rest    *)
(* on.  The argument: paging newest first sees every PR that rests         *)
(* since the cycle began (ScanSees), so recording a scan counts what those *)
(* PRs show of the window (RecordCovers); windows overlap, so what moved   *)
(* in one scan is in reach of the next.                                    *)
(***************************************************************************)
EXTENDS PREvents_proof, FiniteSetTheorems

\* The fields of an event and the key of its PR's time.
LEMMA EventFields ==
  ASSUME NEW e \in Event
  PROVE  /\ e.repo \in Repo /\ e.number \in Number /\ e.kind \in Kind
         /\ e.at \in Nat /\ e.at # 0 /\ e.at <= MaxClock
         /\ <<e.number, e.kind>> \in Key
         /\ e = EventOf(e.repo, e.number, e.kind, e.at)
BY ParameterAssumption DEF Event, EventOf, Time, Key

\* The numbers the invariants compare.
LEMMA Numbers ==
  ASSUME TypeOK
  PROVE  /\ clock \in Nat /\ start \in Nat /\ wakeAt \in Nat /\ updates \in Nat
         /\ \A r \in Repo : /\ lastCollectedAt[r] \in Nat /\ windows[r].scanFrom \in Nat
                            /\ look[r].since \in Nat /\ Reach(r) \in Nat
         /\ \A r \in Repo, n \in Number : pr[r][n].updated \in Nat /\ pr[r][n].stamp \in Nat
         /\ scan.from \in Nat /\ scan.cursor \in Nat
         /\ \A k \in Key : scan.ev[k] \in Nat
         /\ \A r \in Repo, k \in Key : windows[r].counted[k] \in Nat
<1>1. /\ clock \in Nat /\ start \in Nat /\ wakeAt \in Nat /\ updates \in Nat
      /\ scan.from \in Nat /\ scan.cursor \in Nat /\ \A k \in Key : scan.ev[k] \in Nat
  BY ParameterAssumption DEF TypeOK, Time, Stamp, Scan
<1>2. \A r \in Repo : /\ lastCollectedAt[r] \in Nat /\ windows[r].scanFrom \in Nat
                      /\ look[r].since \in Nat
                      /\ \A k \in Key : windows[r].counted[k] \in Nat
  BY ParameterAssumption DEF TypeOK, Window, Look
<1>3. \A r \in Repo, n \in Number : pr[r][n].updated \in Nat /\ pr[r][n].stamp \in Nat
  BY ParameterAssumption DEF TypeOK, PullRequest, Stamp
<1>4. QED
  BY <1>1, <1>2, <1>3 DEF Reach

\* Every step but a GitHub step leaves GitHub alone.
LEMMA GitHubAlone ==
  ASSUME [Next]_vars, ~ \E r \in Repo, n \in Number : GitHubStep(r, n)
  PROVE  UNCHANGED github
BY DEF Next, CycleStep, RepoStep, Tick, StartCycle, Discover, DiscoverFails, OpenScan,
       EventPage, ScanFails, RecordRepo, FinishCycle, vars

\* A GitHub step changes one PR: its update is the newest, and the events that
\* it adds and the times that it shows are old ones or of this moment.
LEMMA GitHubChange ==
  ASSUME TypeOK, NEW r \in Repo, NEW n \in Number, GitHubStep(r, n)
  PROVE  /\ \A s \in Repo, m \in Number : s # r \/ m # n => pr'[s][m] = pr[s][m]
         /\ updates' = updates + 1
         /\ pr'[r][n].updated = clock /\ pr'[r][n].stamp = updates + 1
         /\ pr'[r][n].state # "none"
         /\ happened \subseteq happened'
         /\ \A e \in happened' : e \notin happened =>
              e.repo = r /\ e.number = n /\ e.at = clock /\ EventTime(pr'[r][n], e.kind) = clock
         /\ \A kind \in Kind : EventTime(pr'[r][n], kind) \in {EventTime(pr[r][n], kind), 0, clock}
<1> DEFINE p == pr[r][n]
           q == pr'[r][n]
           new == happened' \ happened
           times == \A kind \in Kind : EventTime(q, kind) \in {EventTime(p, kind), 0, clock}
           news == \A e \in new : e.repo = r /\ e.number = n /\ e.at = clock /\ EventTime(q, e.kind) = clock
<1>1. /\ \A s \in Repo, m \in Number : s # r \/ m # n => pr'[s][m] = pr[s][m]
      /\ updates' = updates + 1
      /\ q.updated = clock /\ q.stamp = updates + 1
      /\ happened \subseteq happened'
  BY DEF GitHubStep, OpenPR, MergePR, ClosePR, ReopenPR, TouchPR, Update, TypeOK
<1>2. CASE OpenPR(r, n)
  <2>1. q.state = "open" /\ q.created = clock /\ q.ended = 0
    BY <1>2 DEF OpenPR, Update, TypeOK
  <2>2. \A e \in new : e = EventOf(r, n, "created", clock)
    BY <1>2 DEF OpenPR, Update
  <2>3. times /\ news
    BY <2>1, <2>2 DEF EventTime, EventOf, Kind
  <2>4. QED
    BY <1>1, <2>1, <2>3
<1>3. CASE MergePR(r, n)
  <2>1. q.state = "merged" /\ q.created = p.created /\ q.ended = clock
    BY <1>3 DEF MergePR, Update, TypeOK
  <2>2. \A e \in new : e = EventOf(r, n, "merged", clock)
    BY <1>3 DEF MergePR, Update
  <2>3. times /\ news
    BY <2>1, <2>2 DEF EventTime, EventOf, Kind
  <2>4. QED
    BY <1>1, <2>1, <2>3
<1>4. CASE ClosePR(r, n)
  <2>1. q.state = "closed" /\ q.created = p.created /\ q.ended = clock
    BY <1>4 DEF ClosePR, Update, TypeOK
  <2>2. \A e \in new : e = EventOf(r, n, "closed", clock)
    BY <1>4 DEF ClosePR, Update
  <2>3. times /\ news
    BY <2>1, <2>2 DEF EventTime, EventOf, Kind
  <2>4. QED
    BY <1>1, <2>1, <2>3
<1>5. CASE ReopenPR(r, n)
  <2>1. q.state = "open" /\ q.created = p.created
    BY <1>5 DEF ReopenPR, Update, TypeOK
  <2>2. new = {}
    BY <1>5 DEF ReopenPR, Update
  <2>3. times /\ news
    BY <2>1, <2>2 DEF EventTime, Kind
  <2>4. QED
    BY <1>1, <2>1, <2>3
<1>6. CASE TouchPR(r, n)
  <2>1. q.state = p.state /\ q.created = p.created /\ q.ended = p.ended /\ p.state # "none"
    BY <1>6 DEF TouchPR, Update, TypeOK
  <2>2. new = {}
    BY <1>6 DEF TouchPR, Update
  <2>3. times /\ news
    BY <2>1, <2>2 DEF EventTime
  <2>4. QED
    BY <1>1, <2>1, <2>3
<1>7. QED
  BY <1>2, <1>3, <1>4, <1>5, <1>6 DEF GitHubStep

-----------------------------------------------------------------------------
(* GitHub's invariants *)

\* Updates stay ordered.
LEMMA UpdatesOrderedStep == TypeOK /\ UpdatesOrdered /\ [Next]_vars => UpdatesOrdered'
<1> SUFFICES ASSUME TypeOK, UpdatesOrdered, [Next]_vars PROVE UpdatesOrdered'
  OBVIOUS
<1>1. CASE Tick
  BY <1>1, Numbers DEF Tick, github, UpdatesOrdered
<1>2. ASSUME NEW r \in Repo, NEW n \in Number, GitHubStep(r, n) PROVE UpdatesOrdered'
  <2>1. UNCHANGED clock
    BY <1>2, GitHubFrame
  <2>2. ASSUME NEW s \in Repo, NEW m \in Number
        PROVE  /\ \A kind \in Kind : EventTime(pr'[s][m], kind) <= pr'[s][m].updated
               /\ pr'[s][m].updated <= clock /\ pr'[s][m].stamp <= updates'
    <3>1. CASE s # r \/ m # n
      BY <1>2, <3>1, GitHubChange, Numbers DEF UpdatesOrdered
    <3>2. CASE s = r /\ m = n
      <4>1. ASSUME NEW kind \in Kind PROVE EventTime(pr'[r][n], kind) <= clock
        <5>1. EventTime(pr[r][n], kind) <= pr[r][n].updated /\ pr[r][n].updated <= clock
          BY DEF UpdatesOrdered
        <5>2. EventTime(pr'[r][n], kind) \in {EventTime(pr[r][n], kind), 0, clock}
          BY <1>2, GitHubChange
        <5>3. EventTime(pr[r][n], kind) \in Nat
          BY EventTimeType
        <5>4. QED
          BY <5>1, <5>2, <5>3, Numbers
      <4>2. QED
        BY <1>2, <3>2, <4>1, GitHubChange, Numbers
    <3>3. QED
      BY <3>1, <3>2
  <2>3. ASSUME NEW s \in Repo, NEW m \in Number, NEW o \in Number,
               pr'[s][m].stamp < pr'[s][o].stamp
        PROVE  pr'[s][m].updated <= pr'[s][o].updated
    <3>1. CASE s = r /\ o = n
      BY <1>2, <2>2, <3>1, GitHubChange
    <3>2. CASE s = r /\ m = n /\ o # n
      BY <1>2, <2>3, <3>2, GitHubChange, Numbers DEF UpdatesOrdered
    <3>3. CASE s # r \/ (m # n /\ o # n)
      BY <1>2, <2>3, <3>3, GitHubChange DEF UpdatesOrdered
    <3>4. QED
      BY <3>1, <3>2, <3>3
  <2>4. QED
    BY <2>1, <2>2, <2>3 DEF UpdatesOrdered
<1>3. ASSUME ~Tick, ~ \E r \in Repo, n \in Number : GitHubStep(r, n) PROVE UpdatesOrdered'
  <2>1. UNCHANGED github
    BY <1>3, GitHubAlone
  <2>2. UNCHANGED clock
    BY <1>3 DEF Next, CycleStep, RepoStep, StartCycle, Discover, DiscoverFails, OpenScan,
       EventPage, ScanFails, RecordRepo, FinishCycle, vars
  <2>3. QED
    BY <2>1, <2>2 DEF github, UpdatesOrdered
<1>4. QED
  BY <1>1, <1>2, <1>3

\* PRs keep their one creation and merge.
LEMMA LifeOfPRStep == TypeOK /\ LifeOfPR /\ [Next]_vars => LifeOfPR'
<1> SUFFICES ASSUME TypeOK, LifeOfPR, [Next]_vars PROVE LifeOfPR'
  OBVIOUS
<1>1. CASE ~ \E r \in Repo, n \in Number : GitHubStep(r, n)
  BY <1>1, GitHubAlone DEF github, LifeOfPR
<1>2. ASSUME NEW r \in Repo, NEW n \in Number, GitHubStep(r, n) PROVE LifeOfPR'
  <2> DEFINE lives(e, p) == /\ p.state # "none"
                            /\ e.kind = "created" => e.at = p.created
                            /\ e.kind = "merged" => p.state = "merged" /\ e.at = p.ended
  <2>1. SUFFICES ASSUME NEW e \in happened' PROVE lives(e, pr'[e.repo][e.number])
    BY DEF LifeOfPR
  <2>2. e \in Event
    BY <1>2, TypeStep, GitHubChange DEF GitHubStep, OpenPR, MergePR, ClosePR, ReopenPR, TouchPR,
       Update, TypeOK, Event, EventOf, Kind
  <2>3. e \in happened => lives(e, pr[e.repo][e.number])
    BY DEF LifeOfPR
  <2>4. CASE e.repo # r \/ e.number # n
    <3>1. e \in happened
      BY <1>2, <2>1, <2>4, GitHubChange
    <3>2. pr'[e.repo][e.number] = pr[e.repo][e.number]
      <4>1. e.repo \in Repo /\ e.number \in Number
        BY <2>2, EventFields
      <4>2. \A s \in Repo, m \in Number : s # r \/ m # n => pr'[s][m] = pr[s][m]
        BY <1>2, GitHubChange
      <4>3. QED
        BY <2>4, <4>1, <4>2
    <3>3. QED
      BY <2>3, <3>1, <3>2
  <2>5. CASE e.repo = r /\ e.number = n
    <3>1. CASE OpenPR(r, n)
      BY <2>3, <2>5, <3>1 DEF OpenPR, Update, TypeOK, EventOf
    <3>2. CASE MergePR(r, n)
      BY <2>3, <2>5, <3>2 DEF MergePR, Update, TypeOK, EventOf
    <3>3. CASE ClosePR(r, n)
      BY <2>3, <2>5, <3>3 DEF ClosePR, Update, TypeOK, EventOf
    <3>4. CASE ReopenPR(r, n)
      BY <2>3, <2>5, <3>4 DEF ReopenPR, Update, TypeOK, EventOf
    <3>5. CASE TouchPR(r, n)
      BY <2>3, <2>5, <3>5 DEF TouchPR, Update, TypeOK, EventOf
    <3>6. QED
      BY <1>2, <3>1, <3>2, <3>3, <3>4, <3>5 DEF GitHubStep
  <2>6. QED
    BY <2>4, <2>5
<1>3. QED
  BY <1>1, <1>2

-----------------------------------------------------------------------------
(* Cycles and windows *)

\* Recording a repo moves its window to the last timestamp and its history on.
LEMMA RecordFrame ==
  ASSUME TypeOK, NEW r \in Repo, RecordRepo(r)
  PROVE  /\ pc = "record" /\ r = Head(todo)
         /\ UNCHANGED <<clock, github, cycle, failed, lastCollectedAt>>
         /\ \A s \in Repo : s # r => windows'[s] = windows[s] /\ look'[s] = look[s]
         /\ look'[r] = NextLook(r)
         /\ lastCollectedAt[r] = 0 => windows'[r] = windows[r]
         /\ lastCollectedAt[r] # 0 =>
              /\ windows'[r] = NextWindow(lastCollectedAt[r], windows[r].counted, scan.ev)
              /\ windows'[r].scanFrom = lastCollectedAt[r] /\ windows'[r] # NoWindow
<1>1. lastCollectedAt[r] \in 0 .. MaxClock
  BY DEF TypeOK
<1>2. /\ pc = "record" /\ r = Head(todo)
      /\ UNCHANGED <<clock, github, cycle, failed, lastCollectedAt>>
      /\ \A s \in Repo : s # r => windows'[s] = windows[s] /\ look'[s] = look[s]
      /\ look'[r] = NextLook(r)
      /\ lastCollectedAt[r] = 0 => windows'[r] = windows[r]
      /\ lastCollectedAt[r] # 0 =>
           windows'[r] = NextWindow(lastCollectedAt[r], windows[r].counted, scan.ev)
  BY DEF RecordRepo, TypeOK
<1>3. QED
  BY <1>1, <1>2, NextWindowFrom

\* The end of a cycle, repo by repo.
LEMMA FinishFrame ==
  ASSUME FinishCycle
  PROVE  /\ pc = "finish" /\ pc' = "idle" /\ wakeAt' = clock + Interval
         /\ UNCHANGED <<clock, github, start, tally>>
         /\ \A r \in Repo :
              /\ r \notin listed => /\ windows'[r] = NoWindow /\ lastCollectedAt'[r] = 0
                                    /\ look'[r] = NoLook
              /\ r \in listed => windows'[r] = windows[r]
              /\ r \in listed /\ r \in failed =>
                   lastCollectedAt'[r] = lastCollectedAt[r] /\ look'[r] = look[r]
              /\ r \in listed /\ r \notin failed =>
                   /\ lastCollectedAt'[r] = start
                   /\ look'[r] = IF lastCollectedAt[r] = 0 THEN [look[r] EXCEPT !.since = start]
                                                           ELSE look[r]
BY DEF FinishCycle, NextTimestamp

\* A repo without a timestamp has no window.
LEMMA WindowTimestamp ==
  ASSUME TypeOK, WindowsOrdered, NEW r \in Repo, lastCollectedAt[r] = 0
  PROVE  windows[r] = NoWindow
BY Numbers DEF WindowsOrdered

\* Each cycle starts after the last, and a repo without a window is promised
\* nothing up to its timestamp.
LEMMA CyclesOrderedStep ==
  TypeOK /\ WindowsOrdered /\ CyclesOrdered /\ CycleKeepsPromise /\ [Next]_vars => CyclesOrdered'
<1> SUFFICES ASSUME TypeOK, WindowsOrdered, CyclesOrdered, CycleKeepsPromise, [Next]_vars
             PROVE  CyclesOrdered'
  OBVIOUS
<1>1. ASSUME UNCHANGED <<pc, start, wakeAt, lastCollectedAt, windows, look>> PROVE CyclesOrdered'
  BY <1>1 DEF CyclesOrdered
<1>2. ASSUME NEW r \in Repo, NEW n \in Number, GitHubStep(r, n) PROVE CyclesOrdered'
  BY <1>1, <1>2, GitHubFrame DEF cycle, kept, metrics
<1>3. CASE Tick
  BY <1>1, <1>3 DEF Tick, cycle, kept, metrics
<1>4. CASE StartCycle
  <2>1. clock >= wakeAt /\ start < wakeAt /\ start' = clock /\ pc' = "discover"
    BY <1>4 DEF StartCycle, CyclesOrdered
  <2>2. start < start' /\ UNCHANGED <<lastCollectedAt, windows, look>>
    BY <1>4, <2>1, Numbers DEF StartCycle, kept, metrics
  <2>3. QED
    BY <2>1, <2>2, Numbers DEF CyclesOrdered, WindowsOrdered
<1>5. ASSUME NEW repos \in RepoLists, Discover(repos) PROVE CyclesOrdered'
  BY <1>5 DEF Discover, NextRepo, CyclesOrdered, kept, metrics
<1>6. CASE DiscoverFails
  BY <1>6, Numbers, ParameterAssumption DEF DiscoverFails, CyclesOrdered, WindowsOrdered, kept, metrics
<1>7. ASSUME NEW r \in Repo, OpenScan(r) \/ EventPage(r) \/ ScanFails(r) PROVE CyclesOrdered'
  BY <1>7 DEF OpenScan, EventPage, ScanFails, NextRepo, CyclesOrdered, cycle, kept, metrics
<1>8. ASSUME NEW r \in Repo, RecordRepo(r) PROVE CyclesOrdered'
  <2>1. pc' # "idle" /\ UNCHANGED <<start, lastCollectedAt>>
    BY <1>8 DEF RecordRepo, NextRepo, cycle
  <2>2. \A s \in Repo : lastCollectedAt[s] < start
    BY <1>8, RecordFrame DEF CyclesOrdered
  <2>3. /\ windows'[r] # NoWindow => windows'[r].scanFrom < start
        /\ windows'[r] = NoWindow => lastCollectedAt[r] <= look'[r].since
    <3>1. CASE lastCollectedAt[r] # 0
      BY <1>8, <2>2, <3>1, RecordFrame
    <3>2. CASE lastCollectedAt[r] = 0
      <4>1. look'[r].since = look[r].since /\ windows'[r] = windows[r]
        BY <1>8, <3>2, RecordFrame DEF NextLook, TypeOK, Look
      <4>2. QED
        BY <4>1 DEF CyclesOrdered
    <3>3. QED
      BY <3>1, <3>2
  <2>4. QED
    BY <1>8, <2>1, <2>2, <2>3, RecordFrame DEF CyclesOrdered
<1>9. CASE FinishCycle
  <2>1. pc' = "idle" /\ start' < wakeAt'
    BY <1>9, FinishFrame, Numbers, ParameterAssumption DEF WindowsOrdered
  <2>2. ASSUME NEW r \in Repo
        PROVE  /\ windows'[r] # NoWindow => windows'[r].scanFrom < start
               /\ windows'[r] = NoWindow => lastCollectedAt'[r] <= look'[r].since
    <3>1. CASE r \notin listed
      <4>1. windows'[r] = NoWindow /\ lastCollectedAt'[r] = 0 /\ look'[r] = NoLook
        BY <1>9, <3>1, FinishFrame
      <4>2. look'[r].since = 0
        BY <4>1 DEF NoLook
      <4>3. QED
        BY <4>1, <4>2
    <3>2. CASE r \in listed /\ r \in failed
      BY <1>9, <3>2, FinishFrame DEF CyclesOrdered
    <3>3. CASE r \in listed /\ r \notin failed
      <4>1. windows'[r] = windows[r] /\ lastCollectedAt'[r] = start
        BY <1>9, <3>3, FinishFrame
      <4>2. CASE lastCollectedAt[r] = 0
        <5>1. look'[r].since = start
          BY <1>9, <3>3, <4>2, FinishFrame DEF TypeOK, Look
        <5>2. QED
          BY <4>1, <5>1, Numbers DEF CyclesOrdered
      <4>3. CASE lastCollectedAt[r] # 0
        <5>1. windows[r].scanFrom = lastCollectedAt[r]
          BY <1>9, <3>3, <4>3, FinishFrame DEF CycleKeepsPromise, Recorded
        <5>2. windows[r] # NoWindow
          BY <4>3, <5>1 DEF NoWindow
        <5>3. QED
          BY <4>1, <5>2 DEF CyclesOrdered
      <4>4. QED
        BY <4>2, <4>3
    <3>4. QED
      BY <3>1, <3>2, <3>3
  <2>3. QED
    BY <1>9, <2>1, <2>2, FinishFrame DEF CyclesOrdered
<1>10. CASE UNCHANGED vars
  BY <1>1, <1>10 DEF vars, cycle, kept, metrics
<1>11. QED
  BY <1>2, <1>3, <1>4, <1>5, <1>6, <1>7, <1>8, <1>9, <1>10 DEF Next, CycleStep, RepoStep

\* Counters never go down.
LEMMA TallyGrows ==
  ASSUME TypeOK, [Next]_vars, NEW e \in Event
  PROVE  tally[e] \in Nat /\ tally'[e] \in Nat /\ tally[e] <= tally'[e]
<1>1. tally[e] \in Nat
  BY DEF TypeOK
<1>2. ASSUME NEW r \in Repo, RecordRepo(r) PROVE tally'[e] = tally[e] \/ tally'[e] = tally[e] + 1
  BY <1>2 DEF RecordRepo
<1>3. CASE ~ \E r \in Repo : RecordRepo(r)
  BY <1>1, <1>3, TallyFrame
<1>4. QED
  BY <1>1, <1>2, <1>3

\* Events never unhappen.
LEMMA HappenedGrows == ASSUME TypeOK, [Next]_vars PROVE happened \subseteq happened'
BY GitHubAlone, GitHubChange DEF github

\* What a window remembers was counted.
LEMMA RememberedCountedStep ==
  TypeOK /\ ScanInv /\ RememberedCounted /\ [Next]_vars => RememberedCounted'
<1> SUFFICES ASSUME TypeOK, ScanInv, RememberedCounted, [Next]_vars,
                    NEW s \in Repo, NEW n \in Number, NEW kind \in Kind,
                    windows'[s].counted[<<n, kind>>] # 0
             PROVE  LET e == EventOf(s, n, kind, windows'[s].counted[<<n, kind>>])
                    IN  e \in happened' /\ tally'[e] > 0
  BY DEF RememberedCounted
<1> DEFINE k == <<n, kind>>
<1>0. k \in Key
  BY DEF Key
<1>1. ASSUME windows[s].counted[k] # 0
      PROVE  LET e == EventOf(s, n, kind, windows[s].counted[k])
             IN  e \in happened' /\ tally'[e] > 0
  <2> DEFINE e == EventOf(s, n, kind, windows[s].counted[k])
  <2>1. e \in happened /\ tally[e] > 0
    BY <1>1 DEF RememberedCounted
  <2>2. e \in Event
    BY <2>1 DEF TypeOK
  <2>3. QED
    BY <2>1, <2>2, HappenedGrows, TallyGrows
<1>2. CASE windows'[s] = windows[s]
  BY <1>1, <1>2
<1>3. ASSUME NEW r \in Repo, RecordRepo(r) PROVE windows'[s] = windows[s]
             \/ (lastCollectedAt[s] # 0 /\ s = r)
  BY <1>3, RecordFrame
<1>4. ASSUME RecordRepo(s), lastCollectedAt[s] # 0
      PROVE  LET e == EventOf(s, n, kind, windows'[s].counted[k])
             IN  e \in happened' /\ tally'[e] > 0
  <2>1. windows'[s].counted[k] \in {scan.ev[k], windows[s].counted[k]}
    <3>1. windows'[s] = NextWindow(lastCollectedAt[s], windows[s].counted, scan.ev)
      BY <1>4, RecordFrame
    <3>2. QED
      BY <1>0, <3>1 DEF NextWindow
  <2>2. CASE windows'[s].counted[k] = scan.ev[k]
    <3> DEFINE e == EventOf(s, n, kind, scan.ev[k])
    <3>1. ScanFound(s)
      BY <1>4 DEF RecordRepo, ScanInv
    <3>2. e \in happened
      BY <2>2, <3>1 DEF ScanFound
    <3>3. e \in Event
      BY <3>2 DEF TypeOK
    <3>4. tally'[e] = tally[e] + 1
      BY <1>4, <3>3 DEF RecordRepo, EventOf
    <3>5. QED
      BY <2>2, <3>2, <3>3, <3>4, HappenedGrows, TallyGrows
  <2>3. QED
    BY <1>1, <2>1, <2>2
<1>5. ASSUME FinishCycle PROVE windows'[s] = windows[s]
  <2>1. windows'[s] # NoWindow
    BY <1>0 DEF NoWindow, NoEvents
  <2>2. QED
    BY <1>5, <2>1, FinishFrame
<1>6. ASSUME ~ FinishCycle, ~ \E r \in Repo : RecordRepo(r) PROVE windows' = windows
  <2>1. ASSUME NEW r \in Repo, NEW m \in Number, GitHubStep(r, m) PROVE windows' = windows
    BY <2>1, GitHubFrame DEF kept
  <2>2. QED
    BY <1>6, <2>1 DEF Next, CycleStep, RepoStep, Tick, StartCycle, Discover, DiscoverFails,
       OpenScan, EventPage, ScanFails, vars, kept
<1>7. QED
  BY <1>2, <1>3, <1>4, <1>5, <1>6

-----------------------------------------------------------------------------
(* The scan *)

\* A page is the head of what is ahead: a PR ahead that is no further back than
\* the page's last node is on the page.
LEMMA PageIsPrefix ==
  ASSUME TypeOK, NEW r \in Repo, NEW l \in Last(r), NEW n \in Ahead(r),
         pr[r][l].stamp <= pr[r][n].stamp
  PROVE  n \in Page(r)
<1> DEFINE before(m) == {o \in Ahead(r) : pr[r][o].stamp > pr[r][m].stamp}
<1>1. l \in Number /\ n \in Number /\ Ahead(r) \subseteq Number
  BY DEF Last, Page, Ahead
<1>2. IsFiniteSet(before(l)) /\ IsFiniteSet(before(n))
  <2>1. before(l) \subseteq Number /\ before(n) \subseteq Number
    BY <1>1
  <2>2. QED
    BY <2>1, FS_Subset, ParameterAssumption
<1>3. before(n) \subseteq before(l)
  <2>1. \A m \in Number : pr[r][m].stamp \in Nat
    BY Numbers
  <2>2. QED
    BY <1>1, <2>1
<1>4. Cardinality(before(n)) <= Cardinality(before(l))
  BY <1>2, <1>3, FS_Subset
<1>5. Cardinality(before(l)) < PageSize
  BY DEF Last, Page
<1>6. Cardinality(before(l)) \in Nat /\ Cardinality(before(n)) \in Nat
  BY <1>2, FS_CardinalityType
<1>7. Cardinality(before(n)) < PageSize
  BY <1>4, <1>5, <1>6, ParameterAssumption
<1>8. QED
  BY <1>7 DEF Page

\* A page visit finds what the PRs of the page show and forgets nothing.
LEMMA VisitSees ==
  ASSUME TypeOK, NEW r \in Repo, EventPage(r), NEW n \in Number, Selected(n, pr[r][n]),
         n \in Page(r) \/ Seen(r, n)
  PROVE  Seen(r, n)'
<1>1. /\ scan'.from = scan.from /\ scan'.ev = VisitPage(r)
      /\ UNCHANGED <<pr, start, windows>>
  BY DEF EventPage, github, cycle, kept
<1>2. SUFFICES ASSUME NEW kind \in Kind,
                      scan.from < EventTime(pr[r][n], kind), EventTime(pr[r][n], kind) <= start,
                      windows[r].counted[<<n, kind>>] = 0
               PROVE  VisitPage(r)[<<n, kind>>] # 0
  BY <1>1 DEF Seen
<1> DEFINE k == <<n, kind>>
           t == EventTime(pr[r][n], kind)
<1>3. k \in Key /\ k[1] = n /\ k[2] = kind
  BY DEF Key
<1>4. VisitPage(r)[k] = IF Counts(r, k) THEN t ELSE scan.ev[k]
  BY <1>3 DEF VisitPage
<1>5. t # 0
  BY <1>2, Numbers, EventTimeType
<1>6. CASE n \in Page(r)
  <2>1. Counts(r, k) \/ scan.ev[k] # 0
    BY <1>2, <1>3, <1>6 DEF Counts
  <2>2. QED
    BY <1>4, <1>5, <2>1
<1>7. CASE Seen(r, n)
  <2>1. scan.ev[k] # 0
    BY <1>2, <1>7 DEF Seen
  <2>2. QED
    BY <1>4, <1>5, <2>1
<1>8. QED
  BY <1>6, <1>7

\* After a page, the scan has seen every selected PR that rests and is not
\* behind the new cursor; after the last page, every one.
LEMMA PageSees ==
  ASSUME TypeOK, UpdatesOrdered, ScanSees, NEW r \in Repo, EventPage(r), lastCollectedAt[r] # 0,
         NEW n \in Number, pr[r][n].updated < start, Selected(n, pr[r][n]),
         pc' = "page" => scan'.cursor # 0 /\ pr[r][n].stamp >= scan'.cursor
  PROVE  Seen(r, n)'
<1>1. pc = "page" /\ r = Head(todo)
  BY DEF EventPage
<1>2. n \notin Ahead(r) => Seen(r, n)
  <2> SUFFICES ASSUME n \notin Ahead(r) PROVE Seen(r, n)
    OBVIOUS
  <2>1. pr[r][n].state \in States
    BY DEF Selected
  <2>2. scan.cursor # 0 /\ ~(pr[r][n].stamp < scan.cursor)
    BY <2>1 DEF Ahead
  <2>3. pr[r][n].stamp >= scan.cursor
    BY <2>2, Numbers
  <2>4. QED
    BY <1>1, <2>2, <2>3 DEF ScanSees
<1>3. CASE n \in Page(r) \/ n \notin Ahead(r)
  BY <1>2, <1>3, VisitSees
<1>4. CASE n \in Ahead(r) /\ n \notin Page(r) /\ Last(r) # {}
  <2>1. PICK l \in Last(r) : scan'.cursor = pr[r][l].stamp
    <3>1. scan'.cursor = pr[r][CHOOSE m \in Last(r) : TRUE].stamp
      BY <1>4 DEF EventPage
    <3>2. QED
      BY <1>4, <3>1
  <2>2. l \in Number /\ \A m \in Last(r) : m \in Number /\ pr[r][m].stamp = pr[r][l].stamp
    BY Numbers DEF Last, Page, Ahead
  <2>3. pr[r][n].stamp < pr[r][l].stamp
    BY <1>4, <2>2, PageIsPrefix, Numbers
  <2>4. pc' = "record"
    <3>1. pc' \in {"page", "record"}
      BY DEF EventPage
    <3>2. pc' # "page"
      BY <2>1, <2>2, <2>3, Numbers
    <3>3. QED
      BY <3>1, <3>2
  <2>5. Reached(r)
    BY <1>4, <2>4 DEF EventPage
  <2>6. PICK m \in Last(r) : pr[r][m].updated <= scan.from
    BY <2>5 DEF Reached
  <2>7. pr[r][n].updated <= scan.from
    BY <2>2, <2>3, <2>6, Numbers DEF UpdatesOrdered
  <2>8. \A kind \in Kind : ~(scan.from < EventTime(pr[r][n], kind))
    BY <2>7, Numbers, EventTimeType DEF UpdatesOrdered
  <2>9. UNCHANGED pr /\ scan'.from = scan.from
    BY DEF EventPage, github
  <2>10. QED
    BY <2>8, <2>9 DEF Seen
<1>5. CASE n \in Ahead(r) /\ n \notin Page(r) /\ Last(r) = {}
  <2>1. scan'.cursor = 0
    BY <1>5 DEF EventPage
  <2>2. pc' = "record"
    BY <2>1 DEF EventPage
  <2>3. Reached(r)
    BY <1>5, <2>2 DEF EventPage
  <2>4. QED
    BY <1>5, <2>3 DEF Reached
<1>6. QED
  BY <1>3, <1>4, <1>5

\* What a scan has seen stays seen, and what it found stays shown, while the PRs
\* rest.
LEMMA ScanSeesStep ==
  TypeOK /\ RepoInHand /\ WindowsOrdered /\ UpdatesOrdered /\ ScanSees /\ [Next]_vars => ScanSees'
<1> SUFFICES ASSUME TypeOK, RepoInHand, WindowsOrdered, UpdatesOrdered, ScanSees, [Next]_vars
             PROVE  ScanSees'
  OBVIOUS
<1>1. ASSUME UNCHANGED <<pc, todo, scan, start, lastCollectedAt, windows, pr>> PROVE ScanSees'
  <2>1. \A r \in Repo : ScanFrom(r)' = ScanFrom(r)
    BY <1>1 DEF ScanFrom
  <2>2. \A r \in Repo, n \in Number : Seen(r, n)' = Seen(r, n)
    BY <1>1 DEF Seen
  <2>3. QED
    BY <1>1 DEF ScanSees, Seen, ScanFrom
<1>2. ASSUME pc' \notin {"page", "record"} PROVE ScanSees'
  BY <1>2 DEF ScanSees
<1>3. CASE Tick \/ UNCHANGED vars
  BY <1>1, <1>3 DEF Tick, vars, github, cycle, kept
<1>4. CASE StartCycle \/ DiscoverFails \/ FinishCycle \/ \E repos \in RepoLists : Discover(repos)
  BY <1>2, <1>4 DEF StartCycle, DiscoverFails, FinishCycle, Discover, NextRepo
<1>5. ASSUME NEW r \in Repo, ScanFails(r) \/ RecordRepo(r) PROVE ScanSees'
  BY <1>2, <1>5 DEF ScanFails, RecordRepo, NextRepo
<1>6. ASSUME NEW r \in Repo, OpenScan(r) PROVE ScanSees'
  <2>1. /\ r = Head(todo) /\ UNCHANGED <<todo, start, lastCollectedAt, windows>>
        /\ lastCollectedAt[r] # 0 =>
             pc' = "page" /\ scan' = [NoScan EXCEPT !.from = ScanFrom(r)]
    BY <1>6 DEF OpenScan, cycle, kept
  <2>2. lastCollectedAt[r] # 0 =>
          /\ scan'.from = ScanFrom(r) /\ scan'.cursor = 0
          /\ \A k \in Key : scan'.ev[k] = 0
    BY <2>1 DEF NoScan, NoEvents
  <2>3. ScanFrom(r)' = ScanFrom(r)
    BY <2>1 DEF ScanFrom
  <2>4. QED
    BY <2>1, <2>2, <2>3 DEF ScanSees, Key
<1>7. ASSUME NEW r \in Repo, EventPage(r) PROVE ScanSees'
  <2>1. /\ pc = "page" /\ r = Head(todo) /\ scan'.from = scan.from /\ scan'.ev = VisitPage(r)
        /\ UNCHANGED <<pr, todo, start, lastCollectedAt, windows>>
    BY <1>7 DEF EventPage, github, cycle, kept
  <2>2. SUFFICES ASSUME lastCollectedAt[r] # 0 PROVE ScanSees'
    BY <2>1 DEF ScanSees
  <2>3. scan'.from = ScanFrom(r)'
    BY <2>1, <2>2 DEF ScanSees, ScanFrom
  <2>4. ASSUME NEW n \in Number, pr[r][n].updated < start, NEW kind \in Kind,
               VisitPage(r)[<<n, kind>>] # 0
        PROVE  VisitPage(r)[<<n, kind>>] = EventTime(pr[r][n], kind)
    <3>1. <<n, kind>> \in Key
      BY DEF Key
    <3>2. VisitPage(r)[<<n, kind>>] \in {EventTime(pr[r][n], kind), scan.ev[<<n, kind>>]}
      BY <3>1 DEF VisitPage
    <3>3. scan.ev[<<n, kind>>] # 0 => scan.ev[<<n, kind>>] = EventTime(pr[r][n], kind)
      BY <2>1, <2>2, <2>4 DEF ScanSees
    <3>4. QED
      BY <2>4, <3>2, <3>3
  <2>5. ASSUME NEW n \in Number, pr[r][n].updated < start, Selected(n, pr[r][n]),
               pc' = "page" => scan'.cursor # 0 /\ pr[r][n].stamp >= scan'.cursor
        PROVE  Seen(r, n)'
    BY <1>7, <2>2, <2>5, PageSees
  <2>6. QED
    BY <2>1, <2>3, <2>4, <2>5 DEF ScanSees
<1>8. ASSUME NEW r \in Repo, NEW n \in Number, GitHubStep(r, n) PROVE ScanSees'
  <2> DEFINE s == Head(todo)
  <2>1. UNCHANGED <<pc, todo, scan, start, lastCollectedAt, windows>>
    BY <1>8, GitHubFrame DEF cycle, kept
  <2>2. SUFFICES ASSUME pc \in {"page", "record"}, lastCollectedAt[s] # 0 PROVE ScanSees'
    BY <2>1 DEF ScanSees
  <2>3. scan.from = ScanFrom(s) /\ ScanFrom(s)' = ScanFrom(s)
    BY <2>1, <2>2 DEF ScanSees, ScanFrom
  <2>4. ASSUME NEW m \in Number, pr'[s][m].updated < start PROVE pr'[s][m] = pr[s][m]
    <3>1. pr'[r][n].updated = clock /\ start <= clock
      BY <1>8, GitHubChange DEF WindowsOrdered
    <3>2. s # r \/ m # n
      BY <2>4, <3>1, Numbers
    <3>3. s \in Repo
      BY <2>2 DEF RepoInHand, TypeOK
    <3>4. QED
      BY <1>8, <3>2, <3>3, GitHubChange
  <2>5. ASSUME NEW m \in Number, pr'[s][m] = pr[s][m], Seen(s, m) PROVE Seen(s, m)'
    BY <2>1, <2>5 DEF Seen
  <2>6. QED
    BY <2>1, <2>2, <2>3, <2>4, <2>5 DEF ScanSees
<1>9. QED
  BY <1>3, <1>4, <1>5, <1>6, <1>7, <1>8 DEF Next, CycleStep, RepoStep

-----------------------------------------------------------------------------
(* The promise *)

\* A scan starts where the previous one's reach ends, or at the lookback.
LEMMA ScanFromReach ==
  ASSUME TypeOK, WindowsOrdered, NEW r \in Repo
  PROVE  ScanFrom(r) = Later(Reach(r), start - Lookback)
BY Numbers DEF ScanFrom, Reach, WindowsOrdered

\* Recording a scan leaves every event of its window counted whose PR rests.
LEMMA RecordCovers ==
  ASSUME Inv, LifeOfPR, RememberedCounted, ScanSees, NEW r \in Repo, RecordRepo(r),
         lastCollectedAt[r] # 0, NEW e \in happened, e.repo = r, Standing(e), ~Reclosed(e),
         Reach(r) < e.at, start - Lookback < e.at, e.at <= start, pr[r][e.number].updated < start
  PROVE  tally'[e] = 1
<1> DEFINE n == e.number
           k == <<e.number, e.kind>>
<1>1. e \in Event /\ TypeOK /\ WindowsOrdered /\ [Next]_vars
  BY DEF Inv, TypeOK, Next, CycleStep, RepoStep
<1>2. n \in Number /\ e.kind \in Kind /\ k \in Key /\ e.at \in Nat
  BY <1>1, EventFields
<1>3. pc = "record" /\ r = Head(todo)
  BY DEF RecordRepo
<1>4. scan.from < e.at
  <2>1. scan.from = Later(Reach(r), start - Lookback)
    BY <1>1, <1>3, ScanFromReach DEF ScanSees
  <2>2. QED
    BY <2>1 DEF Later
<1>5. EventTime(pr[r][n], e.kind) = e.at /\ Selected(n, pr[r][n])
  BY DEF Standing
<1>6. scan.ev[k] # 0 \/ windows[r].counted[k] # 0
  <2>1. Seen(r, n)
    BY <1>2, <1>3, <1>5 DEF ScanSees
  <2>2. QED
    BY <1>2, <1>4, <1>5, <2>1 DEF Seen
<1>7. tally'[e] > 0
  <2>1. CASE scan.ev[k] # 0
    <3>1. scan.ev[k] = e.at
      BY <1>2, <1>3, <1>5, <2>1 DEF ScanSees
    <3>2. tally'[e] = tally[e] + 1
      BY <1>1, <3>1 DEF RecordRepo
    <3>3. QED
      BY <1>1, <3>2, TallyGrows
  <2>2. CASE windows[r].counted[k] # 0
    <3> DEFINE f == EventOf(r, n, e.kind, windows[r].counted[k])
    <3>1. f \in happened /\ tally[f] > 0
      BY <1>2, <2>2 DEF RememberedCounted
    <3>2. f.repo = r /\ f.number = n /\ f.kind = e.kind
      BY DEF EventOf
    <3>3. e.kind \in {"created", "merged"} => f.at = e.at
      BY <3>1, <3>2 DEF LifeOfPR
    <3>4. f = [e EXCEPT !.at = f.at]
      BY <1>1 DEF EventOf, Event
    <3>5. e.kind = "closed" => f.at = e.at
      BY <3>1, <3>4 DEF Reclosed
    <3>6. f = e
      BY <1>1, <1>2, <3>3, <3>4, <3>5 DEF Kind, Event
    <3>7. QED
      BY <1>1, <3>1, <3>6, TallyGrows
  <2>3. QED
    BY <1>6, <2>1, <2>2
<1>8. tally'[e] <= 1
  BY <1>1, CountedOnceStep DEF CountedOnce
<1>9. QED
  BY <1>1, <1>7, <1>8, TallyGrows

\* An event promised after a GitHub step was promised before it, unless it is of
\* this moment (or the PR was out of a states filter).
LEMMA PromisedBefore ==
  ASSUME TypeOK, LifeOfPR, NEW r \in Repo, NEW n \in Number, GitHubStep(r, n),
         NEW e \in happened', Promised(e)', e.at # clock
  PROVE  /\ e \in happened
         /\ NoStatesFilter \/ pr'[e.repo][e.number] = pr[e.repo][e.number] => Promised(e)
<1> DEFINE p == pr[e.repo][e.number]
           q == pr'[e.repo][e.number]
<1>1. e \in happened
  BY GitHubChange
<1>2. e \in Event /\ e.repo \in Repo /\ e.number \in Number /\ e.kind \in Kind /\ e.at # 0
  BY <1>1, EventFields DEF TypeOK
<1>3. ~Reclosed(e)
  BY GitHubChange DEF Promised, Reclosed
<1>4. UNCHANGED <<lastCollectedAt, look>>
  BY GitHubFrame DEF kept, metrics
<1>5. EventTime(q, e.kind) = e.at /\ Selected(e.number, q)
  BY DEF Promised, Standing
<1>6. EventTime(p, e.kind) = e.at
  <2>1. q = p \/ (e.repo = r /\ e.number = n)
    BY <1>2, GitHubChange
  <2>2. e.repo = r /\ e.number = n => EventTime(q, e.kind) \in {EventTime(p, e.kind), 0, clock}
    BY <1>2, GitHubChange
  <2>3. QED
    BY <1>2, <1>5, <2>1, <2>2
<1>7. NoStatesFilter => Selected(e.number, p)
  <2>1. p.state \in {"open", "closed", "merged"}
    <3>1. p.state # "none"
      BY <1>1 DEF LifeOfPR
    <3>2. p \in PullRequest
      BY <1>2 DEF TypeOK
    <3>3. QED
      BY <3>1, <3>2 DEF PullRequest
  <2>2. QED
    BY <1>5, <2>1 DEF NoStatesFilter, Selected
<1>8. NoStatesFilter \/ q = p => Standing(e)
  BY <1>5, <1>6, <1>7 DEF Standing
<1>9. lastCollectedAt[e.repo] # 0 /\ look[e.repo].since < e.at
  BY <1>4 DEF Promised
<1>10. QED
  BY <1>1, <1>3, <1>8, <1>9 DEF Promised

\* The history's since only advances, up to the lookback.
LEMMA SinceAdvances ==
  ASSUME TypeOK, NEW r \in Repo, lastCollectedAt[r] # 0
  PROVE  /\ look[r].since <= NextLook(r).since /\ start - Lookback <= NextLook(r).since
         /\ NextLook(r).moved = {n \in Number : pr[r][n].updated >= start}
         /\ NextLook(r).missedTwice = look[r].missedTwice \cup
              {e \in happened : /\ e.repo = r /\ Reach(r) < e.at /\ e.at <= lastCollectedAt[r]
                               /\ pr[r][e.number].updated >= start /\ e.number \in Number
                               /\ (e.number \in look[r].moved \/ e.at = lastCollectedAt[r])}
<1>1. NextLook(r).since = Later(look[r].since, start - Lookback)
  BY DEF NextLook
<1>2. look[r].since <= NextLook(r).since /\ start - Lookback <= NextLook(r).since
  BY <1>1, Numbers, ParameterAssumption DEF Later
<1>3. QED
  BY <1>2 DEF NextLook

\* What the promise is about: nothing of it changes in most steps.
promise == <<pr, happened, tally, lastCollectedAt, windows, look>>

PromiseKept == OverlapKept /\ SettledCounted /\ NotLost

\* A step that touches none of it keeps the promise, and what the cycle owes.
LEMMA PromiseFrame ==
  ASSUME UNCHANGED promise
  PROVE  /\ PromiseKept => PromiseKept'
         /\ \A r \in Repo : UNCHANGED start /\ Recorded(r) => Recorded(r)'
<1>1. \A e : Promised(e)' = Promised(e) /\ \A r \in Repo : Reach(r)' = Reach(r)
  BY DEF promise, Promised, Standing, Reclosed, Reach
<1>2. PromiseKept => PromiseKept'
  BY <1>1 DEF promise, PromiseKept, OverlapKept, SettledCounted, NotLost, Promised, Standing,
     Reclosed, Reach
<1>3. \A r \in Repo : UNCHANGED start /\ Recorded(r) => Recorded(r)'
  BY <1>1 DEF promise, Recorded
<1>4. QED
  BY <1>2, <1>3

\* A GitHub step keeps the promise: what changes is not settled, and what is new
\* is out of the windows, or of a cycle's first second.
LEMMA PromiseGitHub ==
  ASSUME LossInv, NEW r \in Repo, NEW n \in Number, GitHubStep(r, n)
  PROVE  PromiseKept' /\ \A s \in Repo : Recorded(s) => Recorded(s)'
<1>1. /\ TypeOK /\ WindowsOrdered /\ CyclesOrdered /\ LifeOfPR
      /\ OverlapKept /\ SettledCounted /\ NotLost
  BY DEF Inv, LossInv
<1>2. /\ UNCHANGED <<clock, start, tally, lastCollectedAt, windows, look>>
      /\ happened' \in SUBSET Event
  <2>1. TypeOK'
    BY TypeStep DEF Inv, LossInv, Next
  <2>2. QED
    BY <2>1, GitHubFrame DEF cycle, kept, metrics, TypeOK
<1>3. \A s \in Repo : Reach(s)' = Reach(s)
  BY <1>2 DEF Reach
<1>4. \A e \in happened' : e.repo \in Repo /\ e.number \in Number /\ e.at \in Nat
  BY <1>2, EventFields
<1>5. \A s \in Repo : lastCollectedAt[s] <= start /\ start <= clock
  BY <1>1 DEF WindowsOrdered
<1>6. ASSUME NEW e \in happened', Promised(e)', pr'[e.repo][e.number].updated < start
      PROVE  Promised(e) /\ pr'[e.repo][e.number] = pr[e.repo][e.number]
  <2>1. pr'[r][n].updated = clock
    BY <1>1, GitHubChange
  <2>2. e.repo # r \/ e.number # n
    BY <1>1, <1>5, <1>6, <2>1, Numbers
  <2>3. pr'[e.repo][e.number] = pr[e.repo][e.number]
    BY <1>1, <1>4, <2>2, GitHubChange
  <2>4. e.at < start
    <3>1. EventTime(pr'[e.repo][e.number], e.kind) = e.at
      BY <1>6 DEF Promised, Standing
    <3>2. e.kind \in Kind
      BY <1>2, EventFields
    <3>3. e.at <= pr[e.repo][e.number].updated
      BY <1>4, <2>3, <3>1, <3>2 DEF LossInv, UpdatesOrdered
    <3>4. QED
      BY <1>1, <1>4, <1>6, <2>3, <3>3, Numbers
  <2>5. e.at # clock
    BY <1>1, <1>4, <1>5, <2>4, Numbers
  <2>6. QED
    BY <1>1, <1>6, <2>3, <2>5, PromisedBefore
<1>7. ASSUME NoStatesFilter, NEW e \in happened', Promised(e)', e.at # clock
      PROVE  e \in happened /\ Promised(e)
  BY <1>1, <1>7, PromisedBefore
<1>8. OverlapKept'
  <2> SUFFICES ASSUME NoStatesFilter, NEW e \in happened', Promised(e)',
                      Reach(e.repo) < e.at, e.at <= lastCollectedAt[e.repo],
                      e.at # lastCollectedAt[e.repo]
               PROVE  tally[e] = 1 \/ e.number \in look[e.repo].moved
    BY <1>2, <1>3, <1>4 DEF OverlapKept, NoStatesFilter
  <2>1. e.at # clock
    <3>1. /\ lastCollectedAt[e.repo] <= start /\ start <= clock
          /\ e.at \in Nat /\ clock \in Nat /\ start \in Nat /\ lastCollectedAt[e.repo] \in Nat
      BY <1>1, <1>4, <1>5, Numbers
    <3>2. QED
      BY <3>1
  <2>2. QED
    BY <1>1, <1>7, <2>1 DEF OverlapKept
<1>9. SettledCounted'
  <2> SUFFICES ASSUME NEW e \in happened', Promised(e)',
                      Reach(e.repo) < e.at, e.at <= lastCollectedAt[e.repo],
                      pr'[e.repo][e.number].updated < lastCollectedAt[e.repo]
               PROVE  tally[e] = 1
    BY <1>2, <1>3, <1>4 DEF SettledCounted
  <2>1. pr'[e.repo][e.number].updated < start
    <3>1. pr'[e.repo][e.number].updated \in Nat
      <4>1. TypeOK'
        BY TypeStep DEF Inv, LossInv, Next
      <4>2. QED
        BY <1>4, <4>1, ParameterAssumption DEF TypeOK, PullRequest
    <3>2. QED
      BY <1>1, <1>4, <1>5, <3>1, Numbers
  <2>2. Promised(e) /\ pr'[e.repo][e.number] = pr[e.repo][e.number]
    BY <1>6, <2>1
  <2>3. e \in happened
    BY <2>2 DEF Promised
  <2>4. QED
    BY <1>1, <2>2, <2>3 DEF SettledCounted
<1>10. NotLost'
  <2> SUFFICES ASSUME NoStatesFilter, NEW e \in happened', Promised(e)', e.at <= Reach(e.repo)
               PROVE  tally[e] = 1 \/ e \in look[e.repo].missedTwice
    BY <1>2, <1>3, <1>4 DEF NotLost, NoStatesFilter
  <2>1. windows[e.repo] # NoWindow
    <3>1. look[e.repo].since < e.at
      BY <1>2 DEF Promised
    <3>2. QED
      BY <1>1, <1>4, <3>1, Numbers DEF CyclesOrdered, Reach
  <2>2. Reach(e.repo) < start
    BY <1>1, <1>4, <2>1 DEF CyclesOrdered, Reach
  <2>3. e.at # clock
    BY <1>1, <1>4, <1>5, <2>2, Numbers
  <2>4. QED
    BY <1>1, <1>7, <2>3 DEF NotLost
<1>11. ASSUME NEW s \in Repo, Recorded(s) PROVE Recorded(s)'
  <2> SUFFICES ASSUME lastCollectedAt[s] # 0
               PROVE  /\ windows[s].scanFrom = lastCollectedAt[s]
                      /\ \A e \in happened' :
                           e.repo = s /\ Promised(e)' /\ lastCollectedAt[s] < e.at /\ e.at <= start =>
                             /\ pr'[s][e.number].updated < start => tally[e] = 1
                             /\ NoStatesFilter =>
                                  tally[e] = 1 \/ e.number \in look[s].moved \/ e.at = start
    BY <1>2 DEF Recorded, NoStatesFilter
  <2>1. windows[s].scanFrom = lastCollectedAt[s]
    BY <1>11 DEF Recorded
  <2>2. ASSUME NEW e \in happened', e.repo = s, Promised(e)', lastCollectedAt[s] < e.at, e.at <= start
        PROVE  /\ pr'[s][e.number].updated < start => tally[e] = 1
               /\ NoStatesFilter => tally[e] = 1 \/ e.number \in look[s].moved \/ e.at = start
    <3>1. Promised(e) => /\ pr[s][e.number].updated < start => tally[e] = 1
                         /\ NoStatesFilter => tally[e] = 1 \/ e.number \in look[s].moved \/ e.at = start
      BY <1>11, <2>2 DEF Recorded, Promised
    <3>2. pr'[s][e.number].updated < start => tally[e] = 1
      BY <1>6, <2>2, <3>1
    <3>3. e.at = clock => e.at = start
      <4>1. start <= clock /\ start \in Nat /\ clock \in Nat
        BY <1>1, <1>5, Numbers
      <4>2. QED
        BY <2>2, <4>1
    <3>4. NoStatesFilter => tally[e] = 1 \/ e.number \in look[s].moved \/ e.at = start
      BY <1>7, <2>2, <3>1, <3>3
    <3>5. QED
      BY <3>2, <3>4
  <2>3. QED
    BY <2>1, <2>2
<1>12. QED
  BY <1>8, <1>9, <1>10, <1>11 DEF PromiseKept

\* Recording a repo keeps the promise: what leaves the reach of the next scan is
\* counted by this one, unless its PR moved in both.
LEMMA PromiseRecord ==
  ASSUME LossInv, NEW r \in Repo, RecordRepo(r)
  PROVE  PromiseKept' /\ Recorded(r)' /\ \A s \in Repo : Recorded(s) => Recorded(s)'
<1>1. /\ TypeOK /\ WindowsOrdered /\ CyclesOrdered /\ LifeOfPR /\ RememberedCounted /\ ScanSees
      /\ OverlapKept /\ SettledCounted /\ NotLost /\ [Next]_vars
  BY DEF Inv, LossInv, Next, CycleStep, RepoStep
<1>2. /\ UNCHANGED <<pr, happened, start, lastCollectedAt>>
      /\ \A s \in Repo : s # r => windows'[s] = windows[s] /\ look'[s] = look[s]
  BY <1>1, RecordFrame DEF github, cycle
<1>3. \A e \in happened : e \in Event /\ e.repo \in Repo /\ e.number \in Number /\ e.at \in Nat
  BY <1>1, EventFields DEF TypeOK
<1>4. \A e \in happened : tally[e] = 1 => tally'[e] = 1
  <2> SUFFICES ASSUME NEW e \in happened, tally[e] = 1 PROVE tally'[e] = 1
    OBVIOUS
  <2>1. tally'[e] <= 1
    BY <1>1, <1>3, CountedOnceStep DEF CountedOnce, LossInv
  <2>2. QED
    BY <1>1, <1>3, <2>1, TallyGrows
<1>5. \A s \in Repo : s # r => Reach(s)' = Reach(s)
  BY <1>2 DEF Reach
<1>6. ASSUME NEW e \in happened, Promised(e)'
      PROVE  Promised(e)
  <2>1. look[e.repo].since <= look'[e.repo].since
    <3>1. lastCollectedAt[e.repo] # 0
      BY <1>2, <1>6 DEF Promised
    <3>2. CASE e.repo = r
      BY <1>1, <3>1, <3>2, SinceAdvances, RecordFrame
    <3>3. CASE e.repo # r
      BY <1>1, <1>2, <1>3, <3>3, Numbers
    <3>4. QED
      BY <3>2, <3>3
  <2>2. look'[e.repo].since \in Nat
    <3>1. TypeOK'
      BY <1>1, TypeStep DEF Inv, LossInv
    <3>2. QED
      BY <1>3, <3>1, ParameterAssumption DEF TypeOK, Look
  <2>3. look[e.repo].since < e.at
    BY <1>1, <1>2, <1>3, <1>6, <2>1, <2>2, Numbers DEF Promised
  <2>4. QED
    BY <1>2, <1>6, <2>3 DEF Promised, Standing, Reclosed
<1>7. lastCollectedAt[r] = 0 => \A e \in happened : Promised(e)' => e.repo # r
  BY <1>2 DEF Promised
<1>8. lastCollectedAt[r] # 0 => Reach(r)' = lastCollectedAt[r]
  BY <1>1, RecordFrame DEF Reach
<1>9. ASSUME NEW e \in happened, Promised(e)', e.repo = r, Reach(r) < e.at, e.at <= start,
             pr[r][e.number].updated < start
      PROVE  tally'[e] = 1
  <2>1. lastCollectedAt[r] # 0
    BY <1>7, <1>9
  <2>2. start - Lookback < e.at
    <3>1. start - Lookback <= look'[r].since
      BY <1>1, <2>1, SinceAdvances, RecordFrame
    <3>2. look'[r].since < e.at
      BY <1>9 DEF Promised
    <3>3. look'[r].since \in Nat
      <4>1. TypeOK'
        BY <1>1, TypeStep DEF Inv, LossInv
      <4>2. QED
        BY <4>1, ParameterAssumption DEF TypeOK, Look
    <3>4. QED
      BY <1>1, <1>3, <3>1, <3>2, <3>3, Numbers, ParameterAssumption
  <2>3. Standing(e) /\ ~Reclosed(e)
    BY <1>6, <1>9 DEF Promised
  <2>4. QED
    BY <1>1, <1>9, <2>1, <2>2, <2>3, RecordCovers DEF LossInv
<1>10. OverlapKept'
  <2> SUFFICES ASSUME NoStatesFilter, NEW e \in happened, Promised(e)',
                      Reach(e.repo)' < e.at, e.at <= lastCollectedAt[e.repo]
               PROVE  tally'[e] = 1 \/ e.number \in look'[e.repo].moved \/ e.at = lastCollectedAt[e.repo]
    BY <1>2 DEF OverlapKept, NoStatesFilter
  <2>1. e.repo # r
    BY <1>1, <1>3, <1>7, <1>8, Numbers
  <2>2. QED
    BY <1>1, <1>2, <1>3, <1>4, <1>5, <1>6, <2>1 DEF OverlapKept
<1>11. SettledCounted'
  <2> SUFFICES ASSUME NEW e \in happened, Promised(e)',
                      Reach(e.repo)' < e.at, e.at <= lastCollectedAt[e.repo],
                      pr[e.repo][e.number].updated < lastCollectedAt[e.repo]
               PROVE  tally'[e] = 1
    BY <1>2 DEF SettledCounted
  <2>1. e.repo # r
    BY <1>1, <1>3, <1>7, <1>8, Numbers
  <2>2. QED
    BY <1>1, <1>2, <1>3, <1>4, <1>5, <1>6, <2>1 DEF SettledCounted
<1>12. NotLost'
  <2> SUFFICES ASSUME NoStatesFilter, NEW e \in happened, Promised(e)', e.at <= Reach(e.repo)'
               PROVE  tally'[e] = 1 \/ e \in look'[e.repo].missedTwice
    BY <1>2 DEF NotLost, NoStatesFilter
  <2>1. CASE e.repo # r
    BY <1>1, <1>2, <1>3, <1>4, <1>5, <1>6, <2>1 DEF NotLost
  <2>2. CASE e.repo = r
    <3>1. lastCollectedAt[r] # 0 /\ e.at <= lastCollectedAt[r]
      BY <1>7, <1>8, <2>2
    <3>2. look'[r].missedTwice = look[r].missedTwice \cup
            {d \in happened : /\ d.repo = r /\ Reach(r) < d.at /\ d.at <= lastCollectedAt[r]
                             /\ pr[r][d.number].updated >= start /\ d.number \in Number
                             /\ (d.number \in look[r].moved \/ d.at = lastCollectedAt[r])}
      BY <1>1, <3>1, SinceAdvances, RecordFrame
    <3>3. CASE e.at <= Reach(r)
      BY <1>1, <1>4, <1>6, <2>2, <3>2, <3>3 DEF NotLost
    <3>4. CASE Reach(r) < e.at /\ pr[r][e.number].updated < start
      <4>1. e.at <= start
        BY <1>1, <1>3, <2>2, <3>1, Numbers DEF WindowsOrdered
      <4>2. QED
        BY <1>9, <2>2, <3>4, <4>1
    <3>5. CASE Reach(r) < e.at /\ pr[r][e.number].updated >= start
      <4>1. tally[e] = 1 \/ e.number \in look[r].moved \/ e.at = lastCollectedAt[r]
        BY <1>1, <1>6, <2>2, <3>1, <3>5 DEF OverlapKept
      <4>2. QED
        BY <1>3, <1>4, <2>2, <3>1, <3>2, <3>5, <4>1
    <3>6. QED
      BY <1>1, <1>3, <2>2, <3>3, <3>4, <3>5, Numbers
  <2>3. QED
    BY <2>1, <2>2
<1>13. Recorded(r)'
  <2> SUFFICES ASSUME lastCollectedAt[r] # 0
               PROVE  /\ windows'[r].scanFrom = lastCollectedAt[r]
                      /\ \A e \in happened :
                           e.repo = r /\ Promised(e)' /\ lastCollectedAt[r] < e.at /\ e.at <= start =>
                             /\ pr[r][e.number].updated < start => tally'[e] = 1
                             /\ NoStatesFilter =>
                                  tally'[e] = 1 \/ e.number \in look'[r].moved \/ e.at = start
    BY <1>2 DEF Recorded, NoStatesFilter
  <2>1. windows'[r].scanFrom = lastCollectedAt[r]
    BY <1>1, RecordFrame
  <2>2. ASSUME NEW e \in happened, e.repo = r, Promised(e)', lastCollectedAt[r] < e.at, e.at <= start
        PROVE  /\ pr[r][e.number].updated < start => tally'[e] = 1
               /\ pr[r][e.number].updated >= start => e.number \in look'[r].moved
    <3>1. Reach(r) <= lastCollectedAt[r]
      BY <1>1, Numbers DEF Reach, WindowsOrdered
    <3>2. Reach(r) < e.at
      BY <1>1, <1>3, <2>2, <3>1, Numbers
    <3>3. look'[r].moved = {m \in Number : pr[r][m].updated >= start}
      BY <1>1, SinceAdvances, RecordFrame
    <3>4. QED
      BY <1>3, <1>9, <2>2, <3>2, <3>3
  <2>3. \A e \in happened : e.repo = r => pr[r][e.number].updated < start \/ pr[r][e.number].updated >= start
    BY <1>1, <1>3, Numbers
  <2>4. QED
    BY <2>1, <2>2, <2>3
<1>14. ASSUME NEW s \in Repo, s # r, Recorded(s) PROVE Recorded(s)'
  BY <1>2, <1>3, <1>4, <1>6, <1>14 DEF Recorded
<1>15. QED
  BY <1>10, <1>11, <1>12, <1>13, <1>14 DEF PromiseKept

\* The end of a cycle keeps the promise: the window up to its start is the one
\* that its scans owe, and a new repo's window starts now.
LEMMA PromiseFinish ==
  ASSUME LossInv, FinishCycle
  PROVE  PromiseKept'
<1>1. /\ TypeOK /\ WindowsOrdered /\ OverlapKept /\ SettledCounted /\ NotLost
      /\ \A r \in listed : r \in failed \/ Recorded(r)
  BY FinishFrame DEF Inv, LossInv, CycleKeepsPromise
<1>2. UNCHANGED <<pr, happened, start, tally>>
  BY FinishFrame DEF github
<1>3. \A e \in happened : e.repo \in Repo /\ e.number \in Number /\ e.at \in Nat
  BY <1>1, EventFields DEF TypeOK
<1> DEFINE lagging(r) == r \in listed /\ r \in failed
           new(r)     == r \in listed /\ r \notin failed /\ lastCollectedAt[r] = 0
           covered(r) == r \in listed /\ r \notin failed /\ lastCollectedAt[r] # 0
<1>4. ASSUME NEW r \in Repo, lagging(r)
      PROVE  /\ UNCHANGED <<lastCollectedAt[r], look[r], Reach(r)>>
  BY <1>4, FinishFrame DEF Reach
<1>5. ASSUME NEW r \in Repo, new(r)
      PROVE  lastCollectedAt'[r] = start /\ look'[r].since = start /\ Reach(r)' = start
  <2>1. lastCollectedAt'[r] = start /\ windows'[r] = windows[r]
        /\ look'[r] = [look[r] EXCEPT !.since = start]
    BY <1>5, FinishFrame
  <2>2. windows[r] = NoWindow
    BY <1>1, <1>5, WindowTimestamp
  <2>3. look[r] \in Look
    BY <1>1 DEF TypeOK
  <2>4. QED
    BY <2>1, <2>2, <2>3 DEF Reach, Look
<1>6. ASSUME NEW r \in Repo, covered(r)
      PROVE  /\ lastCollectedAt'[r] = start /\ look'[r] = look[r]
             /\ Reach(r)' = lastCollectedAt[r] /\ Reach(r) = lastCollectedAt[r]
  <2>1. lastCollectedAt'[r] = start /\ windows'[r] = windows[r] /\ look'[r] = look[r]
    BY <1>6, FinishFrame
  <2>2. windows[r].scanFrom = lastCollectedAt[r]
    BY <1>1, <1>6 DEF Recorded
  <2>3. windows[r] # NoWindow
    BY <1>6, <2>2 DEF NoWindow
  <2>4. QED
    BY <2>1, <2>2, <2>3 DEF Reach
<1>7. ASSUME NEW e \in happened, Promised(e)'
      PROVE  lagging(e.repo) \/ covered(e.repo) \/ (new(e.repo) /\ start < e.at)
  <2>1. lastCollectedAt'[e.repo] # 0 /\ look'[e.repo].since < e.at
    BY <1>7 DEF Promised
  <2>2. e.repo \in listed
    BY <1>3, <2>1, FinishFrame
  <2>3. QED
    BY <1>3, <1>5, <2>1, <2>2
<1>8. ASSUME NEW e \in happened, Promised(e)', lagging(e.repo) \/ covered(e.repo) PROVE Promised(e)
  <2>1. look'[e.repo] = look[e.repo] /\ (lastCollectedAt[e.repo] # 0 \/ lagging(e.repo))
    BY <1>3, <1>4, <1>6, <1>8
  <2>2. lastCollectedAt[e.repo] # 0
    BY <1>3, <1>4, <1>8, <2>1 DEF Promised
  <2>3. QED
    BY <1>2, <1>8, <2>1, <2>2 DEF Promised, Standing, Reclosed
<1>9. OverlapKept'
  <2> SUFFICES ASSUME NoStatesFilter, NEW e \in happened, Promised(e)',
                      Reach(e.repo)' < e.at, e.at <= lastCollectedAt'[e.repo]
               PROVE  tally[e] = 1 \/ e.number \in look'[e.repo].moved \/ e.at = lastCollectedAt'[e.repo]
    BY <1>2 DEF OverlapKept, NoStatesFilter
  <2>1. CASE lagging(e.repo)
    BY <1>1, <1>3, <1>4, <1>8, <2>1 DEF OverlapKept
  <2>2. CASE covered(e.repo)
    BY <1>1, <1>3, <1>6, <1>8, <2>2 DEF Recorded
  <2>3. CASE new(e.repo) /\ start < e.at
    BY <1>1, <1>3, <1>5, <2>3, Numbers
  <2>4. QED
    BY <1>7, <2>1, <2>2, <2>3
<1>10. SettledCounted'
  <2> SUFFICES ASSUME NEW e \in happened, Promised(e)',
                      Reach(e.repo)' < e.at, e.at <= lastCollectedAt'[e.repo],
                      pr[e.repo][e.number].updated < lastCollectedAt'[e.repo]
               PROVE  tally[e] = 1
    BY <1>2 DEF SettledCounted
  <2>1. CASE lagging(e.repo)
    BY <1>1, <1>3, <1>4, <1>8, <2>1 DEF SettledCounted
  <2>2. CASE covered(e.repo)
    BY <1>1, <1>3, <1>6, <1>8, <2>2 DEF Recorded
  <2>3. CASE new(e.repo) /\ start < e.at
    BY <1>1, <1>3, <1>5, <2>3, Numbers
  <2>4. QED
    BY <1>7, <2>1, <2>2, <2>3
<1>11. NotLost'
  <2> SUFFICES ASSUME NoStatesFilter, NEW e \in happened, Promised(e)', e.at <= Reach(e.repo)'
               PROVE  tally[e] = 1 \/ e \in look'[e.repo].missedTwice
    BY <1>2 DEF NotLost, NoStatesFilter
  <2>1. CASE lagging(e.repo)
    BY <1>1, <1>3, <1>4, <1>8, <2>1 DEF NotLost
  <2>2. CASE covered(e.repo)
    BY <1>1, <1>3, <1>6, <1>8, <2>2 DEF NotLost
  <2>3. CASE new(e.repo) /\ start < e.at
    BY <1>1, <1>3, <1>5, <2>3, Numbers
  <2>4. QED
    BY <1>7, <2>1, <2>2, <2>3
<1>12. QED
  BY <1>9, <1>10, <1>11 DEF PromiseKept

\* Every step keeps the promise.
LEMMA PromiseStep == LossInv /\ [Next]_vars => PromiseKept'
<1> SUFFICES ASSUME LossInv, [Next]_vars PROVE PromiseKept'
  OBVIOUS
<1>1. CASE \E r \in Repo, n \in Number : GitHubStep(r, n)
  BY <1>1, PromiseGitHub
<1>2. CASE \E r \in Repo : RecordRepo(r)
  BY <1>2, PromiseRecord
<1>3. CASE FinishCycle
  BY <1>3, PromiseFinish
<1>4. ASSUME Tick \/ StartCycle \/ (\E repos \in RepoLists : Discover(repos)) \/ DiscoverFails
             \/ (\E r \in Repo : OpenScan(r) \/ EventPage(r) \/ ScanFails(r)) \/ UNCHANGED vars
      PROVE  PromiseKept'
  <2>1. UNCHANGED promise
    BY <1>4 DEF Tick, StartCycle, Discover, DiscoverFails, OpenScan, EventPage, ScanFails, vars,
       promise, github, kept, metrics
  <2>2. QED
    BY <2>1, PromiseFrame DEF LossInv, PromiseKept
<1>5. QED
  BY <1>1, <1>2, <1>3, <1>4 DEF Next, CycleStep, RepoStep

\* What a cycle owes its listed repos stays with those it has recorded.
LEMMA CycleKeepsPromiseStep == LossInv /\ [Next]_vars => CycleKeepsPromise'
<1> SUFFICES ASSUME LossInv, [Next]_vars PROVE CycleKeepsPromise'
  OBVIOUS
<1>0. TypeOK /\ RepoInHand /\ CycleKeepsPromise
  BY DEF Inv, LossInv
<1>1. ASSUME UNCHANGED <<listed, failed, todo>>,
             pc \in {"repo", "page", "record", "finish"},
             pc' \in {"repo", "page", "record"} \/ pc' = pc,
             \A r \in Repo : Recorded(r) => Recorded(r)', pc = "finish" => pc' = "finish"
      PROVE  CycleKeepsPromise'
  <2>1. \A r \in listed : r \in Repo
    BY <1>0 DEF TypeOK
  <2>2. QED
    BY <1>0, <1>1, <2>1 DEF CycleKeepsPromise
<1>2. ASSUME pc' \in {"idle", "discover"} PROVE CycleKeepsPromise'
  BY <1>2 DEF CycleKeepsPromise
<1>3. ASSUME UNCHANGED <<pc, listed, failed, todo>>, \A r \in Repo : Recorded(r) => Recorded(r)'
      PROVE  CycleKeepsPromise'
  <2>1. pc \in {"repo", "page", "record", "finish"} \/ pc \in {"idle", "discover"}
    BY <1>0 DEF TypeOK
  <2>2. QED
    BY <1>1, <1>2, <1>3, <2>1
<1>4. CASE \E r \in Repo, n \in Number : GitHubStep(r, n)
  BY <1>3, <1>4, PromiseGitHub, GitHubFrame DEF cycle
<1>5. CASE Tick \/ UNCHANGED vars
  BY <1>3, <1>5, PromiseFrame DEF Tick, vars, promise, github, cycle, kept, metrics
<1>6. CASE StartCycle \/ DiscoverFails \/ FinishCycle
  BY <1>2, <1>6 DEF StartCycle, DiscoverFails, FinishCycle
<1>7. ASSUME NEW repos \in RepoLists, Discover(repos) PROVE CycleKeepsPromise'
  <2>1. /\ todo' = repos /\ listed' = {repos[i] : i \in DOMAIN repos}
        /\ pc' = IF repos = <<>> THEN "finish" ELSE "repo"
    BY <1>7 DEF Discover, NextRepo
  <2>2. repos \in Seq(Repo) /\ DOMAIN repos = 1 .. Len(repos)
    BY <1>7, ParameterAssumption
  <2>3. CASE repos = <<>>
    <3>1. listed' = {}
      BY <2>1, <2>3
    <3>2. QED
      BY <3>1 DEF CycleKeepsPromise
  <2>4. CASE repos # <<>>
    BY <2>1, <2>2, <2>4 DEF CycleKeepsPromise
  <2>5. QED
    BY <2>3, <2>4
<1>8. ASSUME NEW r \in Repo, OpenScan(r) \/ EventPage(r) PROVE CycleKeepsPromise'
  <2>1. /\ UNCHANGED promise /\ UNCHANGED <<start, listed, failed, todo>>
        /\ pc \in {"repo", "page"} /\ pc' \in {"page", "record"}
    BY <1>8 DEF OpenScan, EventPage, promise, github, cycle, kept, metrics
  <2>2. QED
    BY <1>1, <2>1, PromiseFrame
<1>9. ASSUME NEW r \in Repo, r = Head(todo), pc \in {"repo", "page", "record"},
             pc' = NextRepo(Tail(todo)), todo' = Tail(todo), UNCHANGED listed,
             failed \subseteq failed', r \in failed' \/ Recorded(r)',
             \A s \in Repo : Recorded(s) => Recorded(s)'
      PROVE  CycleKeepsPromise'
  <2>1. todo # <<>> /\ todo \in Seq(Repo) /\ Tail(todo) \in Seq(Repo)
    BY <1>0, <1>9 DEF RepoInHand, TypeOK
  <2>2. ASSUME NEW s \in listed, NEW i \in 1 .. Len(todo), todo[i] = s, s # r
        PROVE  pc' # "finish" /\ \E j \in 1 .. Len(todo') : todo'[j] = s
    <3>1. i # 1
      BY <1>9, <2>1, <2>2
    <3>2. i - 1 \in 1 .. Len(Tail(todo)) /\ Tail(todo)[i - 1] = s
      BY <2>1, <2>2, <3>1
    <3>3. Tail(todo) # <<>>
      BY <2>1, <3>2, HasElement
    <3>4. QED
      BY <1>9, <3>2, <3>3 DEF NextRepo
  <2>3. \A s \in listed : s \in Repo
    BY <1>0 DEF TypeOK
  <2>4. \A s \in listed : s \in failed \/ Recorded(s) \/ \E i \in 1 .. Len(todo) : todo[i] = s
    BY <1>0, <1>9 DEF CycleKeepsPromise
  <2>5. QED
    BY <1>9, <2>2, <2>3, <2>4 DEF CycleKeepsPromise
<1>10. ASSUME NEW r \in Repo, ScanFails(r) PROVE CycleKeepsPromise'
  <2>1. UNCHANGED promise /\ UNCHANGED <<start, listed>>
    BY <1>10 DEF ScanFails, promise, github, cycle, kept, metrics
  <2>2. QED
    BY <1>9, <1>10, <2>1, PromiseFrame DEF ScanFails
<1>11. ASSUME NEW r \in Repo, RecordRepo(r) PROVE CycleKeepsPromise'
  BY <1>9, <1>11, PromiseRecord DEF RecordRepo, cycle
<1>12. QED
  BY <1>4, <1>5, <1>6, <1>7, <1>8, <1>10, <1>11 DEF Next, CycleStep, RepoStep

\* The invariant holds initially.
LEMMA LossInvInit == Init => LossInv
<1> SUFFICES ASSUME Init PROVE LossInv
  OBVIOUS
<1>1. Inv
  BY InvInit
<1>2. happened = {} /\ pc = "idle"
  BY DEF Init
<1>3. LifeOfPR /\ OverlapKept /\ SettledCounted /\ NotLost /\ CycleKeepsPromise /\ ScanSees
  BY <1>2 DEF LifeOfPR, OverlapKept, SettledCounted, NotLost, CycleKeepsPromise, ScanSees
<1>4. CyclesOrdered
  BY DEF Init, CyclesOrdered, NoLook
<1>5. UpdatesOrdered
  BY DEF Init, UpdatesOrdered, NoPR, EventTime
<1>6. RememberedCounted
  BY DEF Init, RememberedCounted, NoWindow, NoEvents, Key
<1>7. QED
  BY <1>1, <1>3, <1>4, <1>5, <1>6 DEF LossInv

\* Every step preserves it.
LEMMA LossInvStep == LossInv /\ [Next]_vars => LossInv'
BY InvStep, CyclesOrderedStep, UpdatesOrderedStep, LifeOfPRStep, RememberedCountedStep, ScanSeesStep,
   PromiseStep, CycleKeepsPromiseStep DEF Inv, LossInv, PromiseKept

\* The invariant holds in every reachable state.
THEOREM LossInvariant == Spec => []LossInv
<1>1. QED
  BY LossInvInit, LossInvStep, PTL DEF Spec

-----------------------------------------------------------------------------
(* What follows from it *)

\* Every event of a repo's last window was counted when its PR rests since that
\* cycle began (README.md:259), with any filter, page size and lookback, and
\* however many cycles fail in between.
THEOREM SettledEventsCounted == Spec => []SettledCounted
<1>1. LossInv => SettledCounted
  BY DEF LossInv
<1>2. QED
  BY <1>1, LossInvariant, PTL

\* Without a states filter, an event that no later scan can see was counted, or
\* its PR was updated during both scans that could see it (pr.go:458-459).
THEOREM EventsNotLost == Spec => []NotLost
<1>1. LossInv => NotLost
  BY DEF LossInv
<1>2. QED
  BY <1>1, LossInvariant, PTL
=============================================================================
