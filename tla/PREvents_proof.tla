--------------------------- MODULE PREvents_proof ---------------------------
(***************************************************************************)
(* Proofs about PREvents: the inductive invariant Inv, from which no event *)
(* is counted twice, only real events are counted, series precede events   *)
(* and the exporter implements EventLedger, for every choice of repos,     *)
(* pull requests, page size, lookback, filters and repo lists.             *)
(***************************************************************************)
EXTENDS PREvents, TLAPS

\* nextWindow and the page visit build counted maps from times of counted maps.
LEMMA NextWindowType ==
  ASSUME NEW since \in 0 .. MaxClock,
         NEW counted \in [Key -> 0 .. MaxClock], NEW ev \in [Key -> 0 .. MaxClock]
  PROVE  NextWindow(since, counted, ev)
           \in Window
BY ParameterAssumption DEF NextWindow, Window

\* A PR's event times are times, or 0.
LEMMA EventTimeType ==
  ASSUME TypeOK, NEW r \in Repo, NEW n \in Number, NEW kind \in Kind
  PROVE  EventTime(pr[r][n], kind) \in 0 .. MaxClock
BY ParameterAssumption DEF EventTime, TypeOK, Kind, PullRequest

\* The empty window and scan are well typed.
LEMMA EmptyType ==
  /\ NoEvents \in [Key -> 0 .. MaxClock]
  /\ NoWindow \in Window
  /\ NoLook \in Look
  /\ NoScan \in Scan
BY ParameterAssumption DEF NoEvents, NoWindow, NoLook, NoScan, Stamp, Window, Scan, Look

\* A scan starts within the clock's range, and not before what the window or,
\* without one, the timestamp of the repo says.
LEMMA ScanFromBounds ==
  ASSUME TypeOK, NEW r \in Repo
  PROVE  /\ ScanFrom(r) \in 0 .. MaxClock
         /\ windows[r] = NoWindow => lastCollectedAt[r] <= ScanFrom(r)
         /\ windows[r] # NoWindow /\ windows[r].scanFrom <= lastCollectedAt[r]
              => windows[r].scanFrom <= ScanFrom(r)
<1> DEFINE since == lastCollectedAt[r]
           from == IF windows[r] # NoWindow /\ windows[r].scanFrom < since
                   THEN windows[r].scanFrom ELSE since
<1>1. since \in 0 .. MaxClock /\ windows[r].scanFrom \in 0 .. MaxClock /\ start \in 0 .. MaxClock
  BY DEF TypeOK, Window
<1>2. from \in 0 .. MaxClock
  BY <1>1
<1>3. ScanFrom(r) = Later(from, start - Lookback)
  BY DEF ScanFrom
<1>4. Later(from, start - Lookback) \in 0 .. MaxClock /\ from <= Later(from, start - Lookback)
  BY <1>1, <1>2, ParameterAssumption DEF Later
<1>5. QED
  BY <1>1, <1>3, <1>4

\* A page's visit keeps the event times typed.
LEMMA VisitPageType ==
  ASSUME TypeOK, NEW r \in Repo
  PROVE  VisitPage(r) \in [Key -> 0 .. MaxClock]
<1>1. ASSUME NEW k \in Key
      PROVE  (IF Counts(r, k) THEN EventTime(pr[r][k[1]], k[2]) ELSE scan.ev[k]) \in 0 .. MaxClock
  <2>1. k[1] \in Number /\ k[2] \in Kind
    BY DEF Key
  <2>2. scan.ev[k] \in 0 .. MaxClock
    BY DEF TypeOK, Scan
  <2>3. QED
    BY <2>1, <2>2, EventTimeType
<1>2. QED
  BY <1>1 DEF VisitPage

-----------------------------------------------------------------------------
(* Type correctness *)

\* An update leaves every PR well formed and adds well formed events.
LEMMA UpdateType ==
  ASSUME TypeOK, NEW r \in Repo, NEW n \in Number,
         NEW state \in {"none", "open", "closed", "merged"},
         NEW created \in 0 .. MaxClock, NEW ended \in 0 .. MaxClock,
         NEW kinds \in SUBSET Kind, Update(r, n, state, created, ended, kinds)
  PROVE  TypeOK'
<1>1. updates + 1 \in Stamp /\ updates' \in Stamp /\ clock \in 0 .. MaxClock /\ clock \in Time
  BY ParameterAssumption DEF TypeOK, Update, Stamp, Time
<1>2. pr' \in [Repo -> [Number -> PullRequest]]
  BY <1>1 DEF TypeOK, Update, PullRequest
<1>3. happened' \in SUBSET Event
  BY <1>1 DEF TypeOK, Update, Event, EventOf
<1>4. QED
  BY <1>1, <1>2, <1>3 DEF TypeOK, Update, cycle, kept, metrics

\* The initial state is type correct.
LEMMA TypeInit == Init => TypeOK
<1> SUFFICES ASSUME Init PROVE TypeOK
  OBVIOUS
<1>1. 0 \in Stamp /\ 0 \in 0 .. MaxClock /\ 1 \in Time
  BY ParameterAssumption DEF Stamp, Time
<1>2. NoPR \in PullRequest
  BY <1>1 DEF NoPR, PullRequest
<1>3. QED
  BY <1>1, <1>2, EmptyType DEF Init, TypeOK

\* Every step preserves the types.
LEMMA TypeStep == TypeOK /\ RepoInHand /\ [Next]_vars => TypeOK'
<1> SUFFICES ASSUME TypeOK, RepoInHand, [Next]_vars PROVE TypeOK'
  OBVIOUS
<1> USE ParameterAssumption
<1>1. CASE Tick
  BY <1>1 DEF Tick, TypeOK, Time, github, cycle, kept, metrics
<1>2. ASSUME NEW r \in Repo, NEW n \in Number, GitHubStep(r, n)
      PROVE  TypeOK'
  <2>1. /\ pr[r][n].state \in {"none", "open", "closed", "merged"}
        /\ pr[r][n].created \in 0 .. MaxClock /\ pr[r][n].ended \in 0 .. MaxClock
        /\ clock \in 0 .. MaxClock /\ 0 \in 0 .. MaxClock
    BY DEF TypeOK, Time, PullRequest
  <2>2. CASE OpenPR(r, n)
    BY <2>1, <2>2, UpdateType DEF OpenPR, Kind
  <2>3. CASE MergePR(r, n)
    BY <2>1, <2>3, UpdateType DEF MergePR, Kind
  <2>4. CASE ClosePR(r, n)
    BY <2>1, <2>4, UpdateType DEF ClosePR, Kind
  <2>5. CASE ReopenPR(r, n)
    BY <2>1, <2>5, UpdateType DEF ReopenPR
  <2>6. CASE TouchPR(r, n)
    BY <2>1, <2>6, UpdateType DEF TouchPR
  <2>7. QED
    BY <1>2, <2>2, <2>3, <2>4, <2>5, <2>6 DEF GitHubStep
<1>3. CASE StartCycle
  BY <1>3 DEF StartCycle, TypeOK, Time, github, kept, metrics
<1>4. ASSUME NEW repos \in RepoLists, Discover(repos) PROVE TypeOK'
  <2>1. repos \in Seq(Repo)
    OBVIOUS
  <2>2. listed' \in SUBSET Repo
    BY <1>4, <2>1 DEF Discover
  <2>3. QED
    <3>1. pc' \in {"repo", "finish"}
      BY <1>4 DEF Discover, NextRepo
    <3>2. todo' \in Seq(Repo) /\ failed' \in SUBSET Repo
      BY <1>4, <2>1 DEF Discover
    <3>3. UNCHANGED <<clock, pr, updates, happened, start, wakeAt, scan, lastCollectedAt, windows,
                      tally, series, autoSeries, look>>
      BY <1>4 DEF Discover, github, kept, metrics
    <3>4. QED
      BY <2>2, <3>1, <3>2, <3>3 DEF TypeOK
<1>5. CASE DiscoverFails
  BY <1>5 DEF DiscoverFails, TypeOK, Time, github, kept, metrics
<1>6. ASSUME NEW r \in Repo, OpenScan(r) PROVE TypeOK'
  <2>1. NoScan \in Scan /\ [NoScan EXCEPT !.from = ScanFrom(r)] \in Scan
    BY EmptyType, ScanFromBounds DEF Scan
  <2>2. scan' \in Scan
    BY <1>6, <2>1 DEF OpenScan
  <2>3. QED
    BY <1>6, <2>2 DEF OpenScan, TypeOK, github, cycle, kept, metrics
<1>7. ASSUME NEW r \in Repo, EventPage(r) PROVE TypeOK'
  <2> DEFINE last == Last(r)
             cursor == IF last = {} THEN 0 ELSE pr[r][CHOOSE n \in last : TRUE].stamp
  <2>1. last \subseteq Number
    BY DEF Last, Page, Ahead
  <2>2. cursor \in Stamp
    <3>1. CASE last = {}
      BY <3>1 DEF Stamp
    <3>2. CASE last # {}
      <4>1. (CHOOSE n \in last : TRUE) \in Number
        BY <2>1, <3>2
      <4>2. QED
        BY <3>2, <4>1 DEF TypeOK, PullRequest
    <3>3. QED
      BY <3>1, <3>2
  <2>3. scan' = [from |-> scan.from, cursor |-> cursor, ev |-> VisitPage(r)]
    BY <1>7 DEF EventPage
  <2>4. scan' \in Scan
    <3> HIDE DEF cursor
    <3> QED
    BY <2>2, <2>3, VisitPageType DEF TypeOK, Scan
  <2>5. pc' \in {"page", "record"}
    BY <1>7 DEF EventPage
  <2>6. QED
    BY <1>7, <2>4, <2>5 DEF EventPage, TypeOK, github, cycle, kept, metrics
<1>8. ASSUME NEW r \in Repo, ScanFails(r) PROVE TypeOK'
  <2>1. Tail(todo) \in Seq(Repo)
    BY <1>8 DEF ScanFails, TypeOK, RepoInHand
  <2>2. QED
    BY <1>8, <2>1, EmptyType DEF ScanFails, TypeOK, NextRepo, github, cycle, kept, metrics
<1>9. ASSUME NEW r \in Repo, RecordRepo(r) PROVE TypeOK'
  <2>1. Tail(todo) \in Seq(Repo)
    BY <1>9 DEF RecordRepo, TypeOK, RepoInHand
  <2>2. tally' \in [Event -> Nat]
    BY <1>9 DEF RecordRepo, TypeOK
  <2>3. windows' \in [Repo -> Window]
    <3>1. NextWindow(lastCollectedAt[r], windows[r].counted, scan.ev)
            \in Window
      BY NextWindowType DEF TypeOK, Window, Scan
    <3>2. QED
      BY <1>9, <3>1 DEF RecordRepo, TypeOK
  <2>4. look' \in [Repo -> Look]
    <3>1. NextLook(r) \in Look
      <4>1. look[r] \in Look /\ start \in 0 .. MaxClock /\ happened \in SUBSET Event
        BY DEF TypeOK
      <4>2. Later(look[r].since, start - Lookback) \in 0 .. MaxClock
        BY <4>1 DEF Look, Later
      <4>3. QED
        BY <4>1, <4>2 DEF NextLook, Look
    <3>2. QED
      BY <1>9, <3>1 DEF RecordRepo, TypeOK
  <2>5. series' \in SUBSET Repo /\ autoSeries' \in SUBSET Repo
    BY <1>9 DEF RecordRepo, TypeOK, AddedSeries
  <2>6. pc' \in {"repo", "finish"}
    BY <1>9 DEF RecordRepo, NextRepo
  <2>7. QED
    BY <1>9, <2>1, <2>2, <2>3, <2>4, <2>5, <2>6, EmptyType
       DEF RecordRepo, TypeOK, github, cycle
<1>10. CASE FinishCycle
  <2>1. windows' \in [Repo -> Window]
    BY <1>10, EmptyType DEF FinishCycle, TypeOK
  <2>2. lastCollectedAt' \in [Repo -> 0 .. MaxClock]
    BY <1>10 DEF FinishCycle, TypeOK, NextTimestamp
  <2>3. look' \in [Repo -> Look]
    <3>1. ASSUME NEW r \in Repo PROVE [look[r] EXCEPT !.since = start] \in Look
      BY DEF TypeOK, Look
    <3>2. QED
      BY <1>10, <3>1, EmptyType DEF FinishCycle, TypeOK
  <2>4. wakeAt' \in Nat /\ pc' = "idle"
    BY <1>10 DEF FinishCycle, TypeOK, Time
  <2>5. QED
    BY <1>10, <2>1, <2>2, <2>3, <2>4 DEF FinishCycle, TypeOK, github
<1>11. CASE UNCHANGED vars
  BY <1>11 DEF vars, TypeOK, github, cycle, kept, metrics
<1>12. QED
  BY <1>1, <1>2, <1>3, <1>4, <1>5, <1>6, <1>7, <1>8, <1>9, <1>10, <1>11
     DEF Next, CycleStep, RepoStep

\* While a repo is collected there is one in the list.
LEMMA RepoInHandStep == TypeOK /\ RepoInHand /\ [Next]_vars => RepoInHand'
<1> SUFFICES ASSUME TypeOK, RepoInHand, [Next]_vars PROVE RepoInHand'
  OBVIOUS
<1>1. CASE Tick
  BY <1>1 DEF Tick, RepoInHand
<1>2. ASSUME NEW r \in Repo, NEW n \in Number, GitHubStep(r, n) PROVE RepoInHand'
  BY <1>2 DEF GitHubStep, OpenPR, MergePR, ClosePR, ReopenPR, TouchPR, Update, RepoInHand
<1>3. CASE StartCycle
  BY <1>3 DEF StartCycle, RepoInHand
<1>4. ASSUME NEW repos \in RepoLists, Discover(repos) PROVE RepoInHand'
  BY <1>4 DEF Discover, NextRepo, RepoInHand
<1>5. CASE DiscoverFails
  BY <1>5 DEF DiscoverFails, RepoInHand
<1>6. ASSUME NEW r \in Repo, RepoStep(r) PROVE RepoInHand'
  BY <1>6 DEF RepoStep, OpenScan, EventPage, ScanFails, RecordRepo, NextRepo, RepoInHand
<1>7. CASE FinishCycle
  BY <1>7 DEF FinishCycle, RepoInHand
<1>8. CASE UNCHANGED vars
  BY <1>8 DEF vars, RepoInHand
<1>9. QED
  BY <1>1, <1>2, <1>3, <1>4, <1>5, <1>6, <1>7, <1>8 DEF Next, CycleStep

\* Every variable keeps its type (and a repo is in hand while one is collected).
THEOREM TypeCorrect == Spec => []TypeOK
<1>1. Init => TypeOK /\ RepoInHand
  BY TypeInit DEF Init, RepoInHand
<1>2. TypeOK /\ RepoInHand /\ [Next]_vars => (TypeOK /\ RepoInHand)'
  BY TypeStep, RepoInHandStep
<1>3. QED
  BY <1>1, <1>2, PTL DEF Spec

-----------------------------------------------------------------------------
(* The inductive invariant *)

\* A GitHub step changes only the PRs, and events never unhappen.
LEMMA GitHubFrame ==
  ASSUME NEW r \in Repo, NEW n \in Number, GitHubStep(r, n)
  PROVE  /\ happened \subseteq happened'
         /\ UNCHANGED <<clock, pc, cycle, todo, failed, scan, kept, metrics>>
BY DEF GitHubStep, OpenPR, MergePR, ClosePR, ReopenPR, TouchPR, Update

\* The next window starts at the previous timestamp.
LEMMA NextWindowFrom ==
  ASSUME NEW since \in 0 .. MaxClock, since # 0, NEW counted, NEW ev
  PROVE  /\ NextWindow(since, counted, ev).scanFrom = since
         /\ NextWindow(since, counted, ev) # NoWindow
BY DEF NextWindow, NoWindow

\* Windows, timestamps and cycle starts stay in order.
LEMMA WindowsOrderedStep ==
  TypeOK /\ WindowsOrdered /\ [Next]_vars => WindowsOrdered'
<1> SUFFICES ASSUME TypeOK, WindowsOrdered, [Next]_vars PROVE WindowsOrdered'
  OBVIOUS
<1>0. /\ clock \in Nat /\ start \in Nat
      /\ \A r \in Repo : lastCollectedAt[r] \in Nat /\ windows[r].scanFrom \in Nat
  BY ParameterAssumption DEF TypeOK, Time, Window
<1>1. CASE Tick
  BY <1>0, <1>1 DEF Tick, WindowsOrdered, cycle, kept
<1>2. ASSUME NEW r \in Repo, NEW n \in Number, GitHubStep(r, n) PROVE WindowsOrdered'
  BY <1>2, GitHubFrame DEF WindowsOrdered, cycle, kept
<1>3. CASE StartCycle
  BY <1>0, <1>3 DEF StartCycle, WindowsOrdered, kept
<1>4. ASSUME NEW repos \in RepoLists, Discover(repos) PROVE WindowsOrdered'
  BY <1>4 DEF Discover, WindowsOrdered, kept
<1>5. CASE DiscoverFails
  BY <1>5 DEF DiscoverFails, WindowsOrdered, kept
<1>6. ASSUME NEW r \in Repo, OpenScan(r) \/ EventPage(r) \/ ScanFails(r) PROVE WindowsOrdered'
  BY <1>6 DEF OpenScan, EventPage, ScanFails, WindowsOrdered, cycle, kept
<1>7. ASSUME NEW r \in Repo, RecordRepo(r) PROVE WindowsOrdered'
  <2>1. UNCHANGED <<clock, start, lastCollectedAt>>
    BY <1>7 DEF RecordRepo, cycle
  <2>2. CASE lastCollectedAt[r] = 0
    BY <1>7, <2>1, <2>2 DEF RecordRepo, WindowsOrdered
  <2>3. CASE lastCollectedAt[r] # 0
    <3>1. windows'[r].scanFrom = lastCollectedAt[r]
      BY <1>7, <2>3, NextWindowFrom DEF RecordRepo, TypeOK
    <3>2. \A s \in Repo : s # r => windows'[s] = windows[s]
      BY <1>7, <2>3 DEF RecordRepo, TypeOK
    <3>3. QED
      BY <1>0, <2>1, <2>3, <3>1, <3>2 DEF WindowsOrdered
  <2>4. QED
    BY <2>2, <2>3
<1>8. CASE FinishCycle
  BY <1>0, <1>8 DEF FinishCycle, WindowsOrdered, NextTimestamp
<1>9. CASE UNCHANGED vars
  BY <1>9 DEF vars, WindowsOrdered, cycle, kept
<1>10. QED
  BY <1>1, <1>2, <1>3, <1>4, <1>5, <1>6, <1>7, <1>8, <1>9 DEF Next, CycleStep, RepoStep

\* What a PR shows has happened, also after it changes.
LEMMA VisibleHappenedStep ==
  TypeOK /\ VisibleHappened /\ [Next]_vars => VisibleHappened'
<1> SUFFICES ASSUME TypeOK, VisibleHappened, [Next]_vars PROVE VisibleHappened'
  OBVIOUS
<1>1. ASSUME UNCHANGED github PROVE VisibleHappened'
  BY <1>1 DEF github, VisibleHappened
<1>2. ASSUME NEW r \in Repo, NEW n \in Number, GitHubStep(r, n) PROVE VisibleHappened'
  <2>1. \A s \in Repo, m \in Number : <<s, m>> # <<r, n>> => pr'[s][m] = pr[s][m]
    <3>1. ASSUME NEW state, NEW created, NEW ended, NEW kinds, Update(r, n, state, created, ended, kinds),
                 NEW s \in Repo, NEW m \in Number, <<s, m>> # <<r, n>>
          PROVE  pr'[s][m] = pr[s][m]
      <4>1. CASE s # r
        BY <3>1, <4>1 DEF Update, TypeOK
      <4>2. CASE s = r /\ m # n
        BY <3>1, <4>2 DEF Update, TypeOK
      <4>3. QED
        BY <3>1, <4>1, <4>2
    <3>2. QED
      BY <1>2, <3>1 DEF GitHubStep, OpenPR, MergePR, ClosePR, ReopenPR, TouchPR
  <2>2. ASSUME NEW kind \in Kind, EventTime(pr'[r][n], kind) # 0
        PROVE  EventOf(r, n, kind, EventTime(pr'[r][n], kind)) \in happened'
    <3> DEFINE was == EventTime(pr[r][n], kind)
               now == EventTime(pr'[r][n], kind)
    <3>1. was # 0 => EventOf(r, n, kind, was) \in happened'
      BY <1>2, GitHubFrame DEF VisibleHappened
    <3>2. CASE OpenPR(r, n)
      BY <2>2, <3>2 DEF OpenPR, Update, EventTime, TypeOK, Kind
    <3>3. CASE MergePR(r, n)
      <4>1. /\ pr'[r][n].state = "merged" /\ pr'[r][n].ended = clock
            /\ pr'[r][n].created = pr[r][n].created
            /\ EventOf(r, n, "merged", clock) \in happened'
        BY <3>3 DEF MergePR, Update, TypeOK
      <4>2. QED
        BY <2>2, <3>1, <4>1 DEF EventTime, Kind
    <3>4. CASE ClosePR(r, n)
      <4>1. /\ pr'[r][n].state = "closed" /\ pr'[r][n].ended = clock
            /\ pr'[r][n].created = pr[r][n].created
            /\ EventOf(r, n, "closed", clock) \in happened'
        BY <3>4 DEF ClosePR, Update, TypeOK
      <4>2. QED
        BY <2>2, <3>1, <4>1 DEF EventTime, Kind
    <3>5. CASE ReopenPR(r, n)
      <4>1. pr'[r][n].state = "open" /\ pr'[r][n].created = pr[r][n].created
        BY <3>5 DEF ReopenPR, Update, TypeOK
      <4>2. QED
        BY <2>2, <3>1, <4>1 DEF EventTime, Kind
    <3>6. CASE TouchPR(r, n)
      <4>1. /\ pr'[r][n].state = pr[r][n].state /\ pr'[r][n].ended = pr[r][n].ended
            /\ pr'[r][n].created = pr[r][n].created
        BY <3>6 DEF TouchPR, Update, TypeOK
      <4>2. now = was
        BY <4>1 DEF EventTime
      <4>3. QED
        BY <2>2, <3>1, <4>2
    <3>7. QED
      BY <1>2, <3>2, <3>3, <3>4, <3>5, <3>6 DEF GitHubStep
  <2>3. ASSUME NEW s \in Repo, NEW m \in Number, NEW kind \in Kind,
               EventTime(pr'[s][m], kind) # 0
        PROVE  EventOf(s, m, kind, EventTime(pr'[s][m], kind)) \in happened'
    <3>1. CASE s = r /\ m = n
      BY <2>2, <2>3, <3>1
    <3>2. CASE <<s, m>> # <<r, n>>
      <4>1. pr'[s][m] = pr[s][m]
        BY <2>1, <3>2
      <4>2. happened \subseteq happened'
        BY <1>2, GitHubFrame
      <4>3. QED
        BY <2>3, <4>1, <4>2 DEF VisibleHappened
    <3>3. QED
      BY <3>1, <3>2
  <2>4. QED
    BY <2>3 DEF VisibleHappened, EventTime
<1>3. QED
  BY <1>1, <1>2 DEF Next, CycleStep, RepoStep, Tick, StartCycle, Discover, DiscoverFails,
     OpenScan, EventPage, ScanFails, RecordRepo, FinishCycle, vars

\* A sequence with an element is not empty.
LEMMA HasElement ==
  ASSUME NEW S, NEW q \in Seq(S), NEW j \in 1 .. Len(q)
  PROVE  q # <<>>
OBVIOUS

\* Collected repos keep their series, and listed ones get theirs or fail.
LEMMA SeriesInvStep ==
  TypeOK /\ RepoInHand /\ SeriesInv /\ [Next]_vars => SeriesInv'
<1> SUFFICES ASSUME TypeOK, RepoInHand, SeriesInv, [Next]_vars PROVE SeriesInv'
  OBVIOUS
<1>1. CASE Tick
  BY <1>1 DEF Tick, SeriesInv, cycle, kept, metrics
<1>2. ASSUME NEW r \in Repo, NEW n \in Number, GitHubStep(r, n) PROVE SeriesInv'
  BY <1>2, GitHubFrame DEF SeriesInv, cycle, kept, metrics
<1>3. CASE StartCycle
  BY <1>3 DEF StartCycle, SeriesInv, kept, metrics
<1>4. ASSUME NEW repos \in RepoLists, Discover(repos) PROVE SeriesInv'
  <2>1. repos \in Seq(Repo)
    BY ParameterAssumption
  <2>2. /\ todo' = repos /\ listed' = {repos[i] : i \in 1 .. Len(repos)}
        /\ pc' = IF repos = <<>> THEN "finish" ELSE "repo"
        /\ UNCHANGED <<lastCollectedAt, series>>
    BY <1>4, <2>1 DEF Discover, NextRepo, kept, metrics
  <2>3. CASE repos = <<>>
    BY <2>2, <2>3 DEF SeriesInv
  <2>4. CASE repos # <<>>
    BY <2>2, <2>4 DEF SeriesInv
  <2>5. QED
    BY <2>3, <2>4
<1>5. CASE DiscoverFails
  BY <1>5 DEF DiscoverFails, SeriesInv, kept, metrics
<1>6. ASSUME NEW r \in Repo, OpenScan(r) \/ EventPage(r) PROVE SeriesInv'
  BY <1>6 DEF OpenScan, EventPage, SeriesInv, cycle, kept, metrics
<1>7. ASSUME NEW r \in Repo, r = Head(todo), todo' = Tail(todo), pc \in {"repo", "page", "record"},
             pc' = NextRepo(Tail(todo)), UNCHANGED <<listed, lastCollectedAt>>,
             series \subseteq series', failed \subseteq failed', r \in series' \/ r \in failed'
      PROVE  SeriesInv'
  <2>1. todo \in Seq(Repo) /\ todo # <<>> /\ Tail(todo) \in Seq(Repo)
    BY <1>7 DEF TypeOK, RepoInHand
  <2>2. ASSUME NEW s \in listed, s \notin failed', s \notin series'
        PROVE  Tail(todo) # <<>> /\ \E i \in 1 .. Len(Tail(todo)) : Tail(todo)[i] = s
    <3>1. PICK i \in 1 .. Len(todo) : todo[i] = s
      BY <1>7, <2>2 DEF SeriesInv
    <3>2. i # 1
      BY <1>7, <2>1, <2>2, <3>1
    <3>3. i - 1 \in 1 .. Len(Tail(todo)) /\ Tail(todo)[i - 1] = s
      BY <2>1, <3>1, <3>2
    <3>4. Tail(todo) # <<>>
      BY <2>1, <3>3, HasElement
    <3>5. QED
      BY <3>3, <3>4
  <2>3. QED
    BY <1>7, <2>2 DEF SeriesInv, NextRepo
<1>8. ASSUME NEW r \in Repo, ScanFails(r) PROVE SeriesInv'
  BY <1>7, <1>8 DEF ScanFails, cycle, kept, metrics
<1>9. ASSUME NEW r \in Repo, RecordRepo(r) PROVE SeriesInv'
  BY <1>7, <1>9 DEF RecordRepo, cycle, AddedSeries
<1>10. CASE FinishCycle
  <2>1. \A r \in Repo : lastCollectedAt'[r] = IF r \notin listed THEN 0
                                             ELSE IF r \in failed THEN lastCollectedAt[r]
                                             ELSE start
    BY <1>10 DEF FinishCycle, NextTimestamp
  <2>2. \A r \in listed : r \in failed \/ r \in series
    BY <1>10 DEF FinishCycle, SeriesInv
  <2>3. pc' = "idle" /\ series' = series
    BY <1>10 DEF FinishCycle, metrics
  <2>4. QED
    BY <2>1, <2>2, <2>3 DEF SeriesInv
<1>11. CASE UNCHANGED vars
  BY <1>11 DEF vars, SeriesInv, cycle, kept, metrics
<1>12. QED
  BY <1>1, <1>2, <1>3, <1>4, <1>5, <1>6, <1>8, <1>9, <1>10, <1>11 DEF Next, CycleStep, RepoStep

\* What a scan has found stays in its window, new and real.
LEMMA ScanInvStep ==
  TypeOK /\ WindowsOrdered /\ VisibleHappened /\ ScanInv /\ [Next]_vars => ScanInv'
<1> SUFFICES ASSUME TypeOK, WindowsOrdered, VisibleHappened, ScanInv, [Next]_vars PROVE ScanInv'
  OBVIOUS
<1>1. ASSUME happened \subseteq happened',
             UNCHANGED <<pc, start, todo, scan, lastCollectedAt, windows>>
      PROVE  ScanInv'
  <2>1. \A r : ScanFound(r) => ScanFound(r)'
    BY <1>1 DEF ScanFound
  <2>2. QED
    BY <1>1, <2>1 DEF ScanInv
<1>2. ASSUME pc' \notin {"page", "record"} PROVE ScanInv'
  BY <1>2 DEF ScanInv
<1>3. ASSUME NEW r \in Repo, NEW n \in Number, GitHubStep(r, n) PROVE ScanInv'
  BY <1>1, <1>3, GitHubFrame DEF cycle, kept
<1>4. CASE Tick
  BY <1>1, <1>4 DEF Tick, github, cycle, kept
<1>5. CASE StartCycle \/ DiscoverFails \/ FinishCycle \/ \E repos \in RepoLists : Discover(repos)
  BY <1>2, <1>5 DEF StartCycle, DiscoverFails, FinishCycle, Discover, NextRepo
<1>6. ASSUME NEW r \in Repo, OpenScan(r) PROVE ScanInv'
  <2>1. r = Head(todo) /\ UNCHANGED <<start, todo, lastCollectedAt, windows, happened>>
    BY <1>6 DEF OpenScan, cycle, kept, github
  <2>2. CASE lastCollectedAt[r] = 0
    BY <1>6, <2>1, <2>2 DEF OpenScan, ScanInv, NoScan
  <2>3. CASE lastCollectedAt[r] # 0
    <3>1. pc' = "page" /\ scan'.from = ScanFrom(r) /\ scan'.ev = NoEvents
      BY <1>6, <2>3 DEF OpenScan, NoScan
    <3>2. \A n \in Number, kind \in Kind : scan'.ev[<<n, kind>>] = 0
      BY <3>1 DEF NoEvents, Key
    <3>3. ScanFound(r)'
      BY <2>1, <3>1, <3>2, ScanFromBounds DEF ScanFound, WindowsOrdered
    <3>4. QED
      BY <2>1, <2>3, <3>1, <3>3 DEF ScanInv
  <2>4. QED
    BY <2>2, <2>3
<1>7. ASSUME NEW r \in Repo, EventPage(r) PROVE ScanInv'
  <2>1. /\ r = Head(todo) /\ pc' \in {"page", "record"}
        /\ UNCHANGED <<start, todo, lastCollectedAt, windows, happened>>
        /\ scan'.from = scan.from /\ scan'.ev = VisitPage(r)
        /\ lastCollectedAt[r] # 0 /\ ScanFound(r)
    BY <1>7 DEF EventPage, cycle, kept, github, ScanInv
  <2>2. ASSUME NEW n \in Number, NEW kind \in Kind, scan'.ev[<<n, kind>>] # 0
        PROVE  /\ scan.from < scan'.ev[<<n, kind>>] /\ scan'.ev[<<n, kind>>] <= start
               /\ windows[r].counted[<<n, kind>>] = 0
               /\ EventOf(r, n, kind, scan'.ev[<<n, kind>>]) \in happened
    <3> DEFINE k == <<n, kind>>
    <3>1. k \in Key /\ k[1] = n /\ k[2] = kind
      BY DEF Key
    <3>2. CASE Counts(r, k)
      <4>1. scan'.ev[k] = EventTime(pr[r][n], kind)
        BY <2>1, <3>1, <3>2 DEF VisitPage
      <4>2. /\ EventTime(pr[r][n], kind) > scan.from /\ EventTime(pr[r][n], kind) <= start
            /\ windows[r].counted[k] = 0
        BY <3>1, <3>2 DEF Counts
      <4>3. EventTime(pr[r][n], kind) # 0 /\ EventTime(pr[r][n], kind) \in 0 .. MaxClock
        BY <2>2, <4>1, EventTimeType
      <4>4. EventOf(r, n, kind, EventTime(pr[r][n], kind)) \in happened
        BY <4>3 DEF VisibleHappened
      <4>5. scan.from \in 0 .. MaxClock
        BY DEF TypeOK, Scan
      <4>6. QED
        BY <4>1, <4>2, <4>3, <4>4, <4>5
    <3>3. CASE ~Counts(r, k)
      <4>1. scan'.ev[k] = scan.ev[k]
        BY <2>1, <3>1, <3>3 DEF VisitPage
      <4>2. QED
        BY <2>1, <2>2, <4>1 DEF ScanFound
    <3>4. QED
      BY <3>2, <3>3
  <2>3. ScanFound(r)'
    BY <2>1, <2>2 DEF ScanFound
  <2>4. QED
    BY <2>1, <2>3 DEF ScanInv
<1>8. ASSUME NEW r \in Repo, ScanFails(r) \/ RecordRepo(r) PROVE ScanInv'
  BY <1>2, <1>8 DEF ScanFails, RecordRepo, NextRepo
<1>9. CASE UNCHANGED vars
  BY <1>1, <1>9 DEF vars, github, cycle, kept
<1>10. QED
  BY <1>3, <1>4, <1>5, <1>6, <1>7, <1>8, <1>9 DEF Next, CycleStep, RepoStep

\* Recording a scan counts each found event once more, and it was not counted.
LEMMA RecordCounts ==
  ASSUME TypeOK, WindowsOrdered, ScanInv, CountedRemembered,
         NEW r \in Repo, RecordRepo(r), NEW e \in Event, tally'[e] # tally[e]
  PROVE  /\ lastCollectedAt[r] # 0
         /\ tally[e] = 0 /\ tally'[e] = 1
         /\ e.repo = r /\ scan.ev[<<e.number, e.kind>>] = e.at
         /\ e \in happened /\ e.at <= start
<1>1. /\ e.repo = r /\ scan.ev[<<e.number, e.kind>>] = e.at /\ tally'[e] = tally[e] + 1
  BY DEF RecordRepo
<1>2. /\ e.number \in Number /\ e.kind \in Kind /\ e.at \in Nat /\ e.at # 0
      /\ e = EventOf(e.repo, e.number, e.kind, e.at)
  BY ParameterAssumption DEF Event, EventOf, Time
<1>3. r = Head(todo) /\ pc = "record"
  BY DEF RecordRepo
<1>4. lastCollectedAt[r] # 0
  BY <1>1, <1>2, <1>3 DEF ScanInv, NoEvents, Key
<1>5. ScanFound(r)
  BY <1>3, <1>4 DEF ScanInv
<1>6. /\ scan.from < e.at /\ e.at <= start
      /\ windows[r].counted[<<e.number, e.kind>>] = 0
      /\ e \in happened
  BY <1>1, <1>2, <1>5 DEF ScanFound
<1>7. tally[e] = 0
  <2>1. /\ tally[e] \in Nat /\ scan.from \in Nat
        /\ lastCollectedAt[r] \in Nat /\ windows[r].scanFrom \in Nat
    BY <1>1 DEF TypeOK, Window, Scan
  <2>2. SUFFICES ASSUME tally[e] > 0 PROVE FALSE
    BY <2>1
  <2>3. IF windows[r] = NoWindow
        THEN lastCollectedAt[r] # 0 => e.at <= lastCollectedAt[r]
        ELSE e.at <= windows[r].scanFrom \/ windows[r].counted[<<e.number, e.kind>>] = e.at
    BY <1>1, <2>2 DEF CountedRemembered
  <2>4. IF windows[r] = NoWindow THEN lastCollectedAt[r] <= scan.from
                                 ELSE windows[r].scanFrom <= scan.from
    BY <1>5 DEF ScanFound
  <2>5. QED
    BY <1>2, <1>4, <1>6, <2>1, <2>3, <2>4
<1>8. QED
  BY <1>1, <1>4, <1>6, <1>7

\* A counted event is behind the next scan or remembered.
LEMMA CountedRememberedStep ==
  TypeOK /\ WindowsOrdered /\ ScanInv /\ CountedRemembered /\ [Next]_vars => CountedRemembered'
<1> SUFFICES ASSUME TypeOK, WindowsOrdered, ScanInv, CountedRemembered, [Next]_vars
             PROVE  CountedRemembered'
  OBVIOUS
<1>0. /\ clock \in Nat /\ start \in Nat /\ start <= clock
      /\ \A r \in Repo : lastCollectedAt[r] \in Nat /\ windows[r].scanFrom \in Nat
      /\ \A e \in Event : e.repo \in Repo /\ e.at \in Nat /\ e.at # 0 /\ <<e.number, e.kind>> \in Key
  BY ParameterAssumption DEF TypeOK, Time, Event, WindowsOrdered, Key, Window
<1>1. ASSUME start <= start', happened \subseteq happened', start' \in Nat,
             UNCHANGED <<tally, lastCollectedAt, windows>>
      PROVE  CountedRemembered'
  BY <1>0, <1>1 DEF CountedRemembered
<1>2. ASSUME NEW r \in Repo, NEW n \in Number, GitHubStep(r, n) PROVE CountedRemembered'
  BY <1>0, <1>1, <1>2, GitHubFrame DEF cycle, kept, metrics
<1>3. CASE StartCycle
  BY <1>0, <1>1, <1>3 DEF StartCycle, github, kept, metrics
<1>4. CASE Tick \/ DiscoverFails \/ \E repos \in RepoLists : Discover(repos)
  BY <1>0, <1>1, <1>4 DEF Tick, DiscoverFails, Discover, github, cycle, kept, metrics
<1>5. ASSUME NEW r \in Repo, OpenScan(r) \/ EventPage(r) \/ ScanFails(r)
      PROVE  CountedRemembered'
  BY <1>0, <1>1, <1>5 DEF OpenScan, EventPage, ScanFails, github, cycle, kept, metrics
<1>6. ASSUME NEW r \in Repo, RecordRepo(r) PROVE CountedRemembered'
  <2>1. UNCHANGED <<start, happened, lastCollectedAt>>
    BY <1>6 DEF RecordRepo, github, cycle
  <2>2. ASSUME NEW e \in Event, tally'[e] > 0
        PROVE  /\ e.at <= start /\ e \in happened
               /\ IF windows'[e.repo] = NoWindow
                  THEN lastCollectedAt[e.repo] # 0 => e.at <= lastCollectedAt[e.repo]
                  ELSE \/ e.at <= windows'[e.repo].scanFrom
                       \/ windows'[e.repo].counted[<<e.number, e.kind>>] = e.at
    <3> DEFINE k == <<e.number, e.kind>>
               since == lastCollectedAt[r]
    <3>1. e.at <= start /\ e \in happened
      BY <1>6, <2>2, RecordCounts DEF CountedRemembered
    <3>2. CASE e.repo # r \/ since = 0
      <4>1. windows'[e.repo] = windows[e.repo]
        BY <1>0, <1>6, <3>2 DEF RecordRepo, TypeOK
      <4>2. tally'[e] = tally[e]
        BY <1>6, <3>2, RecordCounts
      <4>3. QED
        BY <2>2, <3>1, <4>1, <4>2 DEF CountedRemembered
    <3>3. CASE e.repo = r /\ since # 0
      <4>1. windows'[r] = NextWindow(since, windows[r].counted, scan.ev)
        BY <1>6, <3>3 DEF RecordRepo, TypeOK
      <4>2. /\ windows'[r] # NoWindow /\ windows'[r].scanFrom = since
            /\ windows'[r].counted[k] = IF scan.ev[k] > since THEN scan.ev[k]
                                        ELSE IF windows[r].counted[k] > since
                                        THEN windows[r].counted[k] ELSE 0
        <5>1. since \in 0 .. MaxClock
          BY DEF TypeOK
        <5>2. windows'[r] # NoWindow /\ windows'[r].scanFrom = since
          BY <3>3, <4>1, <5>1, NextWindowFrom
        <5>3. k \in Key
          BY <1>0
        <5>4. QED
          BY <4>1, <5>2, <5>3 DEF NextWindow
      <4>3. since \in Nat /\ e.at \in Nat /\ scan.ev[k] \in Nat /\ windows[r].counted[k] \in Nat
        BY <1>0 DEF TypeOK, Window, Scan
      <4>4. CASE tally'[e] # tally[e]
        <5>1. scan.ev[k] = e.at
          BY <1>6, <4>4, RecordCounts
        <5>2. QED
          BY <3>1, <3>3, <4>2, <4>3, <5>1
      <4>5. CASE tally'[e] = tally[e]
        <5>1. IF windows[r] = NoWindow
              THEN e.at <= since
              ELSE e.at <= windows[r].scanFrom \/ windows[r].counted[k] = e.at
          BY <2>2, <3>3, <4>5 DEF CountedRemembered
        <5>2. windows[r] # NoWindow => windows[r].scanFrom <= since
          BY DEF WindowsOrdered
        <5>3. windows[r].counted[k] = e.at => scan.ev[k] = 0
          <6>1. ScanFound(r)
            BY <1>6, <3>3 DEF RecordRepo, ScanInv
          <6>2. e.number \in Number /\ e.kind \in Kind
            BY DEF Event
          <6>3. QED
            BY <1>0, <6>1, <6>2 DEF ScanFound
        <5>4. CASE e.at <= since
          BY <3>1, <3>3, <4>2, <5>4
        <5>5. CASE e.at > since
          <6>1. windows[r].counted[k] = e.at
            BY <1>0, <4>3, <5>1, <5>2, <5>5
          <6>2. windows'[r].counted[k] = e.at
            BY <4>2, <4>3, <5>3, <5>5, <6>1
          <6>3. QED
            BY <3>1, <3>3, <4>2, <6>2
        <5>6. QED
          BY <4>3, <5>4, <5>5
      <4>6. QED
        BY <4>4, <4>5
    <3>4. QED
      BY <3>2, <3>3
  <2>3. QED
    BY <2>1, <2>2 DEF CountedRemembered
<1>7. CASE FinishCycle
  <2>1. /\ UNCHANGED <<start, happened, tally>>
        /\ \A r \in Repo : windows'[r] = IF r \in listed THEN windows[r] ELSE NoWindow
        /\ \A r \in Repo : lastCollectedAt'[r] = IF r \notin listed THEN 0
                                                ELSE IF r \in failed THEN lastCollectedAt[r]
                                                ELSE start
    BY <1>7 DEF FinishCycle, github, metrics, NextTimestamp
  <2>2. QED
    BY <1>0, <2>1 DEF CountedRemembered
<1>8. CASE UNCHANGED vars
  BY <1>0, <1>1, <1>8 DEF vars, github, cycle, kept, metrics
<1>9. QED
  BY <1>2, <1>3, <1>4, <1>5, <1>6, <1>7, <1>8 DEF Next, CycleStep, RepoStep

\* The inductive invariant holds initially.
LEMMA InvInit == Init => Inv
<1> SUFFICES ASSUME Init PROVE Inv
  OBVIOUS
<1>1. TypeOK
  BY TypeInit
<1>2. WindowsOrdered /\ CountedRemembered /\ CountedOnce
  BY DEF Init, WindowsOrdered, CountedRemembered, CountedOnce
<1>3. RepoInHand /\ ScanInv /\ SeriesInv
  BY DEF Init, RepoInHand, ScanInv, SeriesInv
<1>4. VisibleHappened
  BY DEF Init, VisibleHappened, EventTime, NoPR
<1>5. AutomergedSeries
  BY DEF Init, AutomergedSeries
<1>6. QED
  BY <1>1, <1>2, <1>3, <1>4, <1>5 DEF Inv

\* Only RecordRepo touches the counters.
LEMMA TallyFrame ==
  ASSUME [Next]_vars, ~ \E r \in Repo : RecordRepo(r)
  PROVE  UNCHANGED <<tally, series, autoSeries>>
<1>1. ASSUME NEW r \in Repo, NEW n \in Number, GitHubStep(r, n)
      PROVE  UNCHANGED <<tally, series, autoSeries>>
  BY <1>1, GitHubFrame DEF metrics
<1>2. QED
  BY <1>1 DEF Next, CycleStep, RepoStep, Tick, StartCycle, Discover, DiscoverFails,
     OpenScan, EventPage, ScanFails, FinishCycle, vars, metrics

\* A recording step adds the automerged series with the merge that it counts.
LEMMA AutomergedSeriesStep ==
  TypeOK /\ AutomergedSeries /\ [Next]_vars => AutomergedSeries'
<1> SUFFICES ASSUME TypeOK, AutomergedSeries, [Next]_vars PROVE AutomergedSeries'
  OBVIOUS
<1> DEFINE auto(e) == e.kind = "merged" /\ e.number \in Unreviewed
<1>1. ASSUME NEW r \in Repo, RecordRepo(r) PROVE AutomergedSeries'
  <2>1. /\ scan.ev \in [Number \X Kind -> 0 .. MaxClock]
        /\ tally \in [Event -> Nat] /\ autoSeries \subseteq Repo
    BY DEF TypeOK, Scan, Key
  <2>2. \A e \in Event :
          tally'[e] = IF e.repo = r /\ scan.ev[<<e.number, e.kind>>] = e.at
                      THEN tally[e] + 1 ELSE tally[e]
    BY <1>1 DEF RecordRepo
  <2>3. ASSUME NEW s \in autoSeries'
        PROVE  s \in Repo /\ \E e \in Event : e.repo = s /\ auto(e) /\ tally'[e] > 0
    <3>1. CASE s \in autoSeries
      <4>1. PICK e \in Event : e.repo = s /\ auto(e) /\ tally[e] > 0
        BY <3>1 DEF AutomergedSeries
      <4>2. tally[e] \in Nat /\ (tally'[e] = tally[e] \/ tally'[e] = tally[e] + 1)
        BY <2>1, <2>2
      <4>3. tally'[e] > 0
        BY <4>1, <4>2
      <4> QED BY <2>1, <3>1, <4>1, <4>3
    <3>2. CASE s \notin autoSeries
      <4>1. s = r /\ \E n \in Unreviewed \cap Number : scan.ev[<<n, "merged">>] # 0
        BY <1>1, <2>3, <3>2 DEF RecordRepo
      <4>2. PICK n \in Unreviewed \cap Number : scan.ev[<<n, "merged">>] # 0
        BY <4>1
      <4> DEFINE e == EventOf(r, n, "merged", scan.ev[<<n, "merged">>])
      <4>3. e \in Event /\ e.repo = r /\ auto(e) /\ scan.ev[<<e.number, e.kind>>] = e.at
        BY <2>1, <4>2, ParameterAssumption DEF EventOf, Event, Time, Kind, ParameterAssumption
      <4>4. tally'[e] > 0
        <5> HIDE DEF e
        <5> QED BY <2>1, <2>2, <4>3
      <4> QED BY <4>1, <4>3, <4>4
    <3> QED BY <3>1, <3>2
  <2>4. ASSUME NEW e \in Event, auto(e), tally'[e] > 0 PROVE e.repo \in autoSeries'
    <3>1. CASE tally[e] > 0
      <4>1. e.repo \in autoSeries
        BY <2>4, <3>1 DEF AutomergedSeries, Event
      <4> QED BY <1>1, <4>1 DEF RecordRepo
    <3>2. CASE ~(tally[e] > 0)
      <4>1. e.repo = r /\ scan.ev[<<e.number, "merged">>] = e.at
        BY <2>1, <2>2, <2>4, <3>2
      <4>2. e.number \in Unreviewed \cap Number /\ e.at # 0
        BY <2>4 DEF Event, Time
      <4> QED BY <1>1, <4>1, <4>2 DEF RecordRepo
    <3> QED BY <3>1, <3>2
  <2> QED BY <2>3, <2>4 DEF AutomergedSeries
<1>2. CASE ~ \E r \in Repo : RecordRepo(r)
  BY <1>2, TallyFrame DEF AutomergedSeries
<1> QED BY <1>1, <1>2

\* No step counts an event a second time.
LEMMA CountedOnceStep == Inv /\ [Next]_vars => CountedOnce'
<1> SUFFICES ASSUME Inv, [Next]_vars PROVE CountedOnce'
  OBVIOUS
<1>1. ASSUME NEW r \in Repo, RecordRepo(r), NEW e \in Event PROVE tally'[e] <= 1
  <2>1. tally'[e] # tally[e] => tally'[e] = 1
    BY <1>1, RecordCounts DEF Inv
  <2>2. tally[e] <= 1
    BY DEF Inv, CountedOnce
  <2>3. QED
    BY <2>1, <2>2
<1>2. CASE ~ \E r \in Repo : RecordRepo(r)
  BY <1>2, TallyFrame DEF Inv, CountedOnce
<1>3. QED
  BY <1>1, <1>2 DEF CountedOnce

\* Every step preserves the inductive invariant.
LEMMA InvStep == Inv /\ [Next]_vars => Inv'
BY TypeStep, RepoInHandStep, WindowsOrderedStep, VisibleHappenedStep, ScanInvStep,
   SeriesInvStep, AutomergedSeriesStep, CountedRememberedStep, CountedOnceStep DEF Inv

\* The inductive invariant holds in every reachable state.
THEOREM Invariant == Spec => []Inv
<1>1. QED
  BY InvInit, InvStep, PTL DEF Spec

-----------------------------------------------------------------------------
(* What follows from it *)

\* No event is added to a counter twice, in any run: pr.go:317.
THEOREM NoDoubleCount == Spec => []CountedOnce
<1>1. Inv => CountedOnce
  BY DEF Inv
<1>2. QED
  BY <1>1, Invariant, PTL

\* The counters never count an event that did not occur.
THEOREM CountsAreReal == Spec => []OnlyRealEvents
<1>1. Inv => OnlyRealEvents
  BY DEF Inv, CountedRemembered, OnlyRealEvents
<1>2. QED
  BY <1>1, Invariant, PTL

\* A recording step finds the repo's series, and adds new real events to it.
LEMMA RecordFindsSeries ==
  ASSUME Inv, NEW r \in Repo, RecordRepo(r), NEW e \in Event, tally'[e] # tally[e]
  PROVE  e.repo = r /\ r \in series
BY RecordCounts DEF Inv, SeriesInv

\* A repo's series exist before its first event is added to them.
THEOREM SeriesExistFirst == Spec => SeriesBeforeEvents
<1>1. Inv /\ [Next]_vars => [\A e \in Event : tally'[e] > tally[e] => e.repo \in series]_vars
  <2> SUFFICES ASSUME Inv, [Next]_vars, NEW e \in Event, tally'[e] > tally[e]
               PROVE  e.repo \in series
    OBVIOUS
  <2>1. tally[e] \in Nat /\ tally'[e] # tally[e]
    BY DEF Inv, TypeOK
  <2>2. PICK r \in Repo : RecordRepo(r)
    BY <2>1, TallyFrame
  <2>3. QED
    BY <2>1, <2>2, RecordFindsSeries
<1>2. QED
  BY <1>1, Invariant, PTL DEF Spec, SeriesBeforeEvents

\* The exporter implements the counters' promise: every step counts uncounted
\* events of one repo whose series exist, or lets events occur, or stutters.
THEOREM Implementation == Spec => ImplementsLedger
<1>1. Init => Ledger!Init
  BY DEF Init, Ledger!Init, Event, Ledger!Event
<1>2. Inv /\ [Next]_vars => [Ledger!Next]_Ledger!vars
  <2> SUFFICES ASSUME Inv, [Next]_vars PROVE [Ledger!Next]_Ledger!vars
    OBVIOUS
  <2>1. CASE ~ \E r \in Repo : RecordRepo(r)
    <3>1. UNCHANGED <<tally, series>>
      BY <2>1, TallyFrame
    <3>2. happened \subseteq happened'
      <4>1. ASSUME NEW r \in Repo, NEW n \in Number, GitHubStep(r, n)
            PROVE  happened \subseteq happened'
        BY <4>1, GitHubFrame
      <4>2. QED
        BY <2>1, <4>1 DEF Next, CycleStep, RepoStep, Tick, StartCycle, Discover, DiscoverFails,
           OpenScan, EventPage, ScanFails, FinishCycle, vars, github
    <3>3. QED
      BY <3>1, <3>2 DEF Ledger!Next, Ledger!Occur
  <2>2. ASSUME NEW r \in Repo, RecordRepo(r) PROVE Ledger!Next
    <3> DEFINE new == {e \in Event : tally'[e] # tally[e]}
    <3>1. new \in SUBSET Ledger!Uncounted(r)
      BY <2>2, RecordCounts DEF Inv, Ledger!Uncounted
    <3>2. new # {} => r \in series
      BY <2>2, RecordFindsSeries
    <3>3. tally' = [e \in Event |-> IF e \in new THEN 1 ELSE tally[e]]
      <4>1. tally' \in [Event -> Nat]
        BY TypeStep DEF Inv, TypeOK
      <4>2. \A e \in Event : tally'[e] = IF e \in new THEN 1 ELSE tally[e]
        BY <2>2, RecordCounts DEF Inv
      <4>3. QED
        BY <4>1, <4>2
    <3>4. series' = series \cup {r} /\ UNCHANGED happened
      BY <2>2 DEF RecordRepo, github, AddedSeries
    <3>5. Ledger!Count(r, new)
      BY <3>2, <3>3, <3>4 DEF Ledger!Count, Ledger!Event, Event
    <3>6. QED
      BY <3>1, <3>5 DEF Ledger!Next
  <2>3. QED
    BY <2>1, <2>2
<1>3. QED
  BY <1>1, <1>2, Invariant, PTL DEF Spec, ImplementsLedger, Ledger!Spec
=============================================================================
