------------------------------ MODULE PREvents ------------------------------
(***************************************************************************)
(* How one target turns pull requests into the created / merged / closed   *)
(* event counters: PRCollector.Collect and its event scan                  *)
(* (internal/collector/pr.go), with the part of Runner.collect that        *)
(* advances lastCollectedAt (internal/collector/runner.go), running        *)
(* against a GitHub whose pull requests change while the scan pages.       *)
(*                                                                         *)
(* Time is counted in GitHub's timestamp resolution; several updates may   *)
(* carry the same timestamp.  0 stands for Go's zero time.                 *)
(***************************************************************************)
EXTENDS Integers, FiniteSets, Sequences

CONSTANTS
  Repo,         \* repositories, by FullName
  Number,       \* pull request numbers
  States,       \* filters.prs.states: the PR states that are selected
  Foreign,      \* PRs an immutable filter (author, head branch) rejects
  Unreviewed,   \* PRs that never get an APPROVED review
  RepoLists,    \* the lists RepoSource.Repos may return
  PageSize,     \* PRs per GraphQL page (100 in the query)
  Lookback,     \* LookbackDays, in clock units
  Interval,     \* the pause between two cycles, in clock units
  MaxClock,     \* bound: the clock stops here
  MaxUpdates    \* bound: the number of PR updates on GitHub

Kind  == {"created", "merged", "closed"}
Key   == Number \X Kind                    \* eventKey
Time  == 1 .. MaxClock
Stamp == 0 .. MaxUpdates
Event == [repo : Repo, number : Number, kind : Kind, at : Time]

ASSUME ParameterAssumption ==
  /\ MaxClock \in Nat \ {0} /\ MaxUpdates \in Nat
  /\ PageSize \in Nat \ {0} /\ Lookback \in Nat \ {0} /\ Interval \in Nat \ {0}
  /\ RepoLists \subseteq Seq(Repo)
  /\ IsFiniteSet(Number)

VARIABLES
  \* GitHub
  clock,            \* the current time
  pr,               \* every PR's current fields
  updates,          \* updates so far: each stamps its PR, newest = largest
  happened,         \* history: every event that ever occurred
  \* the runner's cycle
  pc,               \* what the target's goroutine does next
  start,            \* start of the current (or last) cycle: Collect's until
  wakeAt,           \* end of the pause between cycles
  todo,             \* repos the current Collect has still to visit
  listed,           \* repos of the current cycle
  failed,           \* repos whose collection failed in the current cycle
  scan,             \* the event scan in progress
  \* state kept across cycles
  lastCollectedAt,  \* per repo, 0 when missing from the map
  windows,          \* per repo, NoWindow when missing from the map
  \* what was exported
  tally,            \* how often each event was added to its counter
  series,           \* repos whose created/merged/closed series exist
  autoSeries,       \* repos whose automerged series exists
  look              \* history: what the scans of each repo could see

github  == <<pr, updates, happened>>
cycle   == <<start, wakeAt, listed>>
kept    == <<lastCollectedAt, windows>>
metrics == <<tally, series, autoSeries, look>>
vars    == <<clock, github, pc, cycle, todo, failed, scan, kept, metrics>>

-----------------------------------------------------------------------------
(* GitHub *)

EventOf(r, n, kind, t) == [repo |-> r, number |-> n, kind |-> kind, at |-> t]

NoPR == [state |-> "none", created |-> 0, ended |-> 0, updated |-> 0, stamp |-> 0]

\* The time of a PR's event of a kind, 0 when it has no such event.  closedAt
\* is cleared on reopening; a merged PR only counts as merged.
EventTime(p, kind) ==
  IF kind = "created" THEN p.created
  ELSE IF p.state = kind THEN p.ended ELSE 0

\* match: the client-side filter, on the PR's current state.
Selected(n, p) == n \notin Foreign /\ p.state \in States

\* Every change of a PR sets updatedAt and moves it to the front of the
\* UPDATED_AT order.
Update(r, n, state, created, ended, kinds) ==
  /\ updates < MaxUpdates
  /\ updates' = updates + 1
  /\ pr' = [pr EXCEPT ![r][n] = [state |-> state, created |-> created, ended |-> ended,
                                 updated |-> clock, stamp |-> updates + 1]]
  /\ happened' = happened \cup {EventOf(r, n, k, clock) : k \in kinds}
  /\ UNCHANGED <<clock, pc, cycle, todo, failed, scan, kept, metrics>>

OpenPR(r, n) ==
  /\ pr[r][n].state = "none"
  /\ Update(r, n, "open", clock, 0, {"created"})

MergePR(r, n) ==
  /\ pr[r][n].state = "open"
  /\ Update(r, n, "merged", pr[r][n].created, clock, {"merged"})

ClosePR(r, n) ==
  /\ pr[r][n].state = "open"
  /\ Update(r, n, "closed", pr[r][n].created, clock, {"closed"})

ReopenPR(r, n) ==
  /\ pr[r][n].state = "closed"
  /\ Update(r, n, "open", pr[r][n].created, 0, {})

\* A comment, a label, a push: updatedAt changes and no event happens.
TouchPR(r, n) ==
  /\ pr[r][n].state # "none"
  /\ Update(r, n, pr[r][n].state, pr[r][n].created, pr[r][n].ended, {})

Tick ==
  /\ clock < MaxClock
  /\ clock' = clock + 1
  /\ UNCHANGED <<github, pc, cycle, todo, failed, scan, kept, metrics>>

-----------------------------------------------------------------------------
(* Windows *)

NoEvents == [k \in Key |-> 0]
NoWindow == [scanFrom |-> 0, counted |-> NoEvents]
NoScan   == [from |-> 0, cursor |-> 0, ev |-> NoEvents]
Later(s, t) == IF s >= t THEN s ELSE t

\* history, per repo: the scans cover the events after since; the PRs moved had
\* been updated since the last recorded scan's cycle began; the events
\* missedTwice had, in both scans that could see them, a PR that moved.
NoLook == [since |-> 0, moved |-> {}, missedTwice |-> {}]

\* The next scan sees the events after this (later, when the lookback is short).
Reach(r) == IF windows[r] = NoWindow THEN lastCollectedAt[r] ELSE windows[r].scanFrom

\* Mutant: no overlap with the previous window.
ScanFromNoOverlap(r) == Later(lastCollectedAt[r], start - Lookback)

\* Where Collect starts the event scan of r: the previous window's start, or
\* lastCollectedAt when there is no window, capped by the lookback.
ScanFrom(r) ==
  LET since == lastCollectedAt[r]
      w     == windows[r]
      from  == IF w # NoWindow /\ w.scanFrom < since THEN w.scanFrom ELSE since
  IN  Later(from, start - Lookback)

\* Mutant: the counted set of the previous window is not carried over.
NextWindowForgets(since, counted, ev) ==
  [scanFrom |-> since, counted |-> [k \in Key |-> IF ev[k] > since THEN ev[k] ELSE 0]]

\* nextWindow: keep the counted events the next scan, from since, can see again.
NextWindow(since, counted, ev) ==
  [scanFrom |-> since,
   counted  |-> [k \in Key |-> IF ev[k] > since THEN ev[k]
                               ELSE IF counted[k] > since THEN counted[k]
                               ELSE 0]]

\* The PRs a page query lists: the server-side states filter, newest update
\* first, after the cursor (0 is no cursor), which marks the last node's place.
Ahead(r) == {n \in Number : /\ pr[r][n].state \in States
                            /\ scan.cursor = 0 \/ pr[r][n].stamp < scan.cursor}

Page(r) == {n \in Ahead(r) :
              Cardinality({m \in Ahead(r) : pr[r][m].stamp > pr[r][n].stamp}) < PageSize}

\* The last node of the page, if any.
Last(r) == {n \in Page(r) : \A m \in Page(r) : pr[r][n].stamp <= pr[r][m].stamp}

\* Mutant: a PR the filter rejects ends the scan like one updated before it.
ReachedOrRejected(r) ==
  \E n \in Last(r) : pr[r][n].updated <= scan.from \/ ~Selected(n, pr[r][n])

\* visit was false for the page's last node: the scan has reached its start.
Reached(r) == \E n \in Last(r) : pr[r][n].updated <= scan.from

\* Mutant: events counted by an earlier scan are counted again.
CountsAgain(r, k) ==
  LET t == EventTime(pr[r][k[1]], k[2])
  IN  /\ k[1] \in Page(r) /\ Selected(k[1], pr[r][k[1]])
      /\ t > scan.from /\ t <= start /\ scan.ev[k] = 0

\* scanEvents' count: in (scan.from, start], not counted by an earlier scan
\* nor earlier in this one.
Counts(r, k) ==
  LET n == k[1]
      t == EventTime(pr[r][n], k[2])
  IN  /\ n \in Page(r) /\ Selected(n, pr[r][n])
      /\ t > scan.from /\ t <= start
      /\ windows[r].counted[k] = 0
      /\ scan.ev[k] = 0

VisitPage(r) ==
  [k \in Key |-> IF Counts(r, k) THEN EventTime(pr[r][k[1]], k[2]) ELSE scan.ev[k]]

-----------------------------------------------------------------------------
(* The collection cycle *)

\* Where the cycle goes after a repo.
NextRepo(rest) == IF rest = <<>> THEN "finish" ELSE "repo"

StartCycle ==
  /\ pc = "idle" /\ clock >= wakeAt
  /\ pc' = "discover"
  /\ start' = clock
  /\ UNCHANGED <<clock, github, wakeAt, listed, todo, failed, scan, kept, metrics>>

Discover(repos) ==
  /\ pc = "discover"
  /\ pc' = NextRepo(repos)
  /\ todo' = repos
  /\ listed' = {repos[i] : i \in DOMAIN repos}
  /\ failed' = {}
  /\ UNCHANGED <<clock, github, start, wakeAt, scan, kept, metrics>>

\* Repos failed: the cycle ends with the snapshots and timestamps untouched.
DiscoverFails ==
  /\ pc = "discover"
  /\ pc' = "idle"
  /\ wakeAt' = clock + Interval
  /\ UNCHANGED <<clock, github, start, listed, todo, failed, scan, kept, metrics>>

\* The open scan succeeded (or was skipped).  A repo without a previous
\* timestamp has no event scan.
OpenScan(r) ==
  /\ pc = "repo" /\ r = Head(todo)
  /\ IF lastCollectedAt[r] = 0
     THEN pc' = "record" /\ scan' = NoScan
     ELSE pc' = "page" /\ scan' = [NoScan EXCEPT !.from = ScanFrom(r)]
  /\ UNCHANGED <<clock, github, cycle, todo, failed, kept, metrics>>

EventPage(r) ==
  /\ pc = "page" /\ r = Head(todo)
  /\ pc' = IF Ahead(r) # Page(r) /\ ~Reached(r) THEN "page" ELSE "record"
  /\ scan' = [from   |-> scan.from,
              cursor |-> IF Last(r) = {} THEN 0 ELSE pr[r][CHOOSE n \in Last(r) : TRUE].stamp,
              ev     |-> VisitPage(r)]
  /\ UNCHANGED <<clock, github, cycle, todo, failed, kept, metrics>>

\* A query of the open scan (never made when states excludes open) or of the
\* event scan failed: nothing of the repo is recorded.
ScanFails(r) ==
  /\ \/ pc = "repo" /\ "open" \in States
     \/ pc = "page"
  /\ r = Head(todo)
  /\ pc' = NextRepo(Tail(todo))
  /\ todo' = Tail(todo)
  /\ failed' = failed \cup {r}
  /\ scan' = NoScan
  /\ UNCHANGED <<clock, github, cycle, kept, metrics>>

\* history: the PRs that moved during this scan, and the events that so leave
\* the scans' reach.  An event in the second the previous cycle started can come
\* after that cycle's scan.
NextLook(r) ==
  LET moved == {n \in Number : pr[r][n].updated >= start}
      since == lastCollectedAt[r]
  IN  IF since = 0 THEN [look[r] EXCEPT !.moved = moved]
      ELSE [since |-> Later(look[r].since, start - Lookback),
            moved |-> moved,
            missedTwice |-> look[r].missedTwice \cup
              {e \in happened : /\ e.repo = r /\ Reach(r) < e.at /\ e.at <= since
                               /\ e.number \in moved
                               /\ (e.number \in look[r].moved \/ e.at = since)}]

\* Mutant: the counters are only added to when an event was found.
SeriesIfEvents(r) == IF scan.ev = NoEvents THEN {} ELSE {r}

\* recordEvents adds to the counters even with zero, so their series exist.
AddedSeries(r) == {r}

\* Both scans succeeded: recordEvents, then the next window.
RecordRepo(r) ==
  /\ pc = "record" /\ r = Head(todo)
  /\ tally' = [e \in Event |->
       IF e.repo = r /\ scan.ev[<<e.number, e.kind>>] = e.at THEN tally[e] + 1 ELSE tally[e]]
  /\ series' = series \cup AddedSeries(r)
  /\ autoSeries' = autoSeries \cup
       {s \in {r} : \E n \in Unreviewed \cap Number : scan.ev[<<n, "merged">>] # 0}
  /\ IF lastCollectedAt[r] = 0
     THEN UNCHANGED windows
     ELSE windows' = [windows EXCEPT ![r] =
                        NextWindow(lastCollectedAt[r], @.counted, scan.ev)]
  /\ look' = [look EXCEPT ![r] = NextLook(r)]
  /\ pc' = NextRepo(Tail(todo))
  /\ todo' = Tail(todo)
  /\ scan' = NoScan
  /\ UNCHANGED <<clock, github, cycle, failed, lastCollectedAt>>

NextTimestamp(r) ==
  IF r \notin listed THEN 0
  ELSE IF r \in failed THEN lastCollectedAt[r]
  ELSE start

\* Collect drops the windows of repos no longer listed; Runner.collect advances
\* the timestamps of the repos that succeeded and drops the others' when absent.
FinishCycle ==
  /\ pc = "finish"
  /\ windows' = [r \in Repo |-> IF r \in listed THEN windows[r] ELSE NoWindow]
  /\ lastCollectedAt' = [r \in Repo |-> NextTimestamp(r)]
  /\ look' = [r \in Repo |-> IF r \notin listed THEN NoLook
                           ELSE IF lastCollectedAt[r] = 0 /\ r \notin failed
                           THEN [look[r] EXCEPT !.since = start]
                           ELSE look[r]]
  /\ pc' = "idle"
  /\ wakeAt' = clock + Interval
  /\ UNCHANGED <<clock, github, start, listed, todo, failed, scan, tally, series, autoSeries>>

-----------------------------------------------------------------------------
Init ==
  /\ clock = 1
  /\ pr = [r \in Repo |-> [n \in Number |-> NoPR]]
  /\ updates = 0
  /\ happened = {}
  /\ pc = "idle" /\ start = 0 /\ wakeAt = 1
  /\ todo = <<>> /\ listed = {} /\ failed = {}
  /\ scan = NoScan
  /\ lastCollectedAt = [r \in Repo |-> 0]
  /\ windows = [r \in Repo |-> NoWindow]
  /\ tally = [e \in Event |-> 0]
  /\ series = {} /\ autoSeries = {}
  /\ look = [r \in Repo |-> NoLook]

GitHubStep(r, n) ==
  OpenPR(r, n) \/ MergePR(r, n) \/ ClosePR(r, n) \/ ReopenPR(r, n) \/ TouchPR(r, n)

RepoStep(r) == OpenScan(r) \/ EventPage(r) \/ ScanFails(r) \/ RecordRepo(r)

\* The steps of the target's goroutine inside a cycle.
CycleStep ==
  \/ \E repos \in RepoLists : Discover(repos)
  \/ DiscoverFails
  \/ \E r \in Repo : RepoStep(r)
  \/ FinishCycle

Next ==
  \/ Tick
  \/ \E r \in Repo, n \in Number : GitHubStep(r, n)
  \/ StartCycle
  \/ CycleStep

Spec == Init /\ [][Next]_vars

-----------------------------------------------------------------------------
(* Properties *)

PullRequest == [state   : {"none", "open", "closed", "merged"},
                created : 0 .. MaxClock, ended : 0 .. MaxClock,
                updated : 0 .. MaxClock, stamp : Stamp]
Window      == [scanFrom : 0 .. MaxClock, counted : [Key -> 0 .. MaxClock]]
Scan        == [from : 0 .. MaxClock, cursor : Stamp, ev : [Key -> 0 .. MaxClock]]
Look        == [since : 0 .. MaxClock, moved : SUBSET Number, missedTwice : SUBSET Event]

TypeOK ==
  /\ clock \in Time
  /\ pr \in [Repo -> [Number -> PullRequest]]
  /\ updates \in Stamp
  /\ happened \in SUBSET Event
  /\ pc \in {"idle", "discover", "repo", "page", "record", "finish"}
  /\ start \in 0 .. MaxClock /\ wakeAt \in Nat
  /\ todo \in Seq(Repo)
  /\ listed \in SUBSET Repo /\ failed \in SUBSET Repo
  /\ scan \in Scan
  /\ lastCollectedAt \in [Repo -> 0 .. MaxClock]
  /\ windows \in [Repo -> Window]
  /\ tally \in [Event -> Nat]
  /\ series \in SUBSET Repo /\ autoSeries \in SUBSET Repo
  /\ look \in [Repo -> Look]

\* No event is counted twice (pr.go:317), whatever cycles fail, repos are listed
\* twice, dropped and found again, or PRs change while the scan pages.
CountedOnce == \A e \in Event : tally[e] <= 1

\* The counters only count events that occurred on GitHub.
OnlyRealEvents == \A e \in Event : tally[e] > 0 => e \in happened

\* A series is exported at zero before its first event, so that rate() and
\* increase() see that event (pr.go:318-319, recordEvents): a cycle that adds an
\* event to a repo's counters finds their series already there.
SeriesBeforeEvents ==
  [][\A e \in Event : tally'[e] > tally[e] => e.repo \in series]_vars

\* The selected PR still shows the event.
Standing(e) ==
  /\ EventTime(pr[e.repo][e.number], e.kind) = e.at
  /\ Selected(e.number, pr[e.repo][e.number])

\* The PR was also closed at another time.
Reclosed(e) ==
  e.kind = "closed" /\ \E f \in happened : f = [e EXCEPT !.at = f.at] /\ f.at # e.at

\* The event occurred while its repo was collected, within the lookback, and its
\* PR shows it.
Promised(e) ==
  /\ e \in happened /\ Standing(e) /\ ~Reclosed(e)
  /\ lastCollectedAt[e.repo] # 0 /\ look[e.repo].since < e.at

\* Every event of a repo's last window (README.md:259), from its previous
\* timestamp to the last one, was counted if its PR has rested since the last
\* cycle began: paging neither stops early nor skips, and failed cycles, however
\* many, leave no gap.
SettledCounted ==
  \A e \in happened :
    /\ Promised(e) /\ Reach(e.repo) < e.at /\ e.at <= lastCollectedAt[e.repo]
    /\ pr[e.repo][e.number].updated < lastCollectedAt[e.repo]
    => tally[e] = 1

NoStatesFilter == {"open", "closed", "merged"} \subseteq States

\* The overlap of the scans: once an event is out of the reach of the next scan
\* it is counted, unless its PR was updated during both scans that could see
\* it.  (For an exporter without a states filter: a filtered PR may be out of
\* the filter during both scans.)
NotLost ==
  NoStatesFilter =>
    \A e \in happened :
      Promised(e) /\ e.at <= Reach(e.repo) => tally[e] = 1 \/ e \in look[e.repo].missedTwice

\* The exporter implements the counters' promise.
Ledger == INSTANCE EventLedger
            WITH happened <- happened, tally <- tally, series <- series
ImplementsLedger == Ledger!Spec

(***************************************************************************)
(* The inductive invariant behind CountedOnce, OnlyRealEvents,             *)
(* SeriesBeforeEvents and ImplementsLedger.                                *)
(***************************************************************************)
\* A repo being collected is the head of a list.
RepoInHand == pc \in {"repo", "page", "record"} => todo # <<>>

\* A window starts no later than the repo's last timestamp, and that no later
\* than the last cycle.
WindowsOrdered ==
  /\ start <= clock
  /\ \A r \in Repo :
       /\ lastCollectedAt[r] <= start
       /\ windows[r] # NoWindow =>
            0 < windows[r].scanFrom /\ windows[r].scanFrom <= lastCollectedAt[r]

\* A counted event is out of the reach of the next scan, or remembered.
CountedRemembered ==
  \A e \in Event : tally[e] > 0 =>
    /\ e.at <= start
    /\ e \in happened
    /\ IF windows[e.repo] = NoWindow
       THEN lastCollectedAt[e.repo] # 0 => e.at <= lastCollectedAt[e.repo]
       ELSE \/ e.at <= windows[e.repo].scanFrom
            \/ windows[e.repo].counted[<<e.number, e.kind>>] = e.at

\* The events a scan has found so far are new, real and within its window.
ScanFound(r) ==
  /\ IF windows[r] = NoWindow THEN lastCollectedAt[r] <= scan.from
                              ELSE windows[r].scanFrom <= scan.from
  /\ \A n \in Number, kind \in Kind : scan.ev[<<n, kind>>] # 0 =>
       /\ scan.from < scan.ev[<<n, kind>>] /\ scan.ev[<<n, kind>>] <= start
       /\ windows[r].counted[<<n, kind>>] = 0
       /\ EventOf(r, n, kind, scan.ev[<<n, kind>>]) \in happened

ScanInv ==
  /\ pc = "page" => lastCollectedAt[Head(todo)] # 0
  /\ pc \in {"page", "record"} /\ lastCollectedAt[Head(todo)] # 0 => ScanFound(Head(todo))
  /\ pc = "record" /\ lastCollectedAt[Head(todo)] = 0 => scan.ev = NoEvents

VisibleHappened ==
  \A r \in Repo, n \in Number, kind \in Kind :
    LET t == EventTime(pr[r][n], kind)
    IN  t # 0 => EventOf(r, n, kind, t) \in happened

\* A repo has series once it was collected; in a cycle, every listed repo was
\* recorded, failed, or is still to come.
SeriesInv ==
  /\ \A r \in Repo : lastCollectedAt[r] # 0 => r \in series
  /\ pc \in {"repo", "page", "record", "finish"} =>
       \A r \in listed : \/ r \in failed \/ r \in series
                         \/ pc # "finish" /\ \E i \in 1 .. Len(todo) : todo[i] = r

\* A repo has an automerged series as soon as, and only if, a merge of one of its
\* unreviewed PRs was counted: no repeated or dropped event makes one.
AutomergedSeries ==
  autoSeries = {r \in Repo : \E e \in Event :
                  /\ e.repo = r /\ e.kind = "merged" /\ e.number \in Unreviewed
                  /\ tally[e] > 0}

Inv == /\ TypeOK /\ RepoInHand /\ WindowsOrdered /\ CountedRemembered
       /\ ScanInv /\ VisibleHappened /\ SeriesInv /\ AutomergedSeries /\ CountedOnce

(***************************************************************************)
(* The inductive invariant behind SettledCounted and NotLost.              *)
(***************************************************************************)
\* Cycles start one after another, and windows start before the last cycle.
CyclesOrdered ==
  /\ pc = "idle" => start < wakeAt
  /\ pc # "idle" => \A r \in Repo : lastCollectedAt[r] < start
  /\ \A r \in Repo :
       /\ windows[r] # NoWindow => windows[r].scanFrom < start
       /\ windows[r] = NoWindow => lastCollectedAt[r] <= look[r].since

\* GitHub's clock and its UPDATED_AT order: an event is no later than its PR's
\* last update, and PRs behind others in the order were updated no later.
UpdatesOrdered ==
  \A r \in Repo : \A n \in Number :
    /\ \A kind \in Kind : EventTime(pr[r][n], kind) <= pr[r][n].updated
    /\ pr[r][n].updated <= clock /\ pr[r][n].stamp <= updates
    /\ \A m \in Number : pr[r][n].stamp < pr[r][m].stamp => pr[r][n].updated <= pr[r][m].updated

\* A PR is created once and merged at most once, for good.
LifeOfPR ==
  \A e \in happened :
    LET p == pr[e.repo][e.number]
    IN  /\ p.state # "none"
        /\ e.kind = "created" => e.at = p.created
        /\ e.kind = "merged" => p.state = "merged" /\ e.at = p.ended

\* A remembered event is a counted one.
RememberedCounted ==
  \A r \in Repo, n \in Number, kind \in Kind :
    LET t == windows[r].counted[<<n, kind>>]
    IN  t # 0 => /\ EventOf(r, n, kind, t) \in happened
                 /\ tally[EventOf(r, n, kind, t)] > 0

\* The scan of r has taken the PR's events of its window, or an earlier one has.
Seen(r, n) ==
  \A kind \in Kind :
    LET t == EventTime(pr[r][n], kind)
    IN  scan.from < t /\ t <= start =>
          scan.ev[<<n, kind>>] # 0 \/ windows[r].counted[<<n, kind>>] # 0

\* Of the PRs that rest since the cycle began, the scan has seen those the filter
\* selects, all of them or those before the cursor, and found what they show.
ScanSees ==
  pc \in {"page", "record"} /\ lastCollectedAt[Head(todo)] # 0 =>
    LET r == Head(todo)
    IN  /\ scan.from = ScanFrom(r)
        /\ \A n \in Number : pr[r][n].updated < start =>
             /\ \A kind \in Kind : scan.ev[<<n, kind>>] # 0 =>
                  scan.ev[<<n, kind>>] = EventTime(pr[r][n], kind)
             /\ /\ Selected(n, pr[r][n])
                /\ pc = "page" => scan.cursor # 0 /\ pr[r][n].stamp >= scan.cursor
                => Seen(r, n)

\* An event of the last window is counted, unless its PR moved during the last
\* scan or it came in that cycle's first second.
OverlapKept ==
  NoStatesFilter =>
    \A e \in happened :
      Promised(e) /\ Reach(e.repo) < e.at /\ e.at <= lastCollectedAt[e.repo] =>
        tally[e] = 1 \/ e.number \in look[e.repo].moved \/ e.at = lastCollectedAt[e.repo]

\* What the current cycle owes a repo it has recorded.
Recorded(r) ==
  lastCollectedAt[r] # 0 =>
    /\ windows[r].scanFrom = lastCollectedAt[r]
    /\ \A e \in happened :
         e.repo = r /\ Promised(e) /\ lastCollectedAt[r] < e.at /\ e.at <= start =>
           /\ pr[r][e.number].updated < start => tally[e] = 1
           /\ NoStatesFilter => tally[e] = 1 \/ e.number \in look[r].moved \/ e.at = start

CycleKeepsPromise ==
  pc \in {"repo", "page", "record", "finish"} =>
    \A r \in listed : \/ r \in failed \/ Recorded(r)
                      \/ pc # "finish" /\ \E i \in 1 .. Len(todo) : todo[i] = r

LossInv == /\ Inv
           /\ CyclesOrdered /\ UpdatesOrdered /\ LifeOfPR /\ RememberedCounted
           /\ ScanSees /\ OverlapKept /\ CycleKeepsPromise /\ SettledCounted /\ NotLost

\* Claimed by pr.go:458-459 and README.md:259: a PR updated while the scan
\* pages, and so missed, is counted by the next cycle.
MissedCountedByNextCycle ==
  \A e \in happened : Promised(e) /\ e.at < Reach(e.repo) => tally[e] = 1

=============================================================================
