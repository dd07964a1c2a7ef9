------------------------------- MODULE Collect -------------------------------
(***************************************************************************)
(* What the open-state gauges of one repo are computed from: the listings  *)
(* of Runner.collect (internal/collector/runner.go) by the PR, issue and   *)
(* dashboard collectors (pr.go scanOpen and paginate, issue.go,            *)
(* dashboard.go), page by page, while items are created, closed and        *)
(* removed between the pages.                                              *)
(*                                                                         *)
(* Pull requests and issues share their numbers; numbers grow with the     *)
(* creation time, so a number is also an age.  PR pages follow a GraphQL   *)
(* cursor, oldest first; REST pages are numbered, newest first.            *)
(***************************************************************************)
EXTENDS Selection, FiniteSetsExt

CONSTANTS
  PageSize,     \* items per page (100 in every query)
  MaxItems,     \* bound: items ever created
  Worlds,       \* targets, each with what its items are: see world
  Bodies,       \* what a dashboard may say when it is read
  Existing,     \* items that exist at first
  MaxChanges    \* bound: changes while one listing runs

Number == 1 .. MaxItems
State  == {"none", "open", "draft", "closed", "gone"}

ASSUME ParameterAssumption ==
  /\ PageSize \in Nat \ {0} /\ MaxItems \in Nat \ {0} /\ MaxChanges \in Nat
  /\ Existing \in 0 .. MaxItems /\ Bodies \subseteq Seq(Lines) /\ LabelLimit \in Nat
  /\ \A w \in Worlds :
       /\ DOMAIN w.about = Number /\ w.prs.states \subseteq Names
       /\ \A n \in Number : w.about[n].user \in Names /\ w.about[n].labels \in Seq(Names)

VARIABLES
  world,    \* the target's PR and issue filters, whether its dashboard is read and
            \* by which login; and about: whether each number is a PR, its labels,
            \* author's login, head branch and title
  item,     \* GitHub: each number's state
  at,       \* the collector that runs: an index of Collectors, 0 between cycles
  scan,     \* its listing of the repo
  changes   \* history of that listing

vars == <<world, item, at, scan, changes>>

\* The non-nil collectors, in the order Runner.collect runs them.
Collectors == <<"prs", "issues">> \o IF world.dashboard THEN <<"dashboard">> ELSE <<>>

Collector == Collectors[at]
Listing   == at # 0 /\ ~scan.done

\* page and cursor are the next request's; seen holds each observation that is
\* counted, found the dashboard issue and body what it says.
NoScan == [page |-> 1, cursor |-> 0, seen |-> {}, found |-> 0, body |-> <<>>, done |-> FALSE]

\* steady: the items that did not change since the listing began; created,
\* shut, removed: how many were created, left the list of open items, vanished.
Fresh == [made |-> 0, steady |-> Number, created |-> 0, shut |-> 0, removed |-> 0]

Init ==
  /\ world \in Worlds
  /\ item = [n \in Number |-> IF n <= Existing THEN "open" ELSE "none"]
  /\ at = 0 /\ scan = NoScan /\ changes = Fresh

-----------------------------------------------------------------------------
(* GitHub: between two pages of a listing.  Between two listings nothing    *)
(* reads the items, so a change there equals one before the first page.     *)

IsPR(n) == world.about[n].pr
InOpenList(n) == item[n] \in {"open", "draft"}

Become(n, state, created, shut, removed) ==
  /\ Listing
  /\ changes.made < MaxChanges
  /\ item' = [item EXCEPT ![n] = state]
  /\ changes' = [made    |-> changes.made + 1,
                 steady  |-> changes.steady \ {n},
                 created |-> changes.created + created,
                 shut    |-> changes.shut + shut,
                 removed |-> changes.removed + removed]
  /\ UNCHANGED <<world, at, scan>>

Create(n) ==
  /\ item[n] = "none"
  /\ \A m \in Number : m < n => item[m] # "none"
  /\ \E s \in IF IsPR(n) THEN {"open", "draft"} ELSE {"open"} :
       Become(n, s, 1, 0, 0)

Close(n)  == InOpenList(n) /\ Become(n, "closed", 0, 1, 0)
Reopen(n) == item[n] = "closed" /\ Become(n, "open", 0, 0, 0)
Ready(n)  == item[n] = "draft" /\ Become(n, "open", 0, 0, 0)

\* An issue is deleted or transferred; a pull request cannot be.
Delete(n) ==
  /\ ~IsPR(n) /\ item[n] \in {"open", "closed"}
  /\ Become(n, "gone", 0, IF InOpenList(n) THEN 1 ELSE 0, 1)

GitHubStep == \E n \in Number : Create(n) \/ Close(n) \/ Reopen(n) \/ Ready(n) \/ Delete(n)

-----------------------------------------------------------------------------
(* Pages *)

\* What GraphQL says of a pull request, and of its author by the REST login:
\* none for a deleted account, and no suffix for an App bot.
GraphQLAuthor(user) ==
  [type  |-> IF user = Nobody THEN "none" ELSE IF user.suffix = "[bot]" THEN "Bot" ELSE "User",
   login |-> [user EXCEPT !.suffix = ""]]

Node(n, state) ==
  [state  |-> IF state \in {"open", "draft"} THEN "OPEN" ELSE IF state = "closed" THEN "CLOSED" ELSE "MERGED",
   draft  |-> state = "draft",
   labels |-> world.about[n].labels,
   author |-> GraphQLAuthor(world.about[n].user),
   head   |-> world.about[n].head]

\* Mutant: the cursor's own PR is returned again.
FromCursor(cursor) ==
  {n \in Number : /\ IsPR(n) /\ item[n] # "none" /\ n >= cursor
                  /\ GitHubLists({"OPEN"}, world.prs.includeLabels, Node(n, item[n]))}

\* pullRequests(states: OPEN, labels, orderBy: CREATED_AT ASC, after: cursor).
After(cursor) ==
  {n \in Number : /\ IsPR(n) /\ item[n] # "none" /\ n > cursor
                  /\ GitHubLists({"OPEN"}, world.prs.includeLabels, Node(n, item[n]))}

PRPage(cursor) ==
  {n \in After(cursor) : Cardinality({m \in After(cursor) : m < n}) < PageSize}

\* ListByRepo: page k of the items in S, pull requests included.
InState(state) == IF state = "open" THEN {n \in Number : InOpenList(n)}
                  ELSE {n \in Number : item[n] \notin {"none", "gone"}}
Newer(state, n) == Cardinality({m \in InState(state) : m > n})
RestPage(state, k) ==
  {n \in InState(state) : (k - 1) * PageSize <= Newer(state, n) /\ Newer(state, n) < k * PageSize}

\* Mutant: only the first page is read.
OnePage(state, k) == FALSE

HasNextPage(state, k) == Cardinality(InState(state)) > k * PageSize

\* The observations a collector counts on a page.
Observed(page) == {<<scan.page, n, item[n]>> : n \in page}

Selects(n) == IssueMatch(world.issues, item[n], world.about[n].title)

-----------------------------------------------------------------------------
(* Runner.collect *)

Begin ==
  /\ at = 0
  /\ at' = 1 /\ scan' = NoScan /\ changes' = Fresh
  /\ UNCHANGED <<world, item>>

\* scanOpen without a state to count: no query.
SkipPRs ==
  /\ Listing /\ Collector = "prs" /\ SkipOpen(world.prs)
  /\ scan' = [scan EXCEPT !.done = TRUE]
  /\ UNCHANGED <<world, item, at, changes>>

\* scanOpen: paginate without a cap.
ReadPRs ==
  LET page == PRPage(scan.cursor)
  IN  /\ Listing /\ Collector = "prs" /\ ~SkipOpen(world.prs)
      /\ scan' = [scan EXCEPT !.seen = @ \cup Observed({n \in page : Match(world.prs, Node(n, item[n]))}),
                              !.page = @ + 1,
                              !.cursor = IF page = {} THEN @ ELSE Max(page),
                              !.done = After(scan.cursor) = page]
      /\ UNCHANGED <<world, item, at, changes>>

\* Mutant: the page number is not advanced.
ReadFirstIssues ==
  LET page == RestPage("all", 1)
  IN  /\ Listing /\ Collector = "issues"
      /\ scan' = [scan EXCEPT !.seen = @ \cup Observed({n \in page : ~IsPR(n) /\ Selects(n)}),
                              !.done = ~HasNextPage("all", 1)]
      /\ UNCHANGED <<world, item, at, changes>>

\* fetchIssues reads every page, collectRepo skips the pull requests.
ReadIssues ==
  LET page == RestPage("all", scan.page)
  IN  /\ Listing /\ Collector = "issues"
      /\ scan' = [scan EXCEPT !.seen = @ \cup Observed({n \in page : ~IsPR(n) /\ Selects(n)}),
                              !.page = @ + 1,
                              !.done = ~HasNextPage("all", scan.page)]
      /\ UNCHANGED <<world, item, at, changes>>

\* findDashboardIssue stops at the first match, the newest on the page, which
\* parseDashboard reads as it is then.
Dashboards(numbers) ==
  {n \in numbers : IsDashboard(world.about[n].title, world.about[n].user, world.botLogin)}

ReadOpenIssues ==
  LET matches == Dashboards(RestPage("open", scan.page))
  IN  /\ Listing /\ Collector = "dashboard"
      /\ \E body \in IF matches = {} THEN {<<>>} ELSE Bodies :
           scan' = [scan EXCEPT !.found = IF matches = {} THEN 0 ELSE Max(matches),
                                !.body = body,
                                !.page = @ + 1,
                                !.done = matches # {} \/ ~HasNextPage("open", scan.page)]
      /\ UNCHANGED <<world, item, at, changes>>

\* The repo joins the collection's results, and the next collector starts; after
\* the last one the snapshots are replaced and the cycle ends.
NextCollector ==
  /\ at' = IF at = Len(Collectors) THEN 0 ELSE at + 1
  /\ scan' = NoScan /\ changes' = Fresh
  /\ UNCHANGED <<world, item>>

Finish == at # 0 /\ scan.done /\ NextCollector

\* A page fails: the repo is failed for this collector, what was read of it is
\* dropped, and the other collectors run.
Fail == Listing /\ NextCollector

ReadPage == SkipPRs \/ ReadPRs \/ ReadIssues \/ ReadOpenIssues

Next == GitHubStep \/ Begin \/ ReadPage \/ Finish \/ Fail

Spec == Init /\ [][Next]_vars

\* Every request is answered.
FairSpec == Spec /\ WF_vars(ReadPage \/ Finish)

-----------------------------------------------------------------------------
(* What the stats of a completed listing say *)

Runs(collector)     == at # 0 /\ Collector = collector
Complete(collector) == Runs(collector) /\ scan.done

\* countByState, and the PR reviewStatusCount's total for "open".
CountByState(state) == Cardinality({o \in scan.seen : o[3] = state})
\* oldestOpenAge is the age of this item; 0: none.
OldestOpen == LET open == {o[2] : o \in {e \in scan.seen : e[3] = "open"}}
              IN  IF open = {} THEN 0 ELSE Min(open)

\* What the filters are meant to select, of a PR with all its labels.
Wanted(n, state) ==
  PRMatch(world.prs, state, ToSet(world.about[n].labels), world.about[n].user, world.about[n].head)
\* A PR with more labels than a page brings may be misjudged.
Overlong == {n \in Number : Len(world.about[n].labels) > LabelLimit}

SteadyPRs(state)    == {n \in changes.steady : IsPR(n) /\ item[n] = state /\ Wanted(n, state)}
SteadyIssues(state) == {n \in changes.steady : ~IsPR(n) /\ item[n] = state /\ Selects(n)}

-----------------------------------------------------------------------------
(* Properties *)

Numbers(seen) == {o[2] : o \in seen}

TypeOK ==
  /\ world \in Worlds
  /\ item \in [Number -> State]
  /\ at \in 0 .. Len(Collectors)
  /\ scan \in [page : Nat \ {0}, cursor : 0 .. MaxItems, seen : SUBSET (Nat \X Number \X State),
               found : 0 .. MaxItems, body : Bodies \cup {<<>>}, done : BOOLEAN]
  /\ IsFiniteSet(scan.seen)
  /\ changes \in [made : 0 .. MaxChanges, steady : SUBSET Number, created : Nat, shut : Nat, removed : Nat]

\* The cursor never meets a PR twice, in whatever states; REST pages may.
PRsSeenOnce ==
  Runs("prs") =>
    /\ \A o \in scan.seen : o[2] <= scan.cursor
    /\ \A o, o2 \in scan.seen : o[2] = o2[2] => o = o2

\* What was observed of a PR that did not change is so still, and what the cursor
\* passed was observed if the filter selects it; nothing is left in the end.
PRsAsListed ==
  Runs("prs") =>
    /\ \A o \in scan.seen :
         /\ o[2] \in Number /\ IsPR(o[2]) /\ Match(world.prs, Node(o[2], o[3]))
         /\ o[2] \in changes.steady => item[o[2]] = o[3]
    /\ \A n \in changes.steady :
         IsPR(n) /\ InOpenList(n) /\ Match(world.prs, Node(n, item[n])) /\ n <= scan.cursor =>
           n \in Numbers(scan.seen)
    /\ scan.done => SkipOpen(world.prs) \/ After(scan.cursor) = {}

\* Every observation beyond one per issue, past or to come, is paid for by a
\* created item: creations push issues that were seen back to later pages.
PushedBack == {n \in Numbers(scan.seen) \cap InState("all") : Newer("all", n) >= (scan.page - 1) * PageSize}

IssuesPaged ==
  Runs("issues") =>
    /\ \A o \in scan.seen : o[1] < scan.page /\ item[o[2]] # "none"
    /\ Cardinality(scan.seen) + Cardinality(PushedBack)
         <= Cardinality(Numbers(scan.seen)) + changes.created
    /\ changes.removed = 0 =>
         \A n \in changes.steady \cap InState("all") :
           ~IsPR(n) /\ Selects(n) =>
             n \in Numbers(scan.seen) \/ Newer("all", n) >= (scan.page - 1) * PageSize
    /\ scan.done => Cardinality(InState("all")) <= (scan.page - 1) * PageSize

\* github.pr.count and github.pr.age: in every state the count is between the
\* selected PRs that stood in it during the whole scan and those plus the PRs
\* that changed, and no selected PR older than the reported one stood open all
\* along.  The cursor makes it so whatever is opened or closed between pages,
\* and the arguments of the query hide no PR the filter selects.
PRStatsExact ==
  Complete("prs") =>
    /\ \A s \in {"open", "draft"} :
         LET changed == (Number \ changes.steady) \cup Overlong
         IN  /\ Cardinality(SteadyPRs(s) \ Overlong) <= CountByState(s)
             /\ CountByState(s) <= Cardinality(SteadyPRs(s) \cup changed)
    /\ \A n \in SteadyPRs("open") \ Overlong : OldestOpen # 0 /\ OldestOpen <= n

\* The event scan queries the PRs in the states of ServerStates only: each PR
\* the filter selects is among them in every state it can take.
SelectedAreListed ==
  \A n \in Number, s \in {"open", "draft", "closed", "merged"} :
    IsPR(n) /\ Match(world.prs, Node(n, s)) =>
      GitHubLists(ServerStates(world.prs), world.prs.includeLabels, Node(n, s))

\* github.issue.count: numbered pages shift when an item is created, and an
\* issue is then counted a second time; but once per created item at most, and
\* only a removal can hide one.
IssuesCountedAgainPerCreation ==
  Complete("issues") =>
    /\ Cardinality(scan.seen) <= Cardinality({o[2] : o \in scan.seen}) + changes.created
    /\ changes.removed = 0 =>
         \A s \in {"open", "closed"} :
           SteadyIssues(s) \subseteq {o[2] : o \in scan.seen}

\* A repo's dashboard gauges disappear only when its dashboard issue is not
\* open all along, or an open item left the list while it was paged.
DashboardFound ==
  Complete("dashboard") /\ changes.shut = 0 =>
    \A n \in Dashboards(changes.steady) : item[n] = "open" => scan.found >= n

\* Until it is found, a dashboard that stayed open is on a page to come.
DashboardAhead ==
  Runs("dashboard") /\ ~scan.done /\ changes.shut = 0 =>
    \A n \in Dashboards(changes.steady) :
      item[n] = "open" => Newer("open", n) >= (scan.page - 1) * PageSize

\* The inductive invariant.
Inv == TypeOK /\ PRsSeenOnce /\ PRsAsListed /\ IssuesPaged /\ DashboardAhead /\ DashboardFound

\* renovate.dashboard.queue: a section counts the checkboxes whose nearest
\* heading above is its last heading, and a dashboard is reported as unreadable
\* exactly when no section is counted.
QueueCountsSections ==
  LET counts == SectionCounts(scan.body)
      Above(j) == {i \in Headings(scan.body) : i < j}
      Of(s)    == {i \in Headings(scan.body) : scan.body[i].section = s}
      Under(i) == {j \in DOMAIN scan.body : /\ scan.body[j].kind = "checkbox"
                                            /\ Above(j) # {} /\ Max(Above(j)) = i}
  IN  Complete("dashboard") /\ scan.found # 0 =>
        /\ \A s \in Sections :
             counts[s] = IF Of(s) = {} THEN Missing ELSE Cardinality(Under(Max(Of(s))))
        /\ ParseError(scan.body) <=> counts = NoQueue

\* A listing has no page limit: page numbers and cursors advance, so that every
\* listing, and with it the cycle, ends once the items stop changing.
CycleEnds == at # 0 ~> at = 0
=============================================================================
