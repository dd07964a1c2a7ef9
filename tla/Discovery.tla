------------------------------ MODULE Discovery ------------------------------
(***************************************************************************)
(* Discoverer (internal/discovery/discoverer.go): the cached repo list of  *)
(* one target, filled by Repos on its first call and by the background     *)
(* refresh of Start, while the organisation's repos come, go and are       *)
(* archived between the pages of a listing.                                *)
(*                                                                         *)
(* A repo is a model value: full name, owner and name at once.  The        *)
(* include and exclude globs are the sets of repos they match.  Of a list  *)
(* of repos, only how often it names each one matters, not its order.      *)
(***************************************************************************)
EXTENDS Integers, Sequences, FiniteSets

CONSTANTS
  Repo,         \* repos that may exist
  Forks,        \* the forks among them
  Targets,      \* target configurations: see TargetType
  Initially,    \* what created may be at first
  PageSize,     \* repos per REST page (PerPage: 100)
  Started,      \* whether Start runs; main does not call it
  MaxChanges,   \* bound: changes of the organisation
  MaxFailures   \* bound: listings that fail

Proc == {"runner"} \cup (IF Started THEN {"refresher"} ELSE {})

OrgType == [owned : SUBSET Repo, include : SUBSET Repo, exclude : SUBSET Repo,
            archived : BOOLEAN]

\* How often a list names each repo.
List   == [Repo -> Nat]
NoRepo == [r \in Repo |-> 0]

\* explicit is target.repos, which bypasses the listing; ok says that every entry has the
\* form owner/name.  include is Repo when include_repos is empty.
TargetType == [orgs : Seq(OrgType), explicit : List, ok : BOOLEAN]

ASSUME ParameterAssumption ==
  /\ PageSize \in Nat \ {0} /\ MaxChanges \in Nat /\ MaxFailures \in Nat
  /\ Started \in BOOLEAN /\ Forks \subseteq Repo /\ IsFiniteSet(Repo)
  /\ Targets \subseteq TargetType /\ Initially \subseteq [Repo -> 0 .. Cardinality(Repo)]
  /\ \A c \in Initially : \A r, s \in Repo : c[r] = c[s] => r = s \/ c[r] = 0
  /\ \A t \in Targets : t.orgs # <<>> \/ t.explicit # NoRepo    \* config.validate

VARIABLES
  target,       \* the target's configuration, fixed
  \* GitHub
  created,      \* when each repo of the organisations was created, 0: it is not there
  archived,     \* the archived ones
  changes, failures,
  \* Discoverer
  repos, initialized,
  \* one per goroutine in refresh
  refresh,
  \* what Repos last returned to the runner
  served

github == <<created, archived, changes>>
vars   == <<target, github, failures, repos, initialized, refresh, served>>

Entries  == DOMAIN target.orgs
Existing == {r \in Repo : created[r] # 0}

\* listOrgRepos' filters for one configured org.
Keeps(o, r) ==
  LET cfg == target.orgs[o]
  IN  /\ r \in archived => cfg.archived
      /\ r \notin Forks
      /\ r \in cfg.include
      /\ r \notin cfg.exclude

\* The (org entry, repo) pairs a listing of this instant would keep.
Kept == {k \in Entries \X Repo :
           /\ created[k[2]] # 0 /\ k[2] \in target.orgs[k[1]].owned
           /\ Keeps(k[1], k[2])}

\* History of a refresh.  steady: the pairs kept at every instant of it;
\* removed: a repo vanished meanwhile; after: the refreshes it began after;
\* overtaken: a refresh that began later has stored its list.
Idle == [pc |-> "idle", org |-> 1, page |-> 1, found |-> NoRepo, result |-> NoRepo,
         first |-> FALSE, steady |-> {}, removed |-> FALSE,
         after |-> {}, overtaken |-> FALSE]

Init ==
  /\ target \in Targets
  /\ created \in Initially
  /\ archived = {}
  /\ changes = 0 /\ failures = 0
  /\ repos = NoRepo /\ initialized = FALSE
  /\ refresh = [p \in Proc |-> Idle]
  /\ served = NoRepo

-----------------------------------------------------------------------------
(* GitHub *)

Observe(removal) ==
  refresh' = [p \in Proc |->
    IF refresh[p].pc = "idle" THEN Idle
    ELSE [refresh[p] EXCEPT !.steady = @ \cap Kept',
                            !.removed = @ \/ removal]]

Change ==
  /\ changes < MaxChanges /\ changes' = changes + 1
  /\ UNCHANGED <<target, failures, repos, initialized, served>>

Create(r) ==
  /\ r \notin Existing
  /\ created' = [created EXCEPT ![r] = Cardinality(Repo) + changes + 1]
  /\ UNCHANGED archived
  /\ Change /\ Observe(FALSE)

Delete(r) ==
  /\ r \in Existing
  /\ created' = [created EXCEPT ![r] = 0]
  /\ archived' = archived \ {r}
  /\ Change /\ Observe(TRUE)

Archive(r) ==
  /\ r \in Existing
  /\ archived' = IF r \in archived THEN archived \ {r} ELSE archived \cup {r}
  /\ UNCHANGED created
  /\ Change /\ Observe(FALSE)

-----------------------------------------------------------------------------
(* Discoverer *)

\* refresh's start: the explicit list bypasses the API; a malformed entry fails
\* it, and nothing is stored.
Begin(p) ==
  LET explicit == target.explicit # NoRepo
  IN  refresh' = [refresh EXCEPT ![p] =
        IF explicit /\ ~target.ok THEN Idle
        ELSE [Idle EXCEPT !.pc = IF explicit THEN "store" ELSE "list",
                          !.result = target.explicit,
                          !.first = ~initialized,
                          !.steady = Kept,
                          !.after = {q \in Proc \ {p} : refresh[q].pc # "idle"}]]

\* Mutant: every call lists the repos again.
AlwaysRefresh ==
  /\ refresh["runner"].pc = "idle"
  /\ Begin("runner")
  /\ UNCHANGED <<target, github, failures, repos, initialized, served>>

\* Repos: the cached list, or the first discovery.
CallRepos ==
  /\ refresh["runner"].pc = "idle"
  /\ IF initialized
     THEN served' = repos /\ UNCHANGED refresh
     ELSE Begin("runner") /\ UNCHANGED served
  /\ UNCHANGED <<target, github, failures, repos, initialized>>

\* Mutant: Start without the ticks.
OnlyInitially ==
  /\ Started /\ refresh["refresher"].pc = "idle" /\ ~initialized
  /\ Begin("refresher")
  /\ UNCHANGED <<target, github, failures, repos, initialized, served>>

\* Start: the initial refresh, and one at every tick.
StartOrTick ==
  /\ Started /\ refresh["refresher"].pc = "idle"
  /\ Begin("refresher")
  /\ UNCHANGED <<target, github, failures, repos, initialized, served>>

\* ListByOrg: page k of an org's repos at this instant, newest first.
OrgListing(o) == Existing \cap target.orgs[o].owned
Newer(o, r)   == Cardinality({s \in OrgListing(o) : created[s] > created[r]})
Page(o, k)    ==
  {r \in OrgListing(o) : (k - 1) * PageSize <= Newer(o, r) /\ Newer(o, r) < k * PageSize}

\* Mutant: only the first page is read.
OnePage(o, k) == FALSE

HasNext(o, k) == k * PageSize < Cardinality(OrgListing(o))

\* Mutant: no deduplication.
AppendAll(result, found) == [r \in Repo |-> result[r] + found[r]]

\* discoverOrgs appends the repos it has not seen yet.
AddUnseen(result, found) ==
  [r \in Repo |-> IF result[r] = 0 /\ found[r] # 0 THEN 1 ELSE result[r]]

\* One turn of listOrgRepos' loop; after the last page of the last org the
\* list is ready to be stored.
ReadPage(p) ==
  LET f     == refresh[p]
      found == [r \in Repo |-> f.found[r] + IF r \in Page(f.org, f.page) /\ Keeps(f.org, r) THEN 1 ELSE 0]
  IN  /\ f.pc = "list"
      /\ refresh' = [refresh EXCEPT ![p] =
           IF HasNext(f.org, f.page)
           THEN [f EXCEPT !.found = found, !.page = @ + 1]
           ELSE [f EXCEPT !.found = NoRepo, !.page = 1,
                          !.result = AddUnseen(@, found),
                          !.org = @ + 1,
                          !.pc = IF f.org = Len(target.orgs) THEN "store" ELSE "list"]]
      /\ UNCHANGED <<target, github, failures, repos, initialized, served>>

\* p's refresh is over: no other one is after it any more.
Ended(p) == [q \in Proc |-> IF q = p THEN Idle ELSE [refresh[q] EXCEPT !.after = @ \ {p}]]

ListFails(p) ==
  /\ refresh[p].pc = "list"
  /\ failures < MaxFailures /\ failures' = failures + 1
  /\ refresh' = Ended(p)
  /\ UNCHANGED <<target, github, repos, initialized, served>>

Store(p) ==
  /\ refresh[p].pc = "store"
  /\ repos' = refresh[p].result
  /\ initialized' = TRUE
  /\ refresh' = [q \in Proc |->
       IF q \in refresh[p].after THEN [Ended(p)[q] EXCEPT !.overtaken = TRUE] ELSE Ended(p)[q]]
  /\ served' = IF p = "runner" THEN refresh[p].result ELSE served
  /\ UNCHANGED <<target, github, failures>>

Advance(p) == ReadPage(p) \/ Store(p)

Next ==
  \/ \E r \in Repo : Create(r) \/ Delete(r) \/ Archive(r)
  \/ CallRepos
  \/ StartOrTick
  \/ \E p \in Proc : Advance(p) \/ ListFails(p)

Spec == Init /\ [][Next]_vars

\* The runner's loop calls Repos every cycle, the ticker fires, and GitHub
\* answers every page.
FairSpec ==
  /\ Spec
  /\ WF_vars(CallRepos) /\ WF_vars(StartOrTick)
  /\ \A p \in Proc : WF_vars(Advance(p))

-----------------------------------------------------------------------------
(* Properties *)

TypeOK ==
  /\ target \in Targets
  /\ created \in [Repo -> 0 .. Cardinality(Repo) + changes] /\ archived \subseteq Existing
  /\ changes \in 0 .. MaxChanges /\ failures \in 0 .. MaxFailures
  /\ repos \in List /\ initialized \in BOOLEAN /\ served \in List
  /\ refresh \in [Proc ->
       [pc : {"idle", "list", "store"}, org : Nat \ {0}, page : Nat \ {0},
        found : List, result : List, first : BOOLEAN,
        steady : SUBSET (Nat \X Repo), removed : BOOLEAN,
        after : SUBSET Proc, overtaken : BOOLEAN]]

\* The listings' order is total: no two repos are created at once.
InOrder == \A r, s \in Repo : created[r] = created[s] => r = s \/ created[r] = 0

\* The runner refreshes only while there is no list yet, so a refresh that
\* another one has to overtake is a first one.
FirstRefreshes ==
  \A p \in Proc :
    /\ refresh[p].pc # "idle" /\ (p = "runner" \/ ~initialized) => refresh[p].first
    /\ \A q \in refresh[p].after : q # p /\ refresh[q].pc # "idle" /\ refresh[q].first

OvertakenRuns == \A p \in Proc : refresh[p].overtaken => refresh[p].pc # "idle" /\ refresh[p].first

FromOrgs == target.explicit = NoRepo

\* Whatever pages and entries repeat, a discovered list names a repo once.
NamedOnce ==
  FromOrgs => \A r \in Repo : /\ repos[r] <= 1 /\ served[r] <= 1
                              /\ \A p \in Proc : refresh[p].result[r] <= 1

\* A refresh reads one org entry after the other.  A steady repo of an entry it
\* has read is in the result; of the one it reads, found or on a page to come.
Ahead(f) ==
  f.pc # "idle" =>
    /\ f.steady \subseteq Kept
    /\ f.pc = "list" => FromOrgs /\ f.org \in Entries
    /\ FromOrgs /\ ~f.removed =>
         \A k \in f.steady :
           \/ f.result[k[2]] # 0
           \/ f.pc = "list" /\ k[1] > f.org
           \/ f.pc = "list" /\ k[1] = f.org /\ f.found[k[2]] # 0
           \/ f.pc = "list" /\ k[1] = f.org /\ Newer(k[1], k[2]) >= (f.page - 1) * PageSize

SteadyAhead == \A p \in Proc : Ahead(refresh[p])

\* The inductive invariant.
Inv == TypeOK /\ InOrder /\ FirstRefreshes /\ OvertakenRuns /\ NamedOnce /\ SteadyAhead

\* A repo the configuration keeps during a whole listing is in the list it
\* stores, unless a repo was removed meanwhile: new repos shift the pages
\* towards the reader, removals away from it.
SteadyRepoListed ==
  \A p \in Proc : refresh[p].pc = "store" /\ FromOrgs /\ ~refresh[p].removed =>
    \A k \in refresh[p].steady : refresh[p].result[k[2]] # 0

\* The list the runner gets names no repo twice, although pages shift and two
\* org entries may list the same repo: a repo named twice would be collected
\* and exported twice.
ServedOnce == FromOrgs => \A r \in Repo : served[r] <= 1

\* A list older than the cached one is stored only by a first discovery that a
\* later refresh overtook; every other refresh stores news.
OnlyFirstOvertaken == \A p \in Proc : refresh[p].overtaken => refresh[p].first

\* Claimed by openspec/specs/repo-discovery: a repo that is created, and stays,
\* is eventually served to the runner.
NewRepoFound ==
  \A r \in Repo :
    <>[](FromOrgs /\ r \in {k[2] : k \in Kept}) => <>(served[r] # 0)
=============================================================================
