# github-activity-exporter: TLA+ models, checks and proofs

The exporter watches GitHub repositories and turns pull requests, issues and
Renovate dashboards into OpenTelemetry metrics. One process serves several
*targets*; each target has its own credential, its own list of repositories and
its own goroutine, which collects, flushes and sleeps in a loop. Paths below are
relative to the repository (`internal/...` is `src/internal/...` in the file map
of `PROJECT.json`).

## The system

| Component | State it keeps | Operations | Talks to |
| --- | --- | --- | --- |
| PR collector (`internal/collector/pr.go`) | `windows`: per repo the start of the last window and the events already counted | `Collect`: open scan, event scan, record, next window | GitHub GraphQL, OTel instruments |
| Collection loop (`internal/collector/runner.go`) | `lastCollectedAt`, latest snapshots | `Run`, `runOnce`, `collect`, `flushMetrics`, the observable callback | discovery, collectors, health, flush |
| Health tracker (`internal/health/health.go`) | per target: checked, started, last cycle, ready, exited, response counts, unauthorized streak | `Register` ... `CycleFinished`, two probes | called from main, the loops and the HTTP transport |
| GitHub client (`internal/github/client.go`), one per target | per pool: remaining, reset time, paused | `RoundTrip`, `waitIfPaused`, `updateRateLimit`, token source | GitHub, hooks into health and self-metrics |
| Authenticators (`internal/github/auth.go`) | cached installation token and its expiry | `Token`, `Ping` | GitHub |
| Discovery (`internal/discovery/discoverer.go`) | repo list, `initialized` | `Repos`, `Start`, `refresh` | GitHub REST |
| Issue and dashboard collectors (`internal/collector/issue.go`, `dashboard.go`) | none across cycles | `Collect`, listing, parsing | GitHub REST |
| Filters (`internal/filter`) | the rules of a target | `Match` of a PR, of an issue | called by the collectors |
| Export (`internal/exporter`) | OTel readers, error counter, self-metrics | push, `ForceFlush`, `Shutdown` | OTLP endpoint, Prometheus, the runners' callbacks |
| Configuration (`internal/config`) | settings | `Load`: resolve, compile, validate, defaults | file, environment |
| Self-telemetry (`internal/telemetry`) | three providers with their exporters | `New`, `Shutdown` | environment, OTLP endpoints |
| main (`cmd/github-activity-exporter/main.go`) | context, wait group | startup in order, loops, shutdown | all of the above |

What is hard in it:

- *A scan is not a snapshot.* Pull requests are listed newest update first, page
  by page, while they go on changing. A PR that changes moves to the front,
  behind the cursor. The collector scans one window too far back and remembers
  what it counted, so that nothing is missed and nothing is counted twice.
- *Parts fail on their own.* A repo's scan may fail on any page, discovery may
  fail, a repo may be listed twice or vanish. Timestamps, windows and counters
  of that repo must stay in step with each other.
- *Many actors write one health state*: main, each loop, each HTTP response.
  `/healthz` must neither raise a false alarm during a pause of an hour nor
  miss a request that never returns, for there is no HTTP timeout.
- *Numbered pages shift.* Repositories and issues are listed by page number while
  some are created and removed: an item may come twice or not at all.
- *One reader for all.* Every target flushes through the same OTel reader, which
  also ticks on its own; a push mixes the cycles of all targets.
- *One quota for several clients.* Targets that share a credential each know the
  rate limit only from their own answers, and nothing of it after a restart.
- *Order at the edges*: startup, signals, the last cycle and the last flush, and
  what is left open when a step of the startup fails.

`PROJECT.json` lists each of these hazards at its line.

## Modules

| Module | What it is |
| --- | --- |
| `PREvents` | the event scan of one target, the timestamps of its loop, and GitHub |
| `EventLedger` | what the three event counters promise, in a page; `PREvents` implements it |
| `MCPREvents` | instances for TLC, and the reduced next-state relation |
| `PREvents_proof` | theorems about `PREvents`: what is counted is counted once, and real |
| `PREventsLoss_proof` | more of them: what should be counted is |
| `Discovery` | the discoverer, its callers, and the organisation it lists |
| `MCDiscovery` | instances for TLC |
| `Discovery_proof` | theorems about `Discovery` |
| `Selection` | operators: filters, query arguments, name and state conversions, dashboards |
| `Collect` | the listings of one repo's open PRs, issues and dashboard, over `Selection` |
| `MCCollect` | eight targets and dashboards for TLC |
| `Collect_proof` | theorems about `Selection` and `Collect` |
| `Export` | runners' cycles, the reader, pushes, and the end of the process |
| `MCExport` | an instance for TLC |
| `Export_proof` | theorems about `Export` |
| `Startup` | configuration, startup step by step, shutdown |
| `MCStartup` | the configurations and environments for TLC |
| `Startup_proof` | theorems about `Startup` |
| `Health` | tracker and probes, with startup, loops, GitHub's answers and shutdown |
| `MCHealth` | instances for TLC |
| `Health_proof` | theorems about `Health` |
| `RateLimit` | the clients of targets that share a credential: tokens, pauses, rate limit state, and GitHub's windows |
| `MCRateLimit` | instances for TLC, and the view that merges states nothing tells apart |
| `RateLimit_proof` | theorems about `RateLimit` |

Each module takes one question and keeps of its neighbours what the question
needs. `PREvents` counts events over a list of repos that `Discovery` provides;
`Collect` computes the open-state gauges of one such repo; `Export` takes a cycle
as "events recorded, then snapshots replaced" and follows it to the endpoint;
`Health` sees the same loop as a sequence of phases, and `Startup` the loops as
one stage of the process.

### PREvents

| Model | Code |
| --- | --- |
| `pr`, `updates` | GitHub's pull requests: state, times, and `stamp`, the place in the `UPDATED_AT` order |
| `start` | `start` in `Runner.collect`, `until` in `Collect` |
| `lastCollectedAt`, `windows` | the maps of the same names; 0 and `NoWindow` stand for a missing key |
| `scan` | the local state of `scanEvents` and `paginate`: `since`, cursor, `ev.counted` |
| `todo`, `listed`, `failed` | the loop over `repos`, `current`, `coll.failed` |
| `tally`, `series`, `autoSeries` | what the instruments were given |
| `happened` | history: the events that occurred on GitHub |
| `look` | history, per repo: since when its events are promised, the PRs that moved during its last recorded scan, and the events that two scans missed |

Actions: `StartCycle`, `Discover` / `DiscoverFails`, then for each listed repo
`OpenScan`, `EventPage` once per GraphQL page, `RecordRepo` or `ScanFails`, and
`FinishCycle`. Between any two of them GitHub may open, merge, close, reopen or
touch a PR and time may pass. `EventPage` is one action because its answer is a
snapshot of one query; `RecordRepo` is one because nothing else in the process
reads or writes the collector. A scan that fails leaves windows and counters alone.

`Discover` takes any list of `RepoLists`: the Runner sees an interface. With the
discoverer as main wires it the list does not change after its first success;
lists that shrink and grow belong to a discoverer whose `Start` runs, and lists
that name a repo twice to the explicit `repos` of the configuration.

Abstractions. The filter (`Selected`) is the `states` filter on the current
state and a fixed set `Foreign` of PRs rejected for their author or branch.
Labels and drafts, which can select a PR later than its events, are not in the
model. The open scan may only fail here; what it computes is `Collect`'s.

What the loss properties promise is `Promised`: an event that occurred within the
lookback while its repo was collected, that its PR still shows, and that is not
one of several closings. `SettledCounted` claims it for the last window and PRs
that rest, `NotLost` for everything out of the next scan's reach. An event in the
very second a cycle started belongs to that cycle's window but may come after its
scan, so the overlap has one chance to count it, not two: `missedTwice` says so.

### Discovery

| Model | Code |
| --- | --- |
| `target` | `Target`: `orgs` with their globs and `include_archived`, or the explicit `repos` |
| `created`, `archived` | GitHub: when each of the organisations' repos was created, 0 if it does not exist; a listing is ordered by it, newest first |
| `repos`, `initialized` | the fields of `Discoverer` that its lock guards |
| `refresh[p]` | the local state of `refresh` in the runner's call and in the goroutine of `Start`: organisation, page, repos found |
| `served` | what `Repos` last returned |

`CallRepos` returns the cached list or begins the first discovery; `StartOrTick`
is the goroutine of `Start`; `ReadPage` is a turn of `listOrgRepos`' loop, and at
an organisation's last page `discoverOrgs`' deduplication; `Store` takes the lock
and replaces the list; `ListFails` is any error, after which nothing is stored.
Between two of these steps repos are created, deleted, archived and unarchived.
A glob is the set of repos it matches. A list of repos is a function that tells
how often it names each one: nothing in the code or the properties depends on a
list's order, while repetition is what `ServedOnce` is about. `steady`, `removed`, `after`, `overtaken` are history:
what a listing should have seen, and which refreshes it began after.

`Started` says whether `Start` runs. The package offers and tests it, main never
calls it: the runs `discovery` and `discovery_stale` are the two cases.

### Selection and Collect

`Selection` translates the pure parts: `PRMatch`, `IssueMatch`, `ServerStates`
(the `states` argument of the query, with names that are no state skipped),
`AuthorLogin` (GraphQL drops the `[bot]` of an App's login), `NormaliseState`,
`IsDashboard`, `SectionCounts`. A name is a record of what the comparisons look
at: its word, its case, its suffix. A title pattern is the set of titles it
matches, a dashboard's body a sequence of headings, checkboxes and other lines.

`Collect` follows one repo through the collectors of a cycle (`at`, the index in
`Collectors`): `ReadPRs`, `ReadIssues` and `ReadOpenIssues` read one page each and
count what they observe, `Finish` and `Fail` go on to the next collector. Numbers
are shared by PRs and issues and grow with age, so PR pages (a cursor, oldest
first) and REST pages (numbered, newest first) are sets of numbers. `scan.seen`
keeps each counted observation with its page, which tells a second observation
of the same issue from the first; the gauges (`CountByState`, `OldestOpen`) are
read from it. What an item is (a PR or an issue, its author, labels, title) is
part of the target's configuration `world`, any for which users and labels are
names over `Words`. GitHub changes items while a listing runs; between listings
nothing reads them, so a change there equals one before the first page.
`PRStatsExact` compares with `Wanted`, what the filter means for a PR with all
its labels: a page brings `LabelLimit` of them, and PRs with more are excepted.

### Export

A counter and a gauge are each represented by the number of the cycle that wrote
them last, so "the push has all events up to cycle n" is a comparison.

| Model | Code |
| --- | --- |
| `pc[r]`: `idle` ... `flush`, `queued`, `served`, `ok`, `error` | `Runner.Run`, `runOnce`, `collect`, `flushMetrics` |
| `counter`, `snapshot` | the instruments; `latestPR`, `latestIssue`, `latestDash` |
| `registered` | the callbacks of `NewRunner`, removed when `Run` returns |
| `reader` | the goroutine of the SDK's PeriodicReader: one collection and push at a time |
| `main` | main after the loops have started: running, waiting for the loops, shutting down |
| `backend`, `attempted`, `failures` | the endpoint's last accepted push; history |
| `otlpErrors` | `github_exporter.otlp.errors` |

The SDK is external, modelled as the code relies on it: `Serve` begins a
collection for a tick, a flush or the shutdown; `ReadSnapshot` runs one runner's
callback; `ReadCounters` reads the counters after all callbacks; `Exported` and
`ExportFails` end the push, the latter through `errorCountingExporter`, which
counts the error and returns nil. `GiveUp` is a flush whose 30 seconds are over
or whose context is cancelled, queued or served. `Exit` unregisters the callback,
which waits for a collection in progress. `Shutdown` cancels a collection of the
ticker and makes one more collection and push. `DiscoveryFails` leaves
the old snapshots, `RepoFails` replaces them without the repo, and `StartCycle`
may come after the signal, as `Run`'s select may choose its timer.

### Startup

A case is a file and an environment, any that `ConfigFile` and `Environment`
type: strings are members of `Text`, the variables an auth block may name are
`EnvVars`, and numbers are unrestricted. `stage` follows main: `Load`, the health server, the product provider,
self-telemetry, the targets, the loops, the end. `Load` is one action: variables
resolved (`Resolved`), everything validated (`Valid`), then the default stall
timeout set. Self-telemetry is built signal by signal in two steps
(`BuildExporter`, `BuildProvider`), each of which may fail: `ExporterFails` leaves
through `Telemetry.Shutdown` of what was built, `BridgeFails` is the Prometheus
reader that fails with the metrics exporter just made. `open` is all that has connections or
goroutines. Failing steps exit at once, as `os.Exit` does, without the deferred
shutdown; the loops and the final push themselves are `Health`'s and `Export`'s.

### Health

Each field of `targetState` is a variable; each method of `Tracker` is one
atomic action (they hold one mutex), merged with the statement that calls it.
`main`, `at` follow the main goroutine: providers, one credential check per
target, one loop start per target, wait for the signal, wait for the loops.
`loop[t]` follows `runOnce`: `run`, `collect`, `flush`, `sleep`, then `returned`
after a signal. While it collects, GitHub answers requests
(`AnswerRequest`) and, for GitHub Apps, token exchanges (`AnswerExchange`), or a
request hangs (`Hang`). `answered` and `unauthorizedRun` are history: all that
GitHub answered, and the streak as README.md:184 defines it.

Time is discrete. `CycleBound` bounds a cycle that does not hang, pauses
included; the assumption `Interval + CycleBound <= StallTimeout` is what the
default timeout `2 * interval + 1h` grants to a cycle with an hour's pause and
an interval of work. `Prompt` makes a loop that does not hang move on before
its time is up. A configured `stall_timeout` may be shorter (it need only
exceed the interval); then nothing is claimed. A probe reads the clock just
before it takes the lock; the model reads both at once.

### RateLimit

`main` gives each target a client of its own, so targets configured with the
same credential share GitHub's quota but not what they know of it. A target's
loop makes one request at a time; `pc[t]` follows it through the transports in
the order in which `NewClient` nests them:

| Step | Code |
| --- | --- |
| `NewRequest` | `classifyPool` of the request's URL |
| `TakeToken`, `ExchangeToken`, `ExchangeFails` | `oauth2.Transport` asks the token source; `AppAuthenticator.Token` with its cache |
| `CheckPause`, `Resume` | `waitIfPaused`: the wait is computed once and not looked at again |
| `RoundTrip` | GitHub's answer and `updateRateLimit`, under the pool `responsePool` names |
| `Fail` | the context is cancelled, or the request fails |

`used` and `windowEnd` are GitHub's side: what a pool's window has counted, and
its end. `app` says what kind the credential is. The remaining count is not
kept: it only feeds a gauge. An answer has all headers (or none that names the
pool, which comes to the same), no reset time, an undocumented pool, or no usable
count, like a response that is lost after GitHub counted its request; `blind`
remembers the pools about which some answer told less than all.

GitHub's accounting is not in the repository; this is what is taken of it.

- A request costs between one and `Cost[p]` in its pool. REST requests cost one;
  the GraphQL pool counts points, and a page of PRs with its labels and reviews
  (`pr.go:44-65`) costs about two. `classifyPool` and the threshold of 200
  (`client.go:31`) know nothing of costs: the threshold leaves room for one more
  request of some 200 targets in REST pools, and of some 100 in the GraphQL pool.
- The windows at the start are arbitrary, in count and in end. The rate limit
  state lives in memory, so a process restarted by its liveness probe finds the
  windows its predecessor used, and knows nothing of them; and `main` checks each
  target's credential (`main.go:256`), by requests that no transport sees, before
  any loop starts. `low` remembers the pools whose open window was
  below the threshold already. Their first request of every target is sent
  blindly and may be refused.
- A request that does not fit is refused and not counted; its answer tells the
  same headers. (GitHub may let the last one through. The model refuses more.)
- While the process runs, nothing else uses the credential. Other requests of the
  same token, or those of a second process, could use up any window. Secondary
  rate limits are left out.

`QuotaKept` has the conditions that follow: that no request is refused needs the
room for one request of every target, at its cost, and a window that was not low at
the start. What holds even after a restart into a used-up window is that a target
is refused at most once, and sends nothing more to that pool until it is renewed;
this needs only that one request costs no more than the threshold.

Exchanges are not subject to the pause, since they use `http.DefaultClient`.
Time passes in pauses and between requests: a request that takes its token and
is not paused is sent at once. In the code the margin is five minutes, much more
than that takes.

## Runs

| Run | Shows |
| --- | --- |
| `pr_overlap` | with two PRs, one of them rejected by the filter, one PR per page and failing cycles: `SettledCounted` (an event whose PR rests is counted in its cycle) and `NotLost` (an event a scan missed is counted by the next one, unless its PR changes again) |
| `pr_lists` | two repos, listed twice, dropped, found again, lookback of two: the inductive invariant of all counting promises (`LossInv`), no event counted twice (`ImplementsLedger`), series before events |
| `discovery` | no steady repo is missed unless one was removed, none is served twice, a list only replaces a newer one if it is a first discovery's, and with `Start` a new repo is found |
| `collect` | PR counts and ages are exact up to what changed meanwhile; the query hides no selected PR; an issue is counted again only per created item; the dashboard is found and its sections are counted; the cycle ends |
| `export` | gauges never ahead of counters, push errors counted once, a flush covers its cycle, the final push is complete, counters never go back, a signal ends the process |
| `startup` | one credential per target, a usable configuration, the environment only restricts, nothing left behind by a failed start, the logs end last |
| `health_verdicts` | a token target and a GitHub App: no false stall, the documented unauthorized verdict for the token target, sticky readiness, the inductive invariant |
| `health_progress` | a hang is reported; a signal ends the process |
| `rate_limit` | two targets with one credential, two pools, any windows at the start: GitHub refuses no request of a window that was not low then, and a refused target waits (`QuotaKept`); a pause is for the request's own pool and ends with GitHub's window, a token expires only in a pause, the inductive invariant |

Three runs are expected to be violated; each shows that a sentence of the
repository says more than the code does (`findings` in `PROJECT.json` quotes
them):

| Run | Trace |
| --- | --- |
| `pr_missed_twice` | a PR is merged, changes while the scan pages, and changes again while the next scan pages: its merge is never counted |
| `discovery_stale` | `Start` is not called: the first discovery finds an empty organisation, a repo is created and never served |
| `rate_limit_token` | a request takes a token that has the margin left, pauses past its expiry, and is sent with it |

Divergences read in the code that no run shows: a PR closed, reopened and closed
again in adjacent windows is counted once, since the key of a counted event
(`pr.go:468`) is its number and kind; the `automerged` series appears with its
first event (`pr.go:577`); a token exchange's answer other than 401 does not
reach the tracker (`client.go:384`), so a GitHub App's verdict differs from
README.md:184; and a target with both `token` and `token_env` is accepted, the
variable winning (`config.go:278`), though README.md:106 says exactly one.

### Bounds, and why they suffice

- *`PREvents`.* One PR per page makes every PR a page boundary, and two PRs are
  needed for one to jump over the other. Three clock values hold two windows,
  four hold the three that an event needs to fall out of the overlap; several
  updates share a clock value, so equal timestamps occur everywhere. Five
  updates are an event, a jump in each of two scans, and two to spare.
- *`Discovery`.* Three repos, one a fork, one per page; two changes while two
  refreshes overlap are one that shifts the pages and one that undoes or repeats
  it. The configurations are a plain organisation with an excluded repo, one organisation
  listed twice with overlapping globs, and explicit lists, good and malformed.
- *`Collect`.* Four items, three of them there at first, one per page: every item
  is a page boundary, and three changes are a creation, a closing and a removal
  in one listing. The eight targets filter by author, branch, labels (one PR has
  more than the limit of two), drafts, states that name no open PR or no state at
  all, and titles; two of them have several dashboard candidates.
- *`Export`.* Two runners, one with two cycles and one with one, and one failing
  push: a push can then mix an old cycle of one runner with a new one of the
  other, and a flush can queue behind a tick or the other's flush.
- *`Startup`.* From a sound configuration each part takes all its values in
  turn: all auth blocks, all numbers around the bounds, endpoints, names,
  signals with their variables, destinations. The parts are checked
  independently by the code, so their product adds nothing.
- *`Health`.* Two targets overlap in every way, two unauthorized cycles make a
  streak and its reset, and four clock values hold a stall after a cycle and one
  in the first cycle; counts are only tested for zero, so one response of each
  kind per cycle is enough. `health_progress` leaves the answers out
  (`MaxResponses = 0`), since nothing about time or shutdown depends on them.
- *`RateLimit`.* Requests cost one or two. Two targets then may cost four after
  the low count, which is the threshold, so they are the most that `QuotaKept` is
  about; a limit of five holds a pool that is free, low, too full for one of the
  two costs, and empty. A threshold of three already lets GitHub refuse a
  request, and so does leaving out `low`. Three clock values hold a window, its end and the next.
  `rate_limit_token` has one target and five clock values, so that a token is
  also served from the cache after time has passed. `View` merges windows, pauses
  and tokens that are over with none at all: every guard and property compares
  them with the clock first. It also drops what is remembered of blind pools, about
  which nothing is claimed, and the pool `other`, to which no request belongs.

`MCPREvents` restricts when GitHub and the clock step: between cycles and
between pages (`ReducedNext`). Every other step of a cycle reads neither PRs nor
the clock in a way a property sees, so a GitHub step commutes with it: it can be
moved to the page before or to the end of the cycle without changing any state
in which a property is evaluated. `RecordRepo` reads PRs only for the history
`look`, where fewer updates make `NotLost` stronger; `FinishCycle` and
`DiscoverFails` read the clock for `wakeAt`, a lower bound that a later start
satisfies as well. `SelectedView` drops of a rejected PR all but its place in
the order: nothing else of it is ever read by a scan or a property. The proofs
are about the full `Next`, every state of it, and use neither reduction.

Deadlock is not checked: clocks, changes and cycles are bounded, a configuration
may be rejected, and the process ends.

### Fairness

- `Discovery!FairSpec`: the runner calls `Repos` every cycle, the ticker fires if
  there is one, and a refresh goes on: GitHub answers its pages. That a listing fails is
  never forced, and failures are bounded, so one of them does not keep a repo
  from being found at a later tick.
- `Collect!FairSpec`: every request is answered. Nothing is assumed of GitHub's
  changes, which are bounded; a page number that did not advance would go on for ever.
- `Export!FairSpec`: goroutines run; a flush is answered or gives up (its context
  has a deadline); a push ends (it has a timeout). `Exit` has strong fairness,
  for it waits for the SDK's lock, which is free between any two collections. The
  ticker and the signal are not forced.
- `Health!FairSpec`: goroutines are scheduled and time passes. `Hang` and the
  answers are never forced, and a hanging request moves only when the context is
  cancelled.

## Proofs

All with TLAPS, for every value of the constants and the modules' full `Spec`:
any number of repos, PRs, targets, pages, cycles and failures, any configuration.
Every safety invariant and every action property that a passing run checks is a
theorem, and so is the refinement of the ledger.

What is assumed is each module's `ParameterAssumption` and nothing else: positive
sizes, finitely many repos, PR numbers and targets (GitHub has no infinite ones,
and pages need a first and a last), lists, dashboards and configurations of the
right type, an organisation whose repos were created one after the other and a
target that names an organisation or a repo (`Discovery`), tokens that live at
least for the refresh margin and requests that cost something (`RateLimit`), names for the ticker and the final
push that no runner has (`Export`), and the bound on cycles above (`Health`). The sizes of the runs (clock,
updates, changes, items) are constants too, so the proofs hold for all of them.

**`PREvents_proof`**: `TypeCorrect`, `Invariant`, `NoDoubleCount`,
`CountsAreReal`, `SeriesExistFirst`, `Implementation`. That no event is counted
twice is not inductive. `Inv` adds why it holds:

- `WindowsOrdered`: a window starts no later than the repo's timestamp, and that
  no later than the last cycle;
- `CountedRemembered`: a counted event is behind the start of the repo's window,
  or among its remembered events; without a window it is behind the timestamp;
- `ScanInv`: what a scan has found so far lies in its window, is new to the
  remembered events and real, and the scan starts no earlier than the window;
- `VisibleHappened`: what a PR shows has happened;
- `SeriesInv`: a repo with a timestamp has its series, and a listed repo that
  did not fail has them at the end of the cycle;
- `AutomergedSeries`: the automerged series exists exactly since an unreviewed
  merge was counted.

Then a scan that counts an event cannot have met it before: it is after the
scan's start, hence after the window's start, hence it would be remembered.
`Implementation` maps `RecordRepo` to the ledger's `Count`, GitHub's steps to
`Occur` and everything else to a stutter.

**`PREventsLoss_proof`**: `LossInvariant`, `SettledEventsCounted`,
`EventsNotLost`: the other half, that nothing is missed. `LossInv` is `Inv` and

- `UpdatesOrdered`, `LifeOfPR`: the listing's order is that of the updates, an
  event is no later than its PR's last update, a merge is for good. So the paging
  passes over a PR only if it moves, which stamps it;
- `ScanSees`: of the PRs that rest since the cycle began, the scan has seen all
  the filter selects up to the cursor; the page on which it stops lists a PR no
  newer than the scan's start, so the PRs after it hold nothing of the window;
- `RememberedCounted`: a remembered event was counted, so leaving it out is right;
- `OverlapKept` and `CycleKeepsPromise`: of an event in a repo's last window it is
  counted, or its PR moved during that scan; and each repo a cycle has recorded
  already has what the cycle will owe it when its timestamp advances.

When a repo is recorded the events of the window before last leave the reach of
the next scan: each was counted, or its PR moved in both scans, which
is `missedTwice`. The failures of a cycle touch neither windows nor timestamps.

**`Health_proof`**: `Invariant`, `NoFalseStall`, `TokenVerdict`, `StaysReady`. The
invariant says which loops have started (`LoopsStarted`), that starts and cycles
are stamped in order (`TimesOrdered`), that a sleep ends an interval after the last
cycle and the next cycle within the stall timeout (`CyclesInTime`), and that the
counters follow the history (`TokensCounted`).

**`RateLimit_proof`**: `Invariant`, `PausesAreGitHubs`, `TokensLastWithoutPause`,
`SharedQuotaIsKept`. `TokenCovered` carries the margin of a token from its taking
to the sending, less the time paused. `PausesMatchWindow` says that a client's
running pause of a pool is the pool's open window: other targets' requests only
add to its count, and cannot open a new window before it ends. So a request
already paused, which never looks again, still waits for the right time.
`QuotaShared` is why targets that know nothing of each other keep a quota: what a
window has counted beyond `Limit - Threshold` is at most the cost of one request
for each target that `Knows`, that is, has seen a low count and will not send
again before the reset; and a target about to send is not among those. If the
threshold has room for one request of every target, the one that is about to send
always finds room (`AnswerFits`), in every window that began like this: a
new one, or one that was not low at the start. In any window, whoever was refused
has seen a count below the cost of its request, hence below the threshold, and
`Knows`. No cost and no first window is assumed; both are conditions
of the property itself (`FewTargets`, `low`).

**`Export_proof`**: `Invariance`, `GaugesCovered`, `ErrorsCounted`, `FlushCovers`,
`FinalComplete`, `CountersMonotone`. The invariant has one part per argument:
`EventsFirst` orders a cycle (snapshot, counter, cycle; gauges of a push, its
counters; endpoint, last push, counters), so what is read later is never older;
`FlushServed` says that the runner a push serves waits for it and has nothing of
its cycle changed since, so what the push read is still what the cycle wrote;
`Ending` says that a registered callback belongs to a running loop and that after
the loops only the final push is left, which then reads counters nobody writes
any more.

**`Discovery_proof`**: `Invariant`, `OnlyFirst`, `SteadyReposAreListed`,
`ReposAreServedOnce`. The runner refreshes only while there is no list, so when
two refreshes overlap, either the runner's or the one it overlaps began before
the first list was stored (`FirstRefreshes`). `NamedOnce` carries the
deduplication from entry to entry and into the list. `SteadyAhead` is the
argument about numbered pages: a repo's place in a listing is the number of newer
ones, which creations increase and only removals decrease; so a steady repo is
found already or has a place on a page to come, and the last page is the one
after which there is no place left.

**`Collect_proof`**: `Invariant`, `PRStatsAreExact`, `SelectedPRsAreListed`,
`IssuesAreCountedAgainPerCreation`, `OpenDashboardIsFound`, `QueuesCountSections`.

- PRs: the cursor is the largest number seen (`PRsSeenOnce`), so no PR is met
  twice, whatever changes; up to it every steady selected PR was observed as it
  is (`PRsAsListed`). That `AuthorLogin` undoes what GraphQL does to a login, and
  `NormaliseState` what it does to a state, are the lemmas that tie `Match` to
  what the filter means.
- Issues: a page may bring an issue again only if it was pushed back. Observations
  and the issues pushed back to pages to come (`PushedBack`) are together never
  more than the issues and the creations: a page turns pushed-back issues into
  second observations, a creation pushes back one more (`IssuesPaged`).
- Dashboard: a steady open one has a place on a page to come, until it is found
  (`DashboardAhead`).
- `SectionCounts` is a recursive function over the lines. That it is total and
  what it returns is shown without an induction scheme, from the least line at
  which the claim would fail.

**`Startup_proof`**: `Invariant`, `CredentialIsTheOneNamed`, `ConfigIsUsable`,
`EnvironmentOnlyRestricts`, `NothingIsLeftBehind`, `LogsEndLast`. `LoadedFirst`
says that the configuration main runs with is one that `Load` accepted;
`OpenAsBuilt` and `BuiltInOrder` that what is open is exactly what the stages so
far have built, signal by signal in the order of `New`; `TargetsInTurn` that the
authenticators made so far are those of the first targets' auth blocks. The
properties follow from these and the validations.

Only model-checked are the liveness properties `NewRepoFound`, `CycleEnds`,
`SignalEnds`, `HangReported` and `ShutdownCompletes`: fairness is out of the
prover's reach.

## Not modelled, and the plan

Left out of the modules above, in parts that are otherwise modelled: the time a
PR was open and its reviews (the close duration histogram, review states), the
counts of API errors and scrape durations, label counts (they follow the state
counts), the Prometheus scrape (a collection without a push), the contents of
keys and JWTs, and what viper does with files and environment overrides.

Next:

1. Extensions of `PREvents`: labels and drafts that change a PR's selection
   between its event and the scan, and a clock that differs from GitHub's, with
   the proofs carried along.
2. `RateLimit` with `Health`: a cycle that pauses in more than one pool against
   the stall timeout.
3. An abstract specification of the tracker, what the probes promise, and of the
   export, with `Health` and `Export` shown to implement them.

Not planned: generated constants (`internal/semconv`), the test stand-in
`pr_fixture.go`, charts, dashboards, registry and CI, which hold no behaviour of
the program; HTTP, TLS, JSON and OTel SDK internals, taken as the code uses them.
