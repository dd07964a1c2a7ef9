----------------------------- MODULE MCPREvents -----------------------------
(* Small instances of PREvents for TLC. *)
EXTENDS PREvents, TLC

AllStates   == {"open", "closed", "merged"}
OneRepo     == {<<r>> : r \in Repo}
ChangingLists == {<<r>> : r \in Repo} \cup {<<r, s>> : r, s \in Repo}

Symmetry == Permutations(Number)
RepoSymmetry == Permutations(Repo)

(***************************************************************************)
(* GitHub's steps commute with every step of the cycle that reads neither  *)
(* PRs nor the clock, so it is enough to take them between cycles and      *)
(* between pages.  (RecordRepo reads them for the history look only, where *)
(* a later update makes NotLost harder to satisfy.)                        *)
(***************************************************************************)
EnvironmentStep == Tick \/ \E r \in Repo, n \in Number : GitHubStep(r, n)

ReducedNext ==
  \/ pc \in {"idle", "page"} /\ EnvironmentStep
  \/ StartCycle
  \/ CycleStep

ReducedSpec == Init /\ [][ReducedNext]_vars

(***************************************************************************)
(* Of a PR the filter always rejects only its place in the UPDATED_AT      *)
(* order matters: its events, the times they carry and its missed updates  *)
(* are left out.                                                           *)
(***************************************************************************)
Rejected(n) == n \in Foreign

SelectedView ==
  <<clock, updates, {e \in happened : ~Rejected(e.number)},
    [r \in Repo |-> [n \in Number |->
       IF Rejected(n)
       THEN [pr[r][n] EXCEPT !.state = IF @ = "none" THEN @ ELSE "open", !.created = 0, !.ended = 0]
       ELSE pr[r][n]]],
    [r \in Repo |-> [look[r] EXCEPT !.moved = @ \ Foreign,
                                    !.missedTwice = {e \in @ : ~Rejected(e.number)}]],
    pc, cycle, todo, failed, scan, kept, tally, series, autoSeries>>
=============================================================================
