----------------------------- MODULE EventLedger -----------------------------
(***************************************************************************)
(* What the pull request counters promise (README.md, "PR events"): events *)
(* occur on GitHub; from time to time the exporter counts, all at once,    *)
(* some events of one repo that it has not counted yet, and never in the   *)
(* step that first creates the repo's series.                              *)
(***************************************************************************)
EXTENDS Naturals

CONSTANTS Repo, Number, Kind, Time

Event == [repo : Repo, number : Number, kind : Kind, at : Time]

VARIABLES happened, tally, series
vars == <<happened, tally, series>>

Init ==
  /\ happened = {}
  /\ tally = [e \in Event |-> 0]
  /\ series = {}

Occur ==
  /\ happened \subseteq happened'
  /\ UNCHANGED <<tally, series>>

Uncounted(r) == {e \in happened : e.repo = r /\ tally[e] = 0}

Count(r, events) ==
  /\ events # {} => r \in series
  /\ tally' = [e \in Event |-> IF e \in events THEN 1 ELSE tally[e]]
  /\ series' = series \cup {r}
  /\ UNCHANGED happened

Next == Occur \/ \E r \in Repo : \E events \in SUBSET Uncounted(r) : Count(r, events)

Spec == Init /\ [][Next]_vars
=============================================================================
