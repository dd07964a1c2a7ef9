---------------------------- MODULE MCDiscovery ----------------------------
(* Small instances of Discovery for TLC. *)
EXTENDS Discovery

CONSTANTS a, b, fork

Org(include, exclude, withArchived) ==
  [owned |-> Repo, include |-> include, exclude |-> exclude, archived |-> withArchived]

Counts(m, n, k) == [r \in Repo |-> CASE r = a -> m [] r = b -> n [] r = fork -> k]

OneOrg     == [orgs |-> <<Org(Repo, {b}, FALSE)>>, explicit |-> NoRepo, ok |-> TRUE]
\* The same organisation listed twice, with globs that overlap.
TwoEntries == [orgs |-> <<Org(Repo, {}, FALSE), Org({a}, {}, TRUE)>>, explicit |-> NoRepo, ok |-> TRUE]
Named      == [orgs |-> <<>>, explicit |-> Counts(2, 1, 0), ok |-> TRUE]
Malformed  == [orgs |-> <<>>, explicit |-> Counts(1, 0, 0), ok |-> FALSE]

OldRepos   == {Counts(2, 1, 0), Counts(1, 0, 2)}
NoRepoYet  == {NoRepo}

AllTargets == {OneOrg, TwoEntries, Named, Malformed}
JustOneOrg == {OneOrg}
=============================================================================
