----------------------------- MODULE MCRateLimit -----------------------------
(* Instances of RateLimit for TLC. *)
EXTENDS RateLimit, TLC

\* Requests of one point and of two, as those of GraphQL.
TwoPoints == [p \in Pool |-> 2]

\* Pools are alike, and so are targets.
Symmetry == Permutations(Pool) \cup Permutations(Target)

\* Never looked at again, and dropped: a window that has ended, a pause or a reset
\* time that has passed, what is remembered of a blind pool, and the pool "other",
\* to which no request is classified.
View ==
  LET live(p) == windowEnd[p] > clock
      pausing(t, p) == pools[t][p].paused /\ pools[t][p].resetAt > clock
  IN  <<[p \in Pool |-> IF live(p) THEN <<used[p], windowEnd[p]>> ELSE <<0, 0>>],
        [p \in Pool |-> IF live(p) /\ p \notin blind THEN <<refused[p], p \in low>>
                        ELSE <<{}, FALSE>>],
        [t \in Target |-> [p \in Pool |-> IF pausing(t, p) THEN pools[t][p] ELSE NoPool]],
        [t \in Target |-> IF Cached(t) THEN expiresAt[t] ELSE 0],
        [t \in Target |-> IF until[t] > clock THEN until[t] ELSE 0],
        clock, blind, app, pc, pool, token, waited>>
=============================================================================
