----------------------------- MODULE Snapshots ------------------------------
(***************************************************************************)
(* The snapshots of internal/core/temporal/snapshot.go, as far as the      *)
(* history tells one from another: whose they are, when they were taken    *)
(* and which numeric evidence they carry.                                  *)
(***************************************************************************)
EXTENDS Integers, FiniteSets

CONSTANTS Targets,      \* target fingerprints
          Times,        \* collection instants (CollectedAt, in nanoseconds)
          Metrics       \* numeric observations and deltas a snapshot may carry

ASSUME SnapshotsAssumption == Times \subseteq Nat

SnapshotSet == [target : Targets, at : Times, metrics : SUBSET Metrics]

\* NewSnapshot hashes the target fingerprint and the time into the ID; the
\* hash is taken to be injective.
ID(s) == <<s.target, s.at>>

OneContentPerID(S) == \A r, s \in S : ID(r) = ID(s) => r = s

\* ORDER BY collected_at_ns DESC, id DESC LIMIT 1 over the snapshots of one
\* target, whose times are distinct because their IDs are.
Newest(S) == CHOOSE s \in S : \A r \in S : r.at <= s.at

\* The same order with LIMIT n, or without a limit for no n: a list is told by
\* its members, as the order of their times is its order.
NewestOf(S, n) ==
    IF n = 0 THEN S ELSE {s \in S : Cardinality({r \in S : r.at > s.at}) < n}
=============================================================================
