---------------------------- MODULE MCComparison ----------------------------
(***************************************************************************)
(* Values for Comparison: two identities of one key, observed up to twice  *)
(* each in a snapshot, or two queries with few or many calls.              *)
(***************************************************************************)
EXTENDS Comparison

Sighting(id, value, exactness, sensitivity) ==
    [id |-> id, value |-> value, exactness |-> exactness, sensitivity |-> sensitivity]

Counters == {Sighting(<<1, 1>>, v, "cumulative", "metadata") : v \in 0..2}
Gauges == {Sighting(<<1, 1>>, v, "scraped", "metadata") : v \in 0..1}
Others == {Sighting(<<2, 1>>, v, "scraped", "query_shape") : v \in {0} \cup Texts}
Statements == {Sighting(<<2, 1>>, v, "scraped", "query_text") : v \in Texts}

FewSightings ==
    {<<>>} \cup UNION {[1..n -> Counters \cup Gauges \cup Others \cup Statements] : n \in 1..2}

\* The deltas of a query's calls and total latency in one sample window.
Query(object, calls, latency) ==
    <<[key |-> "calls", object |-> object, value |-> calls, exactness |-> "sampled"],
      [key |-> "latency", object |-> object, value |-> latency, exactness |-> "sampled"]>>

Loads == {<<5, 5>>, <<10, 10>>, <<10, 60>>, <<10, 100>>, <<20, 20>>, <<20, 240>>}
Estimate == <<[key |-> "calls", object |-> 1, value |-> 50, exactness |-> "estimated"]>>

TwoQueries ==
    {<<>>, Estimate} \cup {Query(2, l[1], l[2]) : l \in Loads}
        \cup {Query(1, l[1], l[2]) \o Query(2, m[1], m[2]) : l, m \in Loads}

ObjectsAndQueries ==
    [objects |-> [observations |-> FewSightings, deltas |-> {<<>>}],
     queries |-> [observations |-> {<<>>}, deltas |-> TwoQueries]]

\* TLC computes these sets once, and not wherever Databases is used.
SmallDatabases == ObjectsAndQueries
=============================================================================
