----------------------------- MODULE Comparison -----------------------------
(***************************************************************************)
(* What the diff service makes of two snapshots (internal/core/temporal):  *)
(* Compare, DetectQueryRegressions and DeriveEvents, over a history that   *)
(* inspections add to, through NewSnapshot, and that diffs read.           *)
(*                                                                         *)
(* Keys and objects are numbers in the order of their names.  Go visits a  *)
(* map in any order and its sort is not stable, so a report's lists are    *)
(* any arrangement that the sorts' comparisons allow.  Means are compared  *)
(* by cross-multiplication: floating-point rounding is left out.           *)
(***************************************************************************)
EXTENDS Integers, Sequences, FiniteSets, FiniteSetsExt, Functions

CONSTANTS
    Databases,          \* by name, the observations and deltas of its inspections
    Texts,              \* values that are not numbers
    MaxSnapshots,       \* most inspections
    None                \* no observation, no delta, no report

\* The id of an observation is its pair <<key, object>>.
Observations ==
    [id : Nat \X Nat, value : Int \cup Texts, exactness : STRING, sensitivity : STRING]
Deltas == [key : STRING, object : Nat, value : Int, exactness : STRING]

ASSUME ComparisonAssumption ==
    /\ MaxSnapshots \in Nat
    /\ None \notin Texts \cup Observations
    /\ \A d \in DOMAIN Databases : /\ Databases[d].observations \subseteq Seq(Observations)
                                   /\ Databases[d].deltas \subseteq Seq(Deltas)

VARIABLES
    database,   \* the target's name
    history,    \* the target's snapshots in order of time
    report      \* what the last diff printed, or None

comparisonVars == <<database, history, report>>

-----------------------------------------------------------------------------
(* Snapshots *)

\* NewSnapshot leaves out what carries the text of a query.  The others keep
\* their places, since Compare only asks which of two comes later.
Persistent(o) == o.sensitivity # "query_text"
Kept(observations) == {i \in DOMAIN observations : Persistent(observations[i])}
Snapshot(observations, deltas) ==
    [observations |-> [i \in Kept(observations) |-> observations[i]], deltas |-> deltas]

-----------------------------------------------------------------------------
(* Compare *)

Identities(list) == {list[i].id : i \in DOMAIN list}
Places(list, id) == {i \in DOMAIN list : list[i].id = id}
Ambiguous(list) == {id \in Identities(list) : Cardinality(Places(list, id)) > 1}

\* The later of two observations of one identity replaces the earlier.
Observed(list, id) == list[Max(Places(list, id))]

IsNumber(o) == o.value \notin Texts

\* Mutant: every counter-like number that falls is taken for reset.
FallsAtAll(before, after) ==
    IsNumber(before) /\ IsNumber(after) /\ after.value < before.value

IsReset(before, after) ==
    /\ IsNumber(before) /\ IsNumber(after)
    /\ before.exactness = "cumulative" /\ after.exactness = "cumulative"
    /\ after.value < before.value

NumericDelta(before, after) ==
    IF IsNumber(before) /\ IsNumber(after) /\ ~IsReset(before, after)
    THEN after.value - before.value
    ELSE None

Added(id, after) ==
    [kind |-> "added", id |-> id, before |-> None, after |-> after, delta |-> None]
Removed(id, before) ==
    [kind |-> "removed", id |-> id, before |-> before, after |-> None, delta |-> None]
Changed(id, before, after) ==
    [kind |-> IF IsReset(before, after) THEN "reset" ELSE "changed", id |-> id,
     before |-> before, after |-> after, delta |-> NumericDelta(before, after)]

\* Mutant: only the current snapshot is searched for duplicates.
AmbiguousNow(previous, current) == Ambiguous(current)

Skipped(previous, current) == Ambiguous(previous) \cup Ambiguous(current)

Compare(previous, current) ==
    LET had  == Identities(previous)
        has  == Identities(current)
        skip == Skipped(previous, current)
        both == {id \in (had \cap has) \ skip : Observed(previous, id) # Observed(current, id)}
    IN  {Added(id, Observed(current, id)) : id \in (has \ had) \ skip}
        \cup {Removed(id, Observed(previous, id)) : id \in (had \ has) \ skip}
        \cup {Changed(id, Observed(previous, id), Observed(current, id)) : id \in both}

-----------------------------------------------------------------------------
(* DetectQueryRegressions *)

Policy == [currentCalls |-> 10, previousCalls |-> 5, increase |-> 5, ratio |-> 2]

Samples(list, object, key) ==
    {i \in DOMAIN list : /\ list[i].object = object /\ list[i].key = key
                         /\ list[i].exactness = "sampled" /\ list[i].value >= 0}

\* The objects with both metrics, and their values.
Sampled(list) == {list[i].object : i \in DOMAIN list}
Windows(list) ==
    {o \in Sampled(list) : \A key \in {"calls", "latency"} : Samples(list, o, key) # {}}
Metric(list, object, key) == list[Max(Samples(list, object, key))].value

Window(previous, current, object) ==
    [object |-> object,
     calls   |-> Metric(current, object, "calls"),
     latency |-> Metric(current, object, "latency"),
     previousCalls   |-> Metric(previous, object, "calls"),
     previousLatency |-> Metric(previous, object, "latency")]

\* Mutant: total latencies instead of means.
TotalsRegressed(w) ==
    /\ w.calls >= Policy.currentCalls /\ w.previousCalls >= Policy.previousCalls
    /\ w.previousLatency > 0
    /\ w.latency - w.previousLatency >= Policy.increase
    /\ w.latency >= Policy.ratio * w.previousLatency

\* latency / calls against previousLatency / previousCalls.
Regressed(w) ==
    /\ w.calls >= Policy.currentCalls /\ w.previousCalls >= Policy.previousCalls
    /\ w.calls > 0 /\ w.previousCalls > 0 /\ w.previousLatency > 0
    /\ w.latency * w.previousCalls - w.previousLatency * w.calls
         >= Policy.increase * w.calls * w.previousCalls
    /\ w.latency * w.previousCalls >= Policy.ratio * w.previousLatency * w.calls

Regressions(previous, current) ==
    {w \in {Window(previous, current, o) : o \in Windows(previous) \cap Windows(current)} :
        Regressed(w)}

\* The added latency, calls * (mean - previous mean), of v against that of w.
AddedLatency(v, w) ==
    (v.latency * v.previousCalls - v.previousLatency * v.calls) * w.previousCalls
        - (w.latency * w.previousCalls - w.previousLatency * w.calls) * v.previousCalls

\* Mutant: the tie is not broken.
SlowerOnly(v, w) == AddedLatency(v, w) > 0

SlowerFirst(v, w) ==
    \/ AddedLatency(v, w) > 0
    \/ AddedLatency(v, w) = 0 /\ v.object < w.object

-----------------------------------------------------------------------------
(* DeriveEvents *)

EventType(kind) ==
    CASE kind = "reset" -> "signal_reset"
      [] kind = "added" -> "object_appeared"
      [] kind = "removed" -> "object_disappeared"

\* A change of value is no event; a regression has no signal key.
Events(changes, regressions) ==
    {[type |-> EventType(c.kind), object |-> c.id[2], key |-> c.id[1]] :
        c \in {d \in changes : d.kind # "changed"}}
    \cup {[type |-> "query_regression", object |-> w.object, key |-> 0] : w \in regressions}

TypeOrder == <<"object_appeared", "object_disappeared", "query_regression", "signal_reset">>
TypeRank(e) == CHOOSE i \in 1..4 : TypeOrder[i] = e.type

EventFirst(d, e) ==
    \/ TypeRank(d) < TypeRank(e)
    \/ TypeRank(d) = TypeRank(e) /\ d.object < e.object
    \/ TypeRank(d) = TypeRank(e) /\ d.object = e.object /\ d.key < e.key

\* What sort.Slice may leave of a set whose members arrive in any order, when
\* its less function is the relation less.
Arrangements(S, less) ==
    {s \in Bijection(1..Cardinality(S), S) : \A i, k \in DOMAIN s : i < k => <<s[k], s[i]>> \notin less}

SlowestFirst(regressions) ==
    Arrangements(regressions, {p \in regressions \X regressions : SlowerFirst(p[1], p[2])})
InOrder(events) == Arrangements(events, {p \in events \X events : EventFirst(p[1], p[2])})

-----------------------------------------------------------------------------
ComparisonInit == database \in DOMAIN Databases /\ history = <<>> /\ report = None

Save(observations, deltas) ==
    /\ Len(history) < MaxSnapshots
    /\ history' = Append(history, Snapshot(observations, deltas))
    /\ UNCHANGED <<database, report>>

\* The diff service's answer about the two latest snapshots.  Their times
\* differ, so DeriveEvents' check of the range lets them pass.
RunDiff ==
    /\ Len(history) >= 2
    /\ LET p == history[Len(history) - 1]
           c == history[Len(history)]
           changes == Compare(p.observations, c.observations)
           regressions == Regressions(p.deltas, c.deltas)
       IN  \E slow \in SlowestFirst(regressions),
              told \in InOrder(Events(changes, regressions)) :
             report' = [current |-> Len(history), changes |-> changes,
                        regressions |-> slow, events |-> told]
    /\ UNCHANGED <<database, history>>

ComparisonNext ==
    \/ \E o \in Databases[database].observations, d \in Databases[database].deltas : Save(o, d)
    \/ RunDiff

ComparisonSpec == ComparisonInit /\ [][ComparisonNext]_comparisonVars

-----------------------------------------------------------------------------
\* The diff is a patch: applied to what the previous snapshot says without
\* ambiguity it gives what the current one says, so nothing that happened is
\* left out and nothing else is reported.  An identity that is ambiguous in
\* either snapshot is not mentioned (handoff note: "ambiguous duplicate
\* observation identities are excluded from cross-snapshot comparison").
Evidence(list, ids) == {Observed(list, id) : id \in Identities(list) \cap ids}

DiffIsAPatch ==
    report # None =>
        LET p     == history[report.current - 1].observations
            c     == history[report.current].observations
            clear == (Identities(p) \cup Identities(c)) \ (Ambiguous(p) \cup Ambiguous(c))
        IN  /\ Evidence(c, clear) =
                 (Evidence(p, clear) \ {d.before : d \in report.changes})
                    \cup ({d.after : d \in report.changes} \ {None})
            /\ \A d \in report.changes : d.id \in clear /\ d.before # d.after
            /\ \A d, e \in report.changes : d.id = e.id => d = e

\* A snapshot that was never stored does not change the story: over three
\* snapshots that each hold a number for an identity, the numeric delta from
\* the first to the third is the sum of the two between, and a reset the long
\* diff reports is one that a short diff reports too.
Step(a, b) == [delta |-> NumericDelta(a, b), reset |-> IsReset(a, b)]

LongerDiffsAgree ==
    \A i, j, k \in DOMAIN history : i < j /\ j < k =>
        \A id \in Identities(history[i].observations) \cap Identities(history[j].observations)
                    \cap Identities(history[k].observations) :
            LET a == Observed(history[i].observations, id)
                b == Observed(history[j].observations, id)
                c == Observed(history[k].observations, id)
            IN  (a.exactness = b.exactness /\ b.exactness = c.exactness
                    /\ IsNumber(a) /\ IsNumber(b) /\ IsNumber(c)) =>
                  /\ Step(a, c).reset => Step(a, b).reset \/ Step(b, c).reset
                  /\ ~(Step(a, c).reset \/ Step(a, b).reset \/ Step(b, c).reset) =>
                        Step(a, c).delta = Step(a, b).delta + Step(b, c).delta
                  /\ a.exactness # "cumulative" => ~Step(a, c).reset

\* More load is no regression: a query is reported only when a call of it
\* takes longer, and a slowdown that goes on over two intervals is also seen
\* across both.
RegressionsAreOfLatency ==
    /\ \A i, j \in DOMAIN history : i < j =>
         \A w \in Regressions(history[i].deltas, history[j].deltas) :
            w.latency * w.previousCalls > w.previousLatency * w.calls
    /\ \A i, j, k \in DOMAIN history : i < j /\ j < k =>
         \A v \in Regressions(history[i].deltas, history[j].deltas),
            w \in Regressions(history[j].deltas, history[k].deltas) :
            v.object = w.object =>
                \E u \in Regressions(history[i].deltas, history[k].deltas) : u.object = v.object

\* A report can be reproduced: the same two snapshots give the same report,
\* list for list, although maps are visited in any order and the sort is not
\* stable.
ReportIsReproducible ==
    [][report # None /\ report'.current = report.current => report' = report]_comparisonVars
=============================================================================
