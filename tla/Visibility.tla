----------------------------- MODULE Visibility -----------------------------
(***************************************************************************)
(* What comes and goes in the history although nothing came or went in the *)
(* server.  Inspections of one target, one after another: each discovers   *)
(* its capabilities (Capabilities), runs the collectors these allow, whose *)
(* queries end at a limit, and is stored unless it has a warning           *)
(* (internal/app/inspect/history.go); diff derives events from two stored  *)
(* snapshots that follow each other (internal/core/temporal).              *)
(*                                                                         *)
(* Evidence is the set of objects that were seen; an object belongs to the *)
(* collector that lists it.  Objects are numbers, in the order of their    *)
(* names.                                                                  *)
(***************************************************************************)
EXTENDS Capabilities, Integers, Sequences, FiniteSets

CONSTANTS
    Objects,        \* per collector: the objects it may find
    Room,           \* per collector: the most objects it keeps
    MaxChanges      \* most objects created or dropped

Collectors == DOMAIN Objects

ASSUME VisibilityAssumption ==
    /\ Collectors \subseteq DOMAIN CollectorRequires /\ DOMAIN Room = Collectors
    /\ \A c \in Collectors :
          Objects[c] \subseteq Nat /\ IsFiniteSet(Objects[c]) /\ Room[c] \in Nat \ {0}
    /\ \A c, d \in Collectors : c # d => Objects[c] \cap Objects[d] = {}

VARIABLES
    past,       \* the sets of objects the server has held, the last one now
    pc,         \* where the inspection is
    left,       \* collectors that are still to run
    seen,       \* objects in the report
    readAt,     \* per collector: its place in past when it was read (no code has this)
    warnings,   \* the report's warnings: <<what, about whom>>
    stored      \* the latest snapshots of the history, the two that diff compares

inspection == <<pc, left, seen, readAt, warnings>>
visibilityVars == <<caps, past, inspection, stored>>

AllObjects == UNION {Objects[c] : c \in Collectors}
Present(c) == past[Len(past)] \cap Objects[c]
Lacks == [c \in Collectors |-> 0]

VisibilityInit ==
    /\ CapabilitiesInit
    /\ past \in {<<S>> : S \in SUBSET AllObjects}
    /\ pc = "idle" /\ left = {} /\ seen = {} /\ readAt = Lacks /\ warnings = {}
    /\ stored = <<>>

ServerChanges ==
    /\ Len(past) <= MaxChanges
    /\ \E o \in AllObjects :
         LET now == past[Len(past)]
         IN  past' = Append(past, (now \cup {o}) \ (now \cap {o}))
    /\ UNCHANGED <<caps, inspection, stored>>

-----------------------------------------------------------------------------
(* One inspection *)

\* openRuntime, and the planner's selection of collectors.
OpenTarget ==
    /\ pc = "idle"
    /\ Discover
    /\ left' = Selected(caps') \cap Collectors
    /\ pc' = "collect"
    /\ UNCHANGED <<past, seen, readAt, warnings, stored>>

\* The process ends, and what it knew with it.
Ends ==
    /\ pc' = "idle" /\ Close
    /\ left' = {} /\ seen' = {} /\ readAt' = Lacks /\ warnings' = {}
    /\ UNCHANGED <<past, stored>>

Counters == {"queries", "indexes", "tables", "health_counters"}

\* The batches: the counters' samples follow the snapshot collectors.  Only
\* the second sample's observations are kept; the first one's add deltas and,
\* like every other reset or failure, a warning (Planner).
Turn(c) ==
    /\ pc = "collect" /\ c \in left
    /\ c \in Counters => left \subseteq Counters
    /\ left' = left \ {c}
    /\ UNCHANGED <<caps, past, pc, stored>>

\* ORDER BY a load, which any object may lead by now, or by name.
ByLoad == {"queries", "tables"}
FirstOf(S, n) == {o \in S : Cardinality({p \in S : p < o}) < n}
Cuts(c, S, n) ==
    IF Cardinality(S) <= n THEN {S}
    ELSE IF c \in ByLoad THEN {T \in SUBSET S : Cardinality(T) = n}
    ELSE {FirstOf(S, n)}

\* The schema risk scans ask for one row beyond what they keep.
RiskScans == {"primary_keys", "auto_increment"}

\* Mutant: the scan warns when it is full.
OverflowsWhenFull(c, returned) ==
    c \in RiskScans /\ Cardinality(returned) >= Room[c]

Overflows(c, returned) == c \in RiskScans /\ Cardinality(returned) > Room[c]
Queried(c) == Room[c] + (IF c \in RiskScans THEN 1 ELSE 0)

\* A list that goes on beyond a risk scan's limit is an error beside the
\* observations; any other list just ends there.
Collect(c) ==
    /\ Turn(c)
    /\ \E returned \in Cuts(c, Present(c), Queried(c)) :
         /\ seen' = seen \cup FirstOf(returned, Room[c])
         /\ warnings' = warnings \cup (IF Overflows(c, returned) THEN {<<"truncated", c>>} ELSE {})
    /\ readAt' = [readAt EXCEPT ![c] = Len(past)]

\* The query or a row fails and there are no observations, or only the first
\* sample failed, or a counter was reset after it.
CollectFails(c) ==
    /\ Turn(c)
    /\ \E returned \in {{}} \cup Cuts(c, Present(c), Room[c]) : seen' = seen \cup returned
    /\ warnings' = warnings \cup {<<"failed", c>>}
    /\ readAt' = [readAt EXCEPT ![c] = Len(past)]

\* Planner.Run returns an error, and so does the inspection.
InspectionFails == pc = "collect" /\ Ends

Snapshot == [seen |-> seen, caps |-> caps, readAt |-> readAt]
LastOf(history) == IF history = <<>> THEN <<>> ELSE <<history[Len(history)]>>

\* Mutant: what was collected is stored, warnings or not.
PersistIncomplete ==
    /\ pc = "collect" /\ left = {}
    /\ stored' = Append(LastOf(stored), Snapshot)
    /\ pc' = "done"
    /\ UNCHANGED <<caps, past, left, seen, readAt, warnings>>

\* persistHistory; the history may fail, or not be there at all.
Persist ==
    /\ pc = "collect" /\ left = {}
    /\ \/ /\ warnings = {}
          /\ stored' = Append(LastOf(stored), Snapshot)
          /\ UNCHANGED warnings
       \/ /\ \/ warnings # {} /\ warnings' = warnings \cup {<<"skipped", "history">>}
             \/ warnings = {} /\ warnings' = {<<"failed", "history">>}
          /\ UNCHANGED stored
    /\ pc' = "done"
    /\ UNCHANGED <<caps, past, left, seen, readAt>>

\* The report is printed and the runtime closed.
Leave == pc = "done" /\ Ends

VisibilityNext ==
    \/ ServerChanges \/ OpenTarget
    \/ \E c \in Collectors : Collect(c) \/ CollectFails(c)
    \/ InspectionFails \/ Persist \/ Leave

VisibilitySpec == VisibilityInit /\ [][VisibilityNext]_visibilityVars

-----------------------------------------------------------------------------
Held(s, c) == past[s.readAt[c]] \cap Objects[c]

\* What keeps an object out of a snapshot: its collector was not allowed to
\* run, it was not there at the moment of the query, or the collector's list
\* is full.  All but the moment can be told from the snapshot itself.
Explained(s, c, o) ==
    \/ ~(CollectorRequires[c] \subseteq s.caps)
    \/ o \notin Held(s, c)
    \/ c \notin RiskScans /\ Cardinality(s.seen \cap Objects[c]) = Room[c]

\* An event of a diff, "observed" or "no longer observed", is about an object
\* that was there in one inspection and has an explanation in the other, and
\* an object in both snapshots was there both times.  No collector that
\* failed halfway, no list of a risk scan that goes on, and no inspection in
\* between that was not stored makes an object come or go.
EventsAreExplained ==
    Len(stored) = 2 =>
        \A c \in Collectors, o \in AllObjects : o \in Objects[c] =>
            \A i, j \in 1..2 : o \in stored[i].seen =>
                /\ o \in Held(stored[i], c)
                /\ o \in stored[j].seen \/ Explained(stored[j], c, o)

\* Whether an inspection on which nothing fails is kept depends on the size
\* of the schema: it enters the history if, and only if, every risk scan
\* fits its limit.  A schema one table larger never has a history.
StoredIfItFits ==
    pc = "done" /\ (\A w \in warnings : w[1] # "failed") =>
        (/\ stored # <<>> /\ stored[Len(stored)] = Snapshot
         <=> \A c \in RiskScans \cap Collectors \cap Selected(caps) :
                 Cardinality(Held(Snapshot, c)) <= Room[c])
=============================================================================
