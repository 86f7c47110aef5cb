-------------------------- MODULE HistoryCommands ---------------------------
(***************************************************************************)
(* "dbprobe inspect" and "dbprobe diff" as processes that share one        *)
(* history: cmd/dbprobe (inspect.go, inspect_handler.go, history.go,       *)
(* diff.go), internal/app/inspect and internal/app/diff.  The history is   *)
(* the store SnapshotStore promises; the inspected database is one object  *)
(* whose state changes now and then, seen by the collectors some time      *)
(* before the report gets its time stamp.                                  *)
(***************************************************************************)
EXTENDS SnapshotStore

CONSTANTS
    Inspectors,  \* clients that run inspect
    Differs,     \* clients that run diff
    Formats,     \* values of --format in use
    MaxClock,    \* last tick of the wall clock
    MaxSetBacks, \* how often the wall clock is set back
    MaxChanges   \* most changes of the inspected object

ASSUME CommandsAssumption ==
    /\ {MaxClock, MaxSetBacks, MaxChanges} \subseteq Nat
    /\ Inspectors \cup Differs = Clients
    /\ Formats \subseteq {"text", "json"}
    /\ Times = 0..MaxClock
    /\ Metrics = 0..MaxChanges      \* the object's states, in order

VARIABLES
    clock,      \* wall clock, the same for all processes
    setBacks,   \* how often it has been set back
    high,       \* the latest reading it was set back from
    object,     \* how often the object has changed, which is its state
    changedAt,  \* the reading when each change happened
    pc,         \* per client: where its command is
    handle,     \* per client: "none", "open" or "closed" history
    run,        \* per client: the locals of its command
    report      \* per client: what its command printed

world == <<clock, setBacks, high, object, changedAt>>
commandVars == <<storeVars, world, pc, handle, run, report>>

Fresh == [target |-> Nothing, format |-> "text", calls |-> 0, seen |-> 0, gaps |-> FALSE,
          at |-> 0, warnings |-> {}, known |-> {}, current |-> Nothing]

CommandsInit ==
    /\ saved = {} /\ reply = [c \in Clients |-> Nothing]
    /\ clock = 0 /\ setBacks = 0 /\ high = -1
    /\ object = 0
    /\ changedAt = [k \in 1..MaxChanges |-> 0]
    /\ pc = [c \in Clients |-> "idle"]
    /\ handle = [c \in Clients |-> "none"]
    /\ run = [c \in Clients |-> Fresh]
    /\ report = [c \in Clients |-> Nothing]

Goes(c, place) == pc' = [pc EXCEPT ![c] = place]
Holds(c, state) == handle' = [handle EXCEPT ![c] = state]
Warn(c, w) == run' = [run EXCEPT ![c].warnings = @ \cup {w}]

-----------------------------------------------------------------------------
(* inspect *)

\* Arguments are valid; a history whose path does not resolve or that does
\* not open leaves a stateless inspection and one generic warning.
StartInspect(c, t, format) ==
    /\ pc[c] = "idle" /\ c \in Inspectors
    /\ \E opened \in BOOLEAN :
         /\ run' = [run EXCEPT ![c] = [Fresh EXCEPT !.target = t, !.format = format,
                                         !.warnings = IF opened THEN {} ELSE {"unavailable"}]]
         /\ Holds(c, IF opened THEN "open" ELSE "none")
    /\ Goes(c, "collect")
    /\ UNCHANGED <<storeVars, world, report>>

\* Planner.Run returns evidence, complete or with warnings of its collectors.
Collect(c) ==
    /\ pc[c] = "collect"
    /\ \E gaps \in BOOLEAN :
         run' = [run EXCEPT ![c].calls = @ + 1, ![c].seen = object, ![c].gaps = gaps]
    /\ Goes(c, "evaluate")
    /\ UNCHANGED <<storeVars, world, handle, report>>

\* Connecting or collecting fails: the history is closed, its error ignored.
CollectFails(c) ==
    /\ pc[c] = "collect"
    /\ Goes(c, "failed")
    /\ Holds(c, IF handle[c] = "open" THEN "closed" ELSE "none")
    /\ UNCHANGED <<storeVars, world, run, report>>

\* The rules are evaluated, then the report is stamped with the time.
StampReport(c) ==
    /\ pc[c] = "evaluate"
    /\ run' = [run EXCEPT ![c].at = clock]
    /\ Goes(c, IF handle[c] = "open" THEN "persist" ELSE "render")
    /\ UNCHANGED <<storeVars, world, handle, report>>

SnapshotOf(c) == [target |-> run[c].target, at |-> run[c].at, metrics |-> {run[c].seen}]

\* Mutant: a failure is not told.
PersistSilently(c) ==
    /\ pc[c] = "persist"
    /\ \/ run[c].gaps /\ Warn(c, "skipped") /\ UNCHANGED storeVars
       \/ /\ ~run[c].gaps
          /\ SaveSnapshot(c, SnapshotOf(c)) \/ RefuseCollision(c, SnapshotOf(c))
             \/ SaveUnconfirmed(c, SnapshotOf(c)) \/ FailOperation(c)
          /\ UNCHANGED run
    /\ Goes(c, "close")
    /\ UNCHANGED <<world, handle, report>>

\* persistHistory: an incomplete report is not stored, a failing store costs
\* a warning and nothing else.
Persist(c) ==
    /\ pc[c] = "persist"
    /\ \/ run[c].gaps /\ Warn(c, "skipped") /\ UNCHANGED storeVars
       \/ ~run[c].gaps /\ SaveSnapshot(c, SnapshotOf(c)) /\ UNCHANGED run
       \/ /\ ~run[c].gaps
          /\ RefuseCollision(c, SnapshotOf(c)) \/ FailOperation(c)
             \/ SaveUnconfirmed(c, SnapshotOf(c))
          /\ Warn(c, "failed")
    /\ Goes(c, "close")
    /\ UNCHANGED <<world, handle, report>>

\* The history is closed before anything is printed.
CloseAfterInspect(c) ==
    /\ pc[c] = "close"
    /\ Holds(c, "closed")
    /\ UNCHANGED run \/ Warn(c, "close uncertain")
    /\ Goes(c, "render")
    /\ UNCHANGED <<storeVars, world, report>>

\* The JSON surface prints the report's warnings, the terminal surface only
\* counts observations, deltas and findings.
Render(c) ==
    /\ pc[c] = "render"
    /\ report' = [report EXCEPT ![c] =
                    [warnings |-> IF run[c].format = "json" THEN run[c].warnings ELSE {}]]
    /\ Goes(c, "done")
    /\ UNCHANGED <<storeVars, world, handle, run>>

-----------------------------------------------------------------------------
(* diff *)

\* Without a history there is nothing to compare and diff fails.
StartDiff(c, t) ==
    /\ pc[c] = "idle" /\ c \in Differs
    /\ run' = [run EXCEPT ![c] = [Fresh EXCEPT !.target = t]]
    /\ \/ Holds(c, "open") /\ Goes(c, "latest")
       \/ UNCHANGED handle /\ Goes(c, "failed")
    /\ UNCHANGED <<storeVars, world, report>>

\* What the store answers when it is asked, or that it failed.
Asks(c, query) == query \/ FailOperation(c)

\* Latest, or the resolution of the target before it, may fail.  "known" is
\* the history at this moment; no code reads it.
DiffLatest(c) ==
    /\ pc[c] = "latest"
    /\ Asks(c, Latest(c, run[c].target))
    /\ IF reply'[c].op = "found"
       THEN /\ run' = [run EXCEPT ![c].current = reply'[c].snapshot, ![c].known = saved]
            /\ Goes(c, "previous")
       ELSE Goes(c, "give up") /\ UNCHANGED run
    /\ UNCHANGED <<world, handle, report>>

\* Mutants: the bound is truncated; the snapshots are swapped.
DiffPreviousTruncated(c) ==
    /\ pc[c] = "previous"
    /\ Asks(c, Previous(c, run[c].target, run[c].current.at - 1))
    /\ IF reply'[c].op = "found"
       THEN /\ report' = [report EXCEPT ![c] = [previous |-> reply'[c].snapshot,
                                                current  |-> run[c].current]]
            /\ Goes(c, "reported")
       ELSE Goes(c, "give up") /\ UNCHANGED report
    /\ UNCHANGED <<world, handle, run>>

DiffSwapped(c) ==
    /\ pc[c] = "previous"
    /\ Asks(c, Previous(c, run[c].target, run[c].current.at))
    /\ IF reply'[c].op = "found"
       THEN /\ report' = [report EXCEPT ![c] = [previous |-> run[c].current,
                                                current  |-> reply'[c].snapshot]]
            /\ Goes(c, "reported")
       ELSE Goes(c, "give up") /\ UNCHANGED report
    /\ UNCHANGED <<world, handle, run>>

\* Previous is a second transaction: snapshots may have been saved since.
\* The two are compared and the report is printed.
DiffPrevious(c) ==
    /\ pc[c] = "previous"
    /\ Asks(c, Previous(c, run[c].target, run[c].current.at))
    /\ IF reply'[c].op = "found"
       THEN /\ report' = [report EXCEPT ![c] = [previous |-> reply'[c].snapshot,
                                                current  |-> run[c].current]]
            /\ Goes(c, "reported")
       ELSE Goes(c, "give up") /\ UNCHANGED report
    /\ UNCHANGED <<world, handle, run>>

\* The deferred Close: its error makes a successful diff fail.
CloseAfterDiff(c) ==
    /\ pc[c] \in {"reported", "give up"}
    /\ Holds(c, "closed")
    /\ \/ Goes(c, "failed")
       \/ pc[c] = "reported" /\ Goes(c, "done")
    /\ UNCHANGED <<storeVars, world, run, report>>

-----------------------------------------------------------------------------
\* The process exits, or is killed; either way its history is gone with it.
Exit(c) ==
    /\ pc[c] # "idle"
    /\ Goes(c, "idle") /\ Holds(c, "none")
    /\ run' = [run EXCEPT ![c] = Fresh]
    /\ report' = [report EXCEPT ![c] = Nothing]
    /\ Forget(c)
    /\ UNCHANGED world

Tick ==
    /\ clock < MaxClock
    /\ clock' = clock + 1
    /\ UNCHANGED <<storeVars, setBacks, high, object, changedAt, pc, handle, run, report>>

SetBack ==
    /\ setBacks < MaxSetBacks
    /\ \E earlier \in 0..(clock - 1) : clock' = earlier
    /\ setBacks' = setBacks + 1
    /\ high' = IF clock > high THEN clock ELSE high
    /\ UNCHANGED <<storeVars, object, changedAt, pc, handle, run, report>>

ObjectChanges ==
    /\ object < MaxChanges
    /\ object' = object + 1
    /\ changedAt' = [changedAt EXCEPT ![object + 1] = clock]
    /\ UNCHANGED <<storeVars, clock, setBacks, high, pc, handle, run, report>>

Inspect(c) ==
    \/ \E t \in Targets, format \in Formats : StartInspect(c, t, format)
    \/ Collect(c) \/ CollectFails(c) \/ StampReport(c)
    \/ Persist(c) \/ CloseAfterInspect(c) \/ Render(c)

Diff(c) ==
    \/ \E t \in Targets : StartDiff(c, t)
    \/ DiffLatest(c) \/ DiffPrevious(c) \/ CloseAfterDiff(c)

CommandsNext ==
    \/ \E c \in Clients : Inspect(c) \/ Diff(c) \/ Exit(c)
    \/ Tick \/ SetBack \/ ObjectChanges

CommandsSpec == CommandsInit /\ [][CommandsNext]_commandVars

-----------------------------------------------------------------------------
\* An inspection whose printed report has no warning has its own complete
\* evidence in the history; every failure on the way there is one of the
\* warnings.  (The terminal surface prints none.)
StoredUnlessWarned ==
    \A c \in Inspectors :
        pc[c] = "done" /\ run[c].format = "json" /\ report[c].warnings = {} =>
            SnapshotOf(c) \in saved /\ ~run[c].gaps

Reported(c) == c \in Differs /\ pc[c] = "reported"

\* A diff compares two snapshots of the asked target that are in the history,
\* and skips none that was there when it began, although inspections save
\* between its two reads.
DiffSkipsNothing ==
    \A c \in Clients : Reported(c) =>
        LET p == report[c].previous
            n == report[c].current
        IN  /\ {p, n} \subseteq saved /\ p.at < n.at
            /\ p.target = run[c].target /\ n.target = run[c].target
            /\ \A s \in run[c].known : s.target = p.target => s.at <= p.at \/ s.at = n.at

\* The changes of the object between the states two snapshots saw.
ChangesBetween(p, n) ==
    {k \in Metrics \ {0} : \E i \in p.metrics, j \in n.metrics : k \in (i + 1)..j \cup (j + 1)..i}

\* Stamps this late are from after the clock was last set back.
AfterSetBacks(c) == report[c].current.at > high

\* DeriveEvents gives every event the time range from the previous to the
\* current snapshot.  Its upper bound is right: what the diff reports had
\* happened by observed_before, overlapping inspections included.
ObservedBeforeHolds ==
    \A c \in Clients : Reported(c) /\ AfterSetBacks(c) =>
        \A k \in ChangesBetween(report[c].previous, report[c].current) :
            changedAt[k] <= report[c].current.at

\* When inspections of the target do not overlap, a later snapshot never
\* shows an earlier state, so that an object that appeared is not reported
\* as one that disappeared.  Snapshots are ordered by the wall clock: one that
\* is set back spoils the diffs until it has passed its former reading, and
\* none after that.
DiffFollowsTime ==
    \A c \in Clients : Reported(c) /\ AfterSetBacks(c) =>
        \A i \in report[c].previous.metrics, j \in report[c].current.metrics : i <= j
=============================================================================
