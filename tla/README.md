# dbprobe in TLA+

Specifications of the parts of dbprobe where order, failure and concurrency
matter, their model-checking configurations, and proofs about the worker pool
and the planner that collect the evidence, the rules that judge it, the two
histories, the inspect, diff and explain commands, what successive inspections
store, and the comparison of two snapshots.
Paths are relative to `src/`.

## The system

dbprobe is a command line tool. `dbprobe inspect <target>` opens an adapter for
a database, collects evidence once, evaluates rules, prints a report and saves a
snapshot in a local SQLite history; `dbprobe diff <target>` compares the two
latest snapshots of a target; `dbprobe explain` asks the database for a plan.

| component | state | operations | what is hard | what makes it correct |
|---|---|---|---|---|
| collection planner (`internal/core/collection/planner.go`) | one run's batches, samples, warnings | `Run`, `runBatch`, `RealWaiter.Wait` | goroutines, channels, cancellation, partial failure, a window between samples, counters that are reset, estimates among them that fall | all results or an error, nothing twice, nothing after a cancellation, no goroutine left, the window between the samples, honest deltas |
| snapshot and store contract (`internal/core/temporal/snapshot.go`, `store.go`) | - | `NewSnapshot`; `Save`, `Latest`, `Previous`, `List` | - | identity derived from target and time |
| SQLite history (`internal/platform/sqlite`) | the file, open transactions | `Open`, `migrate`, `Save`, `Latest`, `Previous`, `List`, `Close` | several processes on one file, statements that fail, commits whose outcome is unknown, processes that die | atomic, idempotent, append-only, trend rows match snapshots |
| inspect (`cmd/dbprobe/inspect*.go`, `internal/app/inspect`) | a report being built, the history handle | open, collect, evaluate, persist, close, render | every step of the history may fail and must not fail the inspection | stored, or the report warns; released on every path |
| diff (`cmd/dbprobe/diff*.go`, `internal/app/diff`) | two snapshots read one after the other | `Latest`, `Previous`, compare, render | inspections save in between, the wall clock is set back | nothing skipped, event ranges hold |
| comparison (`internal/core/temporal/diff.go`, `query_regression.go`, `events.go`) | - (pure) | `Compare`, `DetectQueryRegressions`, `DeriveEvents` | ambiguity, resets, thresholds, map order, unstable sort | a diff is a patch, diffs compose, reports are reproducible |
| in-memory store (`internal/platform/baseline`) | a map under a read-write lock | as the store | readers copy the map item by item while others save; the first of two conflicting snapshots silently stays | the same atomic store, whoever else uses it |
| MySQL collectors (`adapters/mysql/collectors`) | - | `Collect` | truncation at limits, lists ordered by a load that changes, several statements without a common snapshot | bounded, honest about truncation |
| schema fingerprint (`collectors/schema_fingerprint.go`) | records and budgets of one collection | `Collect`, `writeLengthPrefixed` | six statements against concurrent DDL, values of any content, four limits | equal exactly for the same rows, limits hold for the whole |
| findings rules (`internal/core/findings`, `adapters/mysql/findings`) | - (pure) | `Evaluate` | a search in a cyclic graph, thresholds, evidence that is missing or cut off | deterministic, monotone, rests on what was seen only |
| explain (`cmd/dbprobe/explain.go`, `internal/app/explain`, `adapters/mysql/explain*.go`) | a read-only transaction with a timeout | open, probe, plan, roll back, sanitize, close | the timeout races the rollback, servers that hang | nothing left behind, nothing but allowed values reported, ends |
| MySQL adapter (`adapters/mysql/*.go`) | connection pool, capabilities | `Open`, `Close`, capability probes | probes that fail, for good or once | no capability without a probe, rules only on evidence that is collected, pool closed |
| registry, target resolution, credentials, data directory, surfaces, root command | - | - | - | sequential, without state |

How they interact: the commands open the history before they connect, hand it
to a service, and close it before they print. The inspect service calls
`Planner.Run` with the adapter's collectors, stamps the report with the time,
and passes it to `persistHistory`, which calls `Store.Save`. The diff service
makes two calls of the store and passes the snapshots to `Compare`. Processes
meet in the SQLite file only.

`PROJECT.json` lists the hazards of this code, each at its line, with the
properties that watch them.

## Modules

    BatchSpec                    what a call of runBatch offers
       ^ implemented by
    RunBatch                     producer, workers, channels, cancellation
       ^ extended by
    Planner                      Planner.Run: phases, window, deltas, warnings
       ^ extended by
    PlannerProofs                theorems about RunBatch and Planner

    Snapshots                    what a snapshot is to the history
       ^ extended by
    SnapshotStore                the atomic store the services rely on
       ^ implemented by             ^ extended by
    SqliteStore                  HistoryCommands
      the history file             inspect and diff over the store
    MemoryStore
      the map behind a lock
    MemoryStoreProofs            theorems about MemoryStore
    SqliteStoreProofs            theorems about SqliteStore
    HistoryCommandsProofs        theorems about HistoryCommands

    Capabilities                 probes, what collectors and rules require
       ^ extended by
    Visibility                   inspections in a row: what the history gets to see
       ^ extended by
    VisibilityProofs             theorems about Visibility

    SchemaFingerprint            six statements, limits, encoding, hash
    Comparison                   Compare, regressions, events
       ^ both extended by
    ComparisonProofs             theorems about what is compared

    Collectors                   rows to observations, limits
       ^ extended by
    Findings                     the rules over observations and deltas
       ^ extended by
    FindingsProofs               theorems about the rules

    Explain                      the explain command, its transaction and filter
       ^ extended by
    ExplainProofs                theorems about Explain

Modules whose names begin with `MC` only hold values for the constants.

### RunBatch and BatchSpec

`RunBatch` has the goroutines of one `runBatch` call: the producer is in its
loop's check, in its select, or has closed the channel; each worker waits on the
channel, checks the context, collects, sends its result, or is done. `Send` is
the rendezvous on the unbuffered `jobCh`; `resultCh` is a sequence with the
capacity of the batch. `Cancel` may come between any two steps, and `StartBatch`
is the call itself, with its early return for an empty batch. What a collector
returns does not influence any of this, so a job is its index. The sort of the
results by index at the end restores the order of the jobs; it is left out
because `Delivered` is a set.

`BatchSpec` says the same without goroutines: jobs are begun at most once, never
more than `Bound` at a time and none after a cancellation; the call returns with
all results or with the cancellation, with no job running. `KeepsBatchPromise`
is the refinement: a job runs from its worker's check of the context until its
result is buffered.

### Planner

`Planner` extends `RunBatch` with `Planner.Run`. `stage` follows the function
through the snapshot batch, phase A, the wait, phase B and the two ways out.
`evidence` records for every phase and collector what `Collect` returned and
when, `observed`, `delta` and `warnings` are the result. Time is a clock that
the environment moves; the inspected database is one number that grows, is reset
to zero or, where it is an estimate, falls, at any moment (`CounterGrows`,
`CounterResets`, `EstimateFalls`; each collector reads it at its own moment, so
that one number is enough). It starts above zero, so that a reset can be told
from a second sample that is the same. `AfterSingle`, `AfterSampleA`, `AfterSampleB` are
what the function does when a batch is back, `AfterCancelledBatch` is its return
when `runBatch` has an error, `WaitElapses` and `WaitCancelled` are the two arms
of `RealWaiter.Wait`. Rates are deltas divided by the constant window.

### Snapshots, SnapshotStore and SqliteStore

A snapshot is its target, its time and the set of its numeric evidence; its ID
is a hash of the first two, taken to be injective. `SnapshotStore` is the
contract of `temporal.Store` as the services use it: each operation happens at
one instant and may fail. What becomes of a different snapshot with a stored ID
is the constant `Conflicts`: the SQLite store refuses it, the in-memory store
accepts the call and keeps the first. An operation that fails has no effect,
except for a commit that reports an error and is durable all the same
(`SaveUnconfirmed`). `SqliteStore` has the statements: `ReadVersion` outside
of a transaction, the migration, the `Save` transaction with `INSERT OR IGNORE`,
the comparison with what is stored, one insert per trend metric, the commit; the
one statement each of `Latest`, `Previous` and `List`; and `Fail` and `Crash` at
every point. SQLite is not part of the repository: it is modelled as committed
content, a write lock, and uncommitted writes that a commit publishes at once (a
write transaction of the driver's connection). A commit that reports an error
may have published them (`CommitUnconfirmed`) or not (`Fail`).
`ImplementsStore` maps the committed rows to `saved`; a snapshot appears with
the commit, and its metrics are those of its trend rows, which
`TrendsMatchSnapshots` also ties to the payloads.

### MemoryStore

The second implementation of `SnapshotStore`. A call takes its lock, works and
gives the lock back in steps of its own; `Announce` and `Acquire` are
`sync.RWMutex.Lock`, which holds off new readers before the present ones have
drained. `ScanItem` is one turn of the loop that copies a target's snapshots out
of the map, in any order, and `Chosen` is what `Latest`, `Previous` and `List`
make of the copy. `MemoryImplementsStore` is the refinement: a save takes effect
in `Put`, a read where it leaves with its copy (`RUnlock`).

### Capabilities and Visibility

`Capabilities` has the probes of `discoverCapabilities`, with the ones that are
only asked when the performance schema can be read, and for every collector and
every rule what it requires and which keys it makes or reads; `Selected` and
`Evaluated` are the two `HasAll` loops. `Visibility` runs inspections of one
target one after another against a server whose objects come and go: each
discovers its capabilities, runs the selected collectors, the counters last,
each with a list that ends at its limit, and is stored unless it has a warning.
`past` remembers what the server has held and `readAt` when a collector looked;
no code reads these two. Whether a list is cut by name or by a load, which any
object may lead by then, is `Cuts`.

### SchemaFingerprint

One collection is six statements; each sees the catalog of its moment and
returns its rows in any order, and `Alter` changes the catalog between any two
steps. `Record` and `LengthPrefixed` are the encoding, `HashSchemaRecords` what is
written to the hash after the sort (`Sorted`, by the records' bytes), `Fits` the
limits of a row. Three abstractions: a statement is atomic, the hash is injective
(what is hashed stands for it), and the four bytes of a length are one number.
Values are sequences of numbers, chosen so that without lengths, kinds or the flag
of a NULL default they run into one another. The SELECT lists write NULL as the
empty string, and only a column's default, which comes last in its row here, has a
flag beside it: `FingerprintAssumption` says that no other value is NULL in one
row and empty in another, which is how the server's catalog is.

### HistoryCommands

Several inspect and diff processes over `SnapshotStore`, one action for each
place where they touch the history, the world or each other: `StartInspect`
(target resolved, history opened or a warning), `Collect` (what the inspected
object is at that moment), `StampReport` (`CollectedAt`, after the rules),
`Persist`, `CloseAfterInspect`, `Render`; `StartDiff`, `DiffLatest`,
`DiffPrevious`, `CloseAfterDiff`. `Exit` ends a process at any point, and
`SetBack` sets the wall clock back; `high` remembers its highest reading. The
inspected object is a number that grows, `changedAt` remembers when, so that the
time ranges of events can be compared with the truth; `known` remembers what the
history held when a diff began. No code reads these three.

### Comparison

The pure functions of `internal/core/temporal`, as operators, and a history that
`Save` extends and `RunDiff` reads. Go's map order and the unstable `sort.Slice`
are nondeterminism: `Arrangements` is every list that the comparison function
allows. `Snapshot` drops the observations that carry the text of a query; the
others keep the places they had in the list, since `Compare` only asks which of
two comes later. Floating-point arithmetic is replaced by exact arithmetic on integers.
`database` is the name of one of `Databases`: what the inspected target may
show.

### Collectors and Findings

A state of `Collectors` is what one inspection gets to see: the rows that the
collectors' queries return, and the deltas the planner made. A step goes to a
server with one row more (`OneMoreRow`), so that a path of states is a comparison
of inspections with less and more evidence. `Queried`, `Kept` and `Truncated` are the limits;
one operator per collector makes observations of a row. `Findings` has one
operator per rule. The search of the wait-for graph is `BlockingDepth`, a
recursive function over a node and the path to it, as in the code. An observation
is known by its place, the row and its number in what the collector makes of the
row: `Said`, `Delta` and `FirstNumber` take the observation with the last or the
first place of several, `Older` compares places across two inspections.

### Explain

`pc` follows the command from its arguments through `openRuntime`, the probe for
`query.explain`, the transaction, the filter and the deferred `Close` to the end
of the process. `tx` is what `database/sql` thinks of the transaction, `session`
what the server does. `AwaitDone` is the goroutine that `database/sql` starts
with a transaction: when `planCtx` is over it ends the transaction, and the
command's own `Rollback` then returns an error (`Rollback`, second disjunct).
`ServerHangs` may come at any time. A plan is a function from paths to sorts of
JSON values; `Sanitized` decides from the leaves up which values stay, as the
two recursive functions of the code do.

## Runs

| run | question | bounds, and why they are enough |
|---|---|---|
| `run_batch` | does one batch keep its promise, whatever is cancelled when; is the invariant of the proofs true | 0 to 4 jobs, 2 workers: jobs queue behind both workers twice |
| `planner` | do the phases rest on complete batches; are deltas honest; does `Run` return | 2 collectors of any kind, each slow or answering in part, window 0 or 1, clock to 2, 1 increment and 1 reset or fall of an estimate: before, between and after the samples of either collector |
| `planner_estimate` | *violation*: a falling estimate that is called a counter reset | 1 worker is enough |
| `sqlite_store` | is the file an atomic store | 2 processes, 1 target, 2 times, 3 metrics with at most 2 trend rows: conflicting identities, oversized snapshots, one insert per row; lists with and without a limit |
| `memory_store` | is the map behind the lock the same store | 3 goroutines, so that one writes, one waits to write and one reads, or two read; 2 times of 1 target, with and without the one metric: conflicting identities; lists with and without a limit |
| `inspect_and_diff` | what do overlapping inspections and a diff see | 2 inspectors, 1 differ, 2 instants, 1 change, the clock set back once |
| `inspect_in_turn` | what does a diff see of inspections one after another | 1 inspector, 1 differ, 4 instants, 1 change, the clock set back once, so 3 or more snapshots, and some between the former reading and the present one |
| `visibility` | what may differ between two stored snapshots although nothing changed; what are rules evaluated on | a list by load that is cut without a word and a list by name that is cut with a warning, each with room for one object of two; 2 changes of the server; one probe that fails on some inspections; all 2^14 sets of failing probes for the rules |
| `schema_fingerprint` | is a fingerprint equal exactly for the same rows; do the limits hold for the whole | 2 fingerprints, 2 DDL statements between any two rows, 6 catalogs that differ where an encoding may not tell or that exceed one of the limits |
| `comparison` | are diffs patches, do they compose, are regressions of latency, are reports reproducible | every 3 snapshots of up to 2 observations, or of 2 queries with loads at and around every threshold |
| `findings` | do findings rest on what was seen, in any order; are worse servers ever judged milder | servers of up to 6 rows (11 waits on one table), values beside every threshold, lists longer than their limits, wait-for graphs of 4 transactions with cycles |
| `explain` | is anything left behind, is the safe part of a plan reported, does the command end | one command, 389 plans of depth up to 4 that have every sort of value under allowed and other keys |

Bounds that the code does not have: `MaxJobs`, `MaxClock`, `MaxGrowth`,
`MaxFalls`, `MaxChanges`, `MaxSetBacks`, `MaxAlterations`, `MaxCollections`,
`MaxSnapshots`. Each only limits the environment. `Limits`, `MaxTrendRows`,
`Room` and the four `Max...` of `SchemaFingerprint`'s records are limits of the
code with small values. Inspectors, differs, processes and goroutines are
symmetric where the cfg says so. `MCInspectAndDiff` and `MCOneInspector` run
with the JSON format only, since what is printed as text has no warnings.

What passes shows, in short: `runBatch` returns everything or an error although
a worker may drop a job it received (`AllResultsOrError`); the result channel
never blocks a worker, and a cancelled batch leaves no goroutine
(`BatchInv`, `NoGoroutineLeak`); the window lies between all first and all second samples
(`WindowBetweenSamples`); a delta is never larger than the counter's growth, and
nothing but a reset or a falling estimate makes a reset warning
(`DeltaNeverOverstates`); the history file behaves as one atomic append-only
store for all processes, commits of unknown outcome included (`ImplementsStore`),
and so does the map in memory for all goroutines (`MemoryImplementsStore`); an
inspection that prints a JSON report without a warning is in the history
(`StoredUnlessWarned`); a diff
skips no snapshot it could have known (`DiffSkipsNothing`), what it reports
had happened by `observed_before` (`ObservedBeforeHolds`), and inspections in turn
are compared in their true order (`DiffFollowsTime`). The last two speak of
snapshots stamped after the clock has passed every reading that it was set back
from: until then `Previous` orders them wrongly, and once it has, the history is
in order again.

What comes and goes between two stored snapshots has a cause: the object came or
went, a capability was missing, or a list was full (`EventsAreExplained`). No
failure halfway through a collector is among the causes, because a report with a
warning is not stored; a probe that fails once is, because it makes no warning,
and so is a list ordered by a load. A snapshot enters the history exactly if
every risk scan fits its limit (`StoredIfItFits`): a schema with more tables than
the limit of the schema-risk scan (100) ends every inspection with a warning
(`UnreportedIsWarned`), and such a target has no history. Of all 22 rules, two
may be evaluated on evidence that nobody collects (`RulesHaveTheirEvidence`):
the rule for connections, which requires no capability, and
`full_scan_heavy_table`, which does not require `schema.indexes`, as the
collector of its evidence does. Two fingerprints are equal exactly if the same
rows were read for both (`SamePrintSameSchema`); they may be rows of different
moments, which is then a fingerprint of a schema that never was, and of no other.

More evidence never takes a finding away (`FindingsSurviveMoreEvidence`), except for
`replication_stopped`, which takes a state that was not seen for a stopped one:
`StoppedIsReal` says when a channel is reported without one that stands still,
namely when its other part is missing in the server, or cut off at the list's
limit. The name of the unnamed channel is written as `default`, so that it and a
channel of that name are one to the rule.
An index is called redundant only if one that is not covers it
(`RedundantIndexIsCovered`); this rests on the comparison of lengths that makes
the rule's test for equal signatures unreachable. A plan is reported only after
the command's own rollback (`NothingLeftBehind`). An array in an
array survives the plan filter when nothing is left in it, so that a plan
without any safe value may pass as an empty shell; `ReportIsTheSafePart` speaks
of values.

### Disagreements between the code and its documents

`planner_estimate`: `mysql.tables` is a counter collector, and the estimated
number of a table's rows is one of its observations. The planner compares the two
samples of an estimate as it does a counter's; a fall becomes the warning
"counter reset detected", and the warning keeps the report out of the history.
The architecture design (section 2.6, line 60) says that reports distinguish
cumulative counters, estimates and reset windows.

Four more things that the models make plain and that have no run of their own,
because they follow from a line or two of code:

* A counter that is reset within the window and grows past its first sample
  again is reported as a small growth without a warning. Two samples cannot
  tell; `DeltaNeverOverstates` bounds the delta from above only.
* A report is stamped after collection and rules, and `observed_after` is the
  previous stamp, so a change between a collection and its stamp is before the
  range of the event that reports it.
* The default text surface prints no warnings, so that a reader of a text report
  does not learn that it was not stored.
* A probe that fails takes its capability away and leaves no reason, which the
  architecture design (line 401) asks for: `SecurityProfile.Missing` is never
  set.

## Fairness

`RunBatch` and `Planner` assume weak fairness of each worker, of the producer,
of the function that waits for them, and of the clock: the Go scheduler runs
every goroutine that can run, a collector's `Collect` returns (it has a context
and a network timeout below it), and time passes. Nothing is assumed about
cancellation or about the order in which a select chooses. `Explain` assumes weak
fairness of the command alone: each of its calls returns, because `ParseConfig`
gives the driver timeouts for dialling, reading and writing, and the ping and the
plan have their own. Nothing is assumed of the server or of `database/sql`. The
other modules state no liveness: an operator may leave a process at any point.

`main` installs no signal handler, so in the program as shipped a command's
context is never cancelled; cancellation is the contract of the package, which
its tests exercise, and the models check it.

## Proofs

The first part of `PlannerProofs` proves of `RunBatch`, for every number of jobs
and every concurrency (`BatchAssumption`: `MaxJobs` a natural number,
`MaxConcurrency` any integer, as `WithMaxConcurrency` takes it):

* `TypeCorrect`, `CollectsAtMostOnce`, `LosesNoJob`, `ReturnsAllOrError`,
  `BufferNeverFull`, `StaysWithinBound`: the safety invariants of `run_batch`;
* `CancelStopsCollecting`: the action property;
* `ImplementsBatchSpec`: the refinement of `BatchSpec`.

They rest on `Bookkeeping`, the inductive invariant `BatchInv`, which is defined
in `RunBatch` and checked by `run_batch`. None of the
invariants is inductive alone: that a nil error comes with all results needs
that the channel was closed after the last job (`ProducerInOrder`), that every
job handed over is with a worker or delivered unless the context is cancelled
(`NoJobLost`), that busy workers and only they hold a job (`HeldWhileBusy`), and
that a worker of the pool ends only on a closed channel or a cancelled context
(`PoolOfWorkers`). That no job is delivered twice needs that the next job is new
to everybody (`HandedOver`). The room in the buffer and the bound on concurrency
are counting arguments on top: the results in the buffer and the job in a
worker's hand are different jobs of the batch (`ResultsInjective`), and
collecting workers belong to the pool, whose size `LimitBounds` bounds. For the
refinement, `RoomToBegin` shows that a worker that is about to begin finds a
place free among the running jobs. There is one lemma per action.

`ExplainProofs` proves, for every list of plans (`ExplainAssumption`: a plan is
a tree of JSON values):

* `ExplainTypes`: the types, and that an answer is one of the plans;
* `LeavesNothingBehind`: the safety invariant `NothingLeftBehind` of `explain`;
* `ReportsAreSafe`: `ReportIsTheSafePart`, what is reported is the safe part of a
  plan and all of it.

The first two rest on `Responsibility`, the inductive invariant `ExplainInv`.
`NothingLeftBehind` speaks of a command that has returned and is not inductive:
it needs to know who is responsible for a server in a transaction at any moment,
the command, whose `tx` is open, or `database/sql`, which is at work only because
the context expired (`OneEndsTheTransaction`; a context that the command itself
cancelled belongs to a transaction it has ended). It also needs what the command
has done by the time it is at each step (`Progress`): nothing is begun before
`begin`, `close` is reached with `tx` ended or never begun, and the filter only
after the command's own rollback. `ReportsAreSafe` is about what the filter
computes: which values stay is decided from the leaves up, while a value is safe
by the keys above it and what is below it, and the two agree because a plan is a
tree, in which every path to a value passes through its containers.

`MemoryStoreProofs` proves, for any set of goroutines, targets, times, metrics and
limits (`MemoryAssumption`: limits are natural numbers, and `Nothing` is no
goroutine):

* `LockProtectsTheCopy`: the inductive invariant `MemoryInv`;
* `MemoryIsAStore`: the refinement `MemoryImplementsStore` of `SnapshotStore`.

The refinement is not provable from the steps alone. That an answer made of a
copy is the store's answer at that moment needs that what was copied and what is
still to come is what the map holds now (`CopyIsOfNow`); this survives a save of
another goroutine only because no writer is past `Lock` while anybody reads
(`LockHeld`). That a save which finds its ID taken is the store's needs that the
map has one content per ID and that the goroutine still knows what it was asked
to save (`MemoryTypes`, `KnowsItsCall`). There is one lemma per action, or per
lock, for the invariant, and one for each of the two places where a call takes
effect (`PutRefines`, `ReadRefines`).

The second part of `PlannerProofs` proves of `Planner`, for any collectors,
windows, answers and any concurrency (`PlannerAssumption`: answers are answers,
windows are integers, and the bounds of clock, growth and falls are natural
numbers):

* `CollectsEveryPhaseOnce`: `EveryPhaseOnce`, a result rests on one call of each
  collector in each of its phases;
* `IsolatesFailures`: `FailureIsolated`;
* `KeepsTheWindow`: `WindowBetweenSamples`;
* `DeltasAreGrowth`: `DeltaNeverOverstates`, resets and falling estimates included.

They rest on `PlannerBookkeeping`, the inductive invariant `PlannerInv`, which
contains the pool's `BatchInv`: a step of the pool is covered by the lemmas of the
first part. The planner knows its collectors and the pool its jobs; that
job `i` is the collector with `i - 1` others before it (`Rank`), one job for each
collector, is a counting argument (`RankOrders`, `JobsAreCollectors`). On top,
`PhaseBooks` says which phases are complete, under way or untouched, `SampleTimes`
that the deadline lies a window after every first sample and is over before the
second ones begin, and `CounterBooks` how the server's counter gets from a sample
to its present value: by no more than it grew, and by exactly that if it never
fell.

`SqliteStoreProofs` proves, for any number of processes, targets, times, metrics
and any limit on trend rows (`SqliteAssumption`: limits are natural numbers, and
`Nothing` is no process):

* `TrendsFollowSnapshots`: `TrendsMatchSnapshots`;
* `SchemaIsReady`: `SchemaReady`;
* `FileIsAStore`: the refinement `ImplementsStore` of `SnapshotStore`, whatever
  fails, whoever dies, and whether or not a commit of unknown outcome was made.

They rest on `FileStaysSound`, the inductive invariant `SqliteInv`. What a
transaction has learnt by its `INSERT OR IGNORE`, that there is a row of its ID
or that there is none, must still be true at the commit; it is, because the
process has kept the write lock (`LockKept`, `TransactionOf`). That whoever is
past `Open` finds tables needs that tables and version are made at once
(`OneSchema`). In the refinement a read answers from the committed rows, which
are the snapshots stored (`ShownIsStored`).

`HistoryCommandsProofs` proves, for any number of inspect and diff processes, any
clock and any number of set-backs (`CommandsAssumption`: bounds are natural
numbers, every process is an inspector or a differ, times are the clock's
readings, and metrics are the states of the object):

* `SilentMeansStored`: `StoredUnlessWarned`;
* `DiffIsOfNeighbours`: `DiffSkipsNothing`;
* `ObservedBeforeIsRight`: `ObservedBeforeHolds`;
* `DiffFollowsTheObject`: `DiffFollowsTime`, under `OneInspector`, which is the
  situation `inspect_in_turn` checks; two inspectors may store what they saw in
  the opposite order, so the property is false without it.

The inductive invariant `CommandsInv` (`CommandsBookkeeping`) says of each client
what it may rely on from one place to the next. Other clients do not disturb it
because the history only grows and dates are only added (`Grows`, `BooksStay`);
`Dated` is the truth about the object's changes that survives a clock set back: a
change was over at this reading, or at one the clock was set back from. `InOrder`
is the additional invariant of one inspector.

`VisibilityProofs` proves, for any selection of the collectors, any objects and
any limits (`VisibilityAssumption`: each collector reads a finite set of objects,
no two read the same, and every list has room):

* `EventsHaveReasons`: `EventsAreExplained`;
* `StoredWhenItFits`: `StoredIfItFits`;
* `RulesAreNotBlind`: `RulesHaveTheirEvidence`, for every outcome of the probes.

The inductive invariant `VisibilityInv` (`InspectionsAccount`) says of each
collector that is through that what it showed is what was there when it read, or
a full list, or that there is a warning; and that `past`, which these refer to,
is only added to. That a list which leaves something out is exactly full is a
counting argument: the places of the objects have no gap (`PlacesHaveNoGap`,
`LongListsAreFull`).

`FindingsProofs` proves all that the run `findings` checks, for servers with any
number of rows of any size and for lists of any limit (`CollectorsAssumption`:
limits are natural numbers, `None` is neither a number nor a text, and the rows
of one list, other than lock waits, are about different objects, so that for
instance no channel is named `default` beside the one without a name):

* `WhatIsLeftOutIsWarned`: `UnreportedIsWarned`;
* `StoppedChannelsAreStopped`: `StoppedIsReal`;
* `RedundantIndexesAreCovered`: `RedundantIndexIsCovered`;
* `SearchFindsLongestChain`: `ChainIsLongestWalk`;
* `FindingsSurvive`: the action property `FindingsSurviveMoreEvidence`;
* `WorseFindsNoLess`: `WorseIsNeverMilder`;
* `OrderMakesNoDifference`: `OrderDoesNotMatter`.

The invariant (`RowsArePlausible`) only says that the rows are rows of the server
and about different objects; the weight is in the lemmas about what the rules
compute. What a list keeps and leaves out is counted (`Kept`, `First`). A
redundant index needs a longest index that covers it: covering is an order, and
the longest of those that cover is covered by none. The search of the wait-for
graph is a recursive function over paths; that it has a value for every path,
that the value is the length of a walk, and that no walk is longer is shown by
the least path for which it is not so, since induction with a predicate as its
parameter is out of the provers' reach. For the last three, each rule is shown to
depend on its observations only through what more rows (`Grows`), worse values
(`Worsens`) or another order (`Reorders`) keep; that as many observations are
counted in any order is a bijection between places (`AsMany`).

`ComparisonProofs` proves properties of two modules. Those of `Comparison`, for any
observations, deltas and length of the history (`ComparisonAssumption`:
observations and deltas have their types, and `None` is neither an observation nor
a text):

* `DiffsArePatches`: `DiffIsAPatch`;
* `DiffsCompose`: `LongerDiffsAgree`;
* `RegressionsAreSlower`: `RegressionsAreOfLatency`;
* `DiffsAreReproducible`: the action property `ReportIsReproducible`.

The invariant (`ReportsAreOfTheHistory`) only ties the last report to two
neighbours in the history; the weight is in the lemmas about the operators. The
observation compared is one of its identity, since a finite set of places has a
last one (`ObservedIsOf`); the three kinds of change exclude each other and miss
nothing (`ChangeKinds`, `ChangesAreSeen`). `RisesAddUp` is the arithmetic of
means compared by cross-multiplication. For reproducibility, both sorts decide
between any two members (`RegressionsAreOrdered`, `EventsAreOrdered`), and an
order that does so leaves one arrangement (`OneArrangement`: at the first place
where two differ, each has its member later in the other).

Those of `SchemaFingerprint`, for any catalogs, any course of DDL and any limits
(`FingerprintAssumption`: rows are finite sets of non-empty lists of texts and
NULLs, and the ambiguity above is confined to a column's default):

* `PrintsTellSchemas`: `SamePrintSameSchema`;
* `LimitsHoldForAll`: `LimitsAreOfTheWhole`.

The invariant `FingerprintInv` has two parts. `CollectionBooks` says of the
collection in progress that its records are those of the rows read so far, each
once, and that its counters count them; it is needed because the limits are kept
with those counters only. `TakenBooks` says of every collection that ended what
its fingerprint is the hash of, or that it was given more than a limit; `Alter`
does not disturb either, since it only adds to `past`. Under it are the lemmas of
the encoding. Each text says how long it is, so what begins like another list of
prefixed texts begins with the same text, and so on from place to place
(`LengthTells`, `PrefixedTell`); a record so tells its kind and row
(`RecordTells`, `RecordsDiffer`). The comparison of records is a total order
(`BeforeIsOrder`), every member of a finite set takes the place of its rank
(`PlacesAreTaken`), so what is hashed depends on the set of records only
(`SortedPlaces`) and tells it (`HashTells`). A budget of bytes is a cardinality,
that of the pairs of a row and a place in its record (`BytesOfPairs`), so that no
sum over a set is needed.

The proofs of `Planner`, `SqliteStore`, `HistoryCommands` and `Visibility` are
laid out alike: one lemma per action, or per group of actions that move the same
thing, under it one step per conjunct that it disturbs.

Only model-checked:

* liveness (`NoGoroutineLeak`, `RunReturns`, `ExplainReturns`), since the prover
  has no fairness;
* `ResetWarningsAreResets`, which is violated.

## Not modelled

Text: the SQL of the collectors, the parsing of the target, its credentials and
the DSN, the redaction of errors, the checks of an explain statement's text, the
path of the data directory, and the surfaces apart from the warnings they show.
These are functions of one input without state; the prover and TLC would see
strings put together character by character. The registry and the commands' root
are wiring that is done once. The fake adapter is a test double, and the driver
acceptance probe a benchmark that chose the driver. The rejection of corrupt rows
of the history is left out because nothing in the program makes one. The reasons
for each part are in `PROJECT.json`.

## Plan

Done, in this order: `BatchSpec`, `RunBatch`, its proofs, `Planner`,
`Snapshots`, `SnapshotStore`, `SqliteStore`, `HistoryCommands`, `Comparison`,
`Collectors`, `Findings`, `Explain` and its proofs, `MemoryStore` and its proofs,
`Capabilities`, `Visibility`, `SchemaFingerprint`, the wall clock that is set
back, commits of unknown outcome, estimates among the counters.

What is left to model is listed above, and is not worth more modules.

Proved, in this order: `RunBatch`, `Explain`, `MemoryStore`, `SqliteStore`,
`Planner`, `HistoryCommands`, `Visibility`, `Comparison`, `Findings`,
`SchemaFingerprint`.
