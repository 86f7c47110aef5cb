---------------------------- MODULE SqliteStore -----------------------------
(***************************************************************************)
(* internal/platform/sqlite: the history file, opened by several dbprobe   *)
(* processes at once.  Opening migrates the schema; Save is a transaction  *)
(* of one snapshot row and its trend rows; Latest, Previous and List are   *)
(* one statement each.  Any statement may fail (busy, disk, cancelled      *)
(* context), and a process may die between any two.                        *)
(*                                                                         *)
(* SQLite itself is not in src/: it is the file's committed content, one   *)
(* write lock, and per process the uncommitted writes that a commit        *)
(* publishes at once and that a rollback or a dead process takes with it.  *)
(***************************************************************************)
EXTENDS Snapshots

CONSTANTS Clients,          \* processes that may open the history
          Nothing,          \* no reply, no writer, no snapshot
          Limits,           \* limits of a list, 0 for none
          MaxTrendRows      \* maxTrendMetricRows

ASSUME SqliteAssumption ==
    MaxTrendRows \in Nat /\ Limits \subseteq Nat /\ Nothing \notin Clients

VARIABLES
    version,    \* PRAGMA user_version of the file
    tables,     \* the schema's tables exist
    rows,       \* committed snapshot rows: [target, at, payload]
    trendRows,  \* committed trend rows: <<snapshot ID, metric>>
    writer,     \* the process that holds the write lock, or Nothing
    pc,         \* per process: where it is
    saving,     \* per process: the snapshot its Save was given
    pending,    \* per process: the uncommitted trend rows
    inserted,   \* per process: RowsAffected of its INSERT OR IGNORE
    reply       \* per process: what its last operation returned

file == <<version, tables, rows, trendRows>>
process == <<pc, saving, pending, inserted>>
sqliteVars == <<file, writer, process, reply>>

SchemaVersion == 1

Row(s) == [target |-> s.target, at |-> s.at, payload |-> s.metrics]
TrendRows(s) == {<<ID(s), m>> : m \in s.metrics}

Goes(c, place) == pc' = [pc EXCEPT ![c] = place]
Returns(c, place, r) == Goes(c, place) /\ reply' = [reply EXCEPT ![c] = r]

-----------------------------------------------------------------------------
SqliteInit ==
    /\ version \in {0, SchemaVersion, SchemaVersion + 1}
    /\ tables = (version > 0)
    /\ rows = {} /\ trendRows = {}
    /\ writer = Nothing
    /\ pc = [c \in Clients |-> "closed"]
    /\ saving = [c \in Clients |-> Nothing]
    /\ pending = [c \in Clients |-> {}]
    /\ inserted = [c \in Clients |-> 0]
    /\ reply = [c \in Clients |-> Nothing]

\* Mutant: a newer schema is taken for this one.
ReadVersionOrNewer(c) ==
    /\ pc[c] = "closed"
    /\ \/ version = 0 /\ Returns(c, "migrate", Nothing)
       \/ version >= SchemaVersion /\ Returns(c, "ready", Nothing)
    /\ UNCHANGED <<file, writer, saving, pending, inserted>>

\* Open and New up to migrate's read of user_version, which is outside the
\* migration's transaction.
ReadVersion(c) ==
    /\ pc[c] = "closed"
    /\ \/ version = 0 /\ Returns(c, "migrate", Nothing)
       \/ version = SchemaVersion /\ Returns(c, "ready", Nothing)
       \/ version > SchemaVersion /\ Returns(c, "closed", [op |-> "error"])
    /\ UNCHANGED <<file, writer, saving, pending, inserted>>

\* The first DDL statement of the migration takes the write lock.
BeginMigration(c) ==
    /\ pc[c] = "migrate" /\ writer = Nothing
    /\ writer' = c
    /\ Goes(c, "migrating")
    /\ UNCHANGED <<file, saving, pending, inserted, reply>>

\* CREATE ... IF NOT EXISTS and PRAGMA user_version become visible together.
CommitMigration(c) ==
    /\ pc[c] = "migrating"
    /\ tables' = TRUE
    /\ version' = SchemaVersion
    /\ writer' = Nothing
    /\ Goes(c, "ready")
    /\ UNCHANGED <<rows, trendRows, saving, pending, inserted, reply>>

-----------------------------------------------------------------------------
\* validateSnapshot, encodeSnapshot and extractTrendMetrics come before the
\* transaction; an oversized snapshot ends the Save there.
BeginSave(c, s) ==
    /\ pc[c] = "ready"
    /\ IF Cardinality(s.metrics) > MaxTrendRows
       THEN /\ Returns(c, "ready", [op |-> "error"])
            /\ UNCHANGED saving
       ELSE /\ Returns(c, "insert", Nothing)
            /\ saving' = [saving EXCEPT ![c] = s]
    /\ UNCHANGED <<file, writer, pending, inserted>>

\* Mutant: the table has no primary key.
InsertWithoutKey(c) ==
    /\ pc[c] = "insert" /\ writer = Nothing
    /\ tables
    /\ writer' = c
    /\ inserted' = [inserted EXCEPT ![c] = 1]
    /\ Goes(c, "trends")
    /\ UNCHANGED <<file, saving, pending, reply>>

\* INSERT OR IGNORE takes the write lock; a row with the same ID makes it
\* insert nothing.
InsertSnapshot(c) ==
    /\ pc[c] = "insert" /\ writer = Nothing
    /\ tables
    /\ writer' = c
    /\ inserted' = [inserted EXCEPT ![c] =
                      IF \E r \in rows : ID(r) = ID(saving[c]) THEN 0 ELSE 1]
    /\ Goes(c, IF inserted'[c] = 0 THEN "verify" ELSE "trends")
    /\ UNCHANGED <<file, saving, pending, reply>>

\* Nothing was inserted: the stored payload decides between an idempotent
\* success and an identity collision, which rolls back.
VerifyExisting(c) ==
    /\ pc[c] = "verify"
    /\ IF Row(saving[c]) \in rows
       THEN /\ Goes(c, "commit")
            /\ UNCHANGED <<writer, saving, reply>>
       ELSE /\ Returns(c, "ready", [op |-> "collision", snapshot |-> saving[c]])
            /\ writer' = Nothing
            /\ saving' = [saving EXCEPT ![c] = Nothing]
    /\ UNCHANGED <<file, pending, inserted>>

\* Mutant: the trend rows go past the transaction.
InsertTrendOnConn(c) ==
    /\ pc[c] = "trends"
    /\ LET rest == TrendRows(saving[c]) \ trendRows
       IN  \/ rest = {} /\ Goes(c, "commit") /\ UNCHANGED trendRows
           \/ (\E t \in rest : trendRows' = trendRows \cup {t}) /\ UNCHANGED pc
    /\ UNCHANGED <<version, tables, rows, writer, saving, pending, inserted, reply>>

\* One INSERT per trend metric, all in the snapshot's transaction.
InsertTrend(c) ==
    /\ pc[c] = "trends"
    /\ LET rest == TrendRows(saving[c]) \ pending[c]
       IN  \/ /\ rest = {}
              /\ Goes(c, "commit")
              /\ UNCHANGED pending
           \/ /\ \E t \in rest : pending' = [pending EXCEPT ![c] = @ \cup {t}]
              /\ UNCHANGED pc
    /\ UNCHANGED <<file, writer, saving, inserted, reply>>

\* The uncommitted rows become visible to everybody, all at once.
Publish(c) ==
    /\ rows' = IF inserted[c] = 1 THEN rows \cup {Row(saving[c])} ELSE rows
    /\ trendRows' = trendRows \cup pending[c]
    /\ writer' = Nothing
    /\ pending' = [pending EXCEPT ![c] = {}]
    /\ saving' = [saving EXCEPT ![c] = Nothing]
    /\ UNCHANGED <<version, tables, inserted>>

CommitSave(c) ==
    /\ pc[c] = "commit"
    /\ Publish(c)
    /\ Returns(c, "ready", [op |-> "saved", snapshot |-> saving[c]])

\* Commit returns an error although the transaction is durable.
CommitUnconfirmed(c) ==
    /\ pc[c] = "commit"
    /\ Publish(c)
    /\ Returns(c, "ready", [op |-> "error"])

-----------------------------------------------------------------------------
\* The rows scanStoredSnapshot decodes: the payload is checked against the
\* envelope, so that a snapshot is what its row says.
Stored == {[target |-> r.target, at |-> r.at, metrics |-> r.payload] : r \in rows}

Answers(c, S) ==
    Returns(c, "ready", IF S = {} THEN [op |-> "not found"]
                        ELSE [op |-> "found", snapshot |-> Newest(S)])

ReadLatest(c, t) ==
    /\ pc[c] = "ready"
    /\ Answers(c, {s \in Stored : s.target = t})
    /\ UNCHANGED <<file, writer, saving, pending, inserted>>

ReadPrevious(c, t, before) ==
    /\ pc[c] = "ready"
    /\ Answers(c, {s \in Stored : s.target = t /\ s.at < before})
    /\ UNCHANGED <<file, writer, saving, pending, inserted>>

\* Without a row there is nothing to list, which is an error of its own.
ReadList(c, t, n) ==
    /\ pc[c] = "ready"
    /\ LET S == {s \in Stored : s.target = t}
       IN  Returns(c, "ready", IF S = {} THEN [op |-> "not found"]
                               ELSE [op |-> "listed", snapshots |-> NewestOf(S, n)])
    /\ UNCHANGED <<file, writer, saving, pending, inserted>>

-----------------------------------------------------------------------------
\* What ends a transaction without a commit: the deferred Rollback, or
\* SQLite's recovery from the journal of a dead process.
Rollback(c) ==
    /\ writer' = IF writer = c THEN Nothing ELSE writer
    /\ pending' = [pending EXCEPT ![c] = {}]
    /\ saving' = [saving EXCEPT ![c] = Nothing]
    /\ UNCHANGED <<file, inserted>>

\* A statement fails: New closes the database, Save rolls back and reports.
Fail(c) ==
    /\ pc[c] # "closed"
    /\ Rollback(c)
    /\ Returns(c, IF pc[c] \in {"migrate", "migrating"} THEN "closed" ELSE "ready",
               [op |-> "error"])

Close(c) ==
    /\ pc[c] = "ready"
    /\ Returns(c, "closed", Nothing)
    /\ UNCHANGED <<file, writer, saving, pending, inserted>>

Crash(c) ==
    /\ pc[c] # "closed"
    /\ Rollback(c)
    /\ Returns(c, "closed", Nothing)

Step(c) ==
    \/ ReadVersion(c) \/ BeginMigration(c) \/ CommitMigration(c)
    \/ \E s \in SnapshotSet : BeginSave(c, s)
    \/ InsertSnapshot(c) \/ VerifyExisting(c) \/ InsertTrend(c)
    \/ CommitSave(c) \/ CommitUnconfirmed(c)
    \/ \E t \in Targets :
          \/ ReadLatest(c, t)
          \/ \E b \in Times : ReadPrevious(c, t, b)
          \/ \E n \in Limits : ReadList(c, t, n)
    \/ Fail(c) \/ Close(c) \/ Crash(c)

SqliteNext == \E c \in Clients : Step(c)

SqliteSpec == SqliteInit /\ [][SqliteNext]_sqliteVars

-----------------------------------------------------------------------------
\* The trend table and the snapshot table agree: every snapshot has exactly
\* the trend rows of its payload and no trend row is without its snapshot,
\* though they are written by separate statements with failures and process
\* deaths in between.
TrendsMatchSnapshots == trendRows = UNION {TrendRows(s) : s \in Stored}

\* A process that got past New works on a file with the schema it knows: a
\* migration raced by another process's, or cut short, never lets one in on
\* a half-made schema, and a newer file is left alone.
SchemaReady ==
    /\ \A c \in Clients : pc[c] \notin {"closed", "migrate", "migrating"} =>
                              tables /\ version = SchemaVersion
    /\ version = 0 => ~tables

\* The lock and the journal are the only concurrency control there is: the
\* file together with them is the atomic store of SnapshotStore.
Store == INSTANCE SnapshotStore WITH
    Conflicts <- "refused",
    saved <- {[target |-> r.target, at |-> r.at,
               metrics |-> {m \in Metrics : <<ID(r), m>> \in trendRows}] : r \in rows}

ImplementsStore == Store!StorePromise
=============================================================================
