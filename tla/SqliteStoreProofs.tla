------------------------- MODULE SqliteStoreProofs --------------------------
(***************************************************************************)
(* That the history file of module SqliteStore is the atomic store of      *)
(* SnapshotStore, for any number of processes, targets, times and metrics  *)
(* and any limit on trend rows, whatever fails and whoever dies.           *)
(***************************************************************************)
EXTENDS SqliteStore, TLAPS

Locked == {"migrating", "verify", "trends", "commit"}
Saving == {"insert", "verify", "trends", "commit"}
Places == {"closed", "migrate", "ready"} \cup Locked \cup Saving

RowSet == [target : Targets, at : Times, payload : SUBSET Metrics]

(* The parts of the inductive invariant. *)

\* The file and the processes' locals hold what their columns and types say.
SqliteTypes ==
    /\ version \in {0, SchemaVersion, SchemaVersion + 1} /\ tables \in BOOLEAN
    /\ rows \subseteq RowSet
    /\ writer \in Clients \cup {Nothing}
    /\ pc \in [Clients -> Places]
    /\ saving \in [Clients -> SnapshotSet \cup {Nothing}]
    /\ DOMAIN pending = Clients
    /\ inserted \in [Clients -> {0, 1}]
    /\ DOMAIN reply = Clients

\* The write lock is with the process whose statements need it, and a Save
\* knows its snapshot.
LockKept ==
    \A c \in Clients :
        /\ pc[c] \in Locked <=> writer = c
        /\ pc[c] \in Saving => saving[c] \in SnapshotSet

\* The migration makes the tables and the version at once, and a process that
\* may run it has not seen a newer file.
OneSchema ==
    /\ tables <=> version # 0
    /\ \A c \in Clients : pc[c] \in {"migrate", "migrating"} => version <= SchemaVersion

\* The primary key.
OneRowPerID == \A q, r \in rows : ID(q) = ID(r) => q = r

\* What a transaction knows of the committed rows stays so while it has the
\* lock, and its own writes are those of its snapshot.
TransactionOf(c) ==
    LET s == saving[c]
    IN  /\ pc[c] \notin {"trends", "commit"} => pending[c] = {}
        /\ pc[c] = "verify" => inserted[c] = 0 /\ \E r \in rows : ID(r) = ID(s)
        /\ pc[c] = "trends" => /\ inserted[c] = 1 /\ pending[c] \subseteq TrendRows(s)
                               /\ \A r \in rows : ID(r) # ID(s)
        /\ pc[c] = "commit" =>
             \/ inserted[c] = 0 /\ pending[c] = {} /\ Row(s) \in rows
             \/ /\ inserted[c] = 1 /\ pending[c] = TrendRows(s)
                /\ \A r \in rows : ID(r) # ID(s)

Transactions == \A c \in Clients : TransactionOf(c)

SqliteInv ==
    /\ SqliteTypes /\ LockKept /\ OneSchema /\ SchemaReady
    /\ OneRowPerID /\ Transactions /\ TrendsMatchSnapshots

-----------------------------------------------------------------------------
\* A row and the snapshot it was made of, and back again.
LEMMA RowOfSnapshot ==
    ASSUME NEW s \in SnapshotSet
    PROVE  /\ Row(s) \in RowSet /\ ID(Row(s)) = ID(s)
           /\ s = [target |-> Row(s).target, at |-> Row(s).at, metrics |-> Row(s).payload]
BY DEF SnapshotSet, RowSet, Row, ID

\* The file is empty or of some version, and nobody has it open.
LEMMA FileStarts == SqliteInit => SqliteInv
<1> SUFFICES ASSUME SqliteInit PROVE SqliteInv
  OBVIOUS
<1>1. SqliteTypes
  BY DEF SqliteInit, SqliteTypes, SchemaVersion, Places
<1>2. LockKept
  BY SqliteAssumption DEF SqliteInit, LockKept, Locked, Saving
<1>3. OneSchema /\ SchemaReady
  <2>1. version > 0 <=> version # 0
    BY DEF SqliteInit, SchemaVersion
  <2>2. tables <=> version # 0
    BY <2>1, Zenon DEF SqliteInit
  <2> QED
    BY <2>2 DEF SqliteInit, OneSchema, SchemaReady
<1>4. OneRowPerID /\ Transactions
  BY DEF SqliteInit, OneRowPerID, Transactions, TransactionOf
<1>5. TrendsMatchSnapshots
  BY DEF SqliteInit, TrendsMatchSnapshots, Stored
<1> QED
  BY <1>1, <1>2, <1>3, <1>4, <1>5 DEF SqliteInv

\* Any step that leaves the file alone keeps what is only about the file.
LEMMA FileAlone ==
    ASSUME SqliteInv, UNCHANGED file
    PROVE  OneRowPerID' /\ TrendsMatchSnapshots'
BY DEF SqliteInv, file, OneRowPerID, ID, TrendsMatchSnapshots, Stored, TrendRows

\* New: the version is read without the lock (ReadVersion), the lock taken
\* (BeginMigration).
LEMMA OpeningKeeps ==
    ASSUME SqliteInv, NEW c \in Clients, ReadVersion(c) \/ BeginMigration(c)
    PROVE  SqliteInv'
<1> USE DEF SqliteInv, ReadVersion, BeginMigration, Goes, Returns, file
<1>1. SqliteTypes'
  BY DEF SqliteTypes, Places, Locked
<1>2. LockKept'
  BY SqliteAssumption DEF LockKept, SqliteTypes, Locked, Saving
<1>3. OneSchema' /\ SchemaReady'
  BY DEF OneSchema, SchemaReady, SqliteTypes, SchemaVersion
<1>4. Transactions'
  BY DEF Transactions, TransactionOf, SqliteTypes, TrendRows, Row
<1> QED
  BY <1>1, <1>2, <1>3, <1>4, FileAlone

\* The migration's commit: whoever is in the file has the schema from now on.
LEMMA MigrationKeeps ==
    ASSUME SqliteInv, NEW c \in Clients, CommitMigration(c)
    PROVE  SqliteInv'
<1> USE DEF SqliteInv, CommitMigration, Goes
<1>1. SqliteTypes'
  BY DEF SqliteTypes, Places
<1>2. LockKept'
  BY SqliteAssumption DEF LockKept, SqliteTypes, Locked, Saving
<1>3. OneSchema' /\ SchemaReady'
  BY DEF OneSchema, SchemaReady, SqliteTypes, SchemaVersion
<1>4. Transactions'
  BY DEF Transactions, TransactionOf, SqliteTypes, TrendRows, Row
<1>5. OneRowPerID' /\ TrendsMatchSnapshots'
  BY DEF OneRowPerID, ID, TrendsMatchSnapshots, Stored, TrendRows
<1> QED
  BY <1>1, <1>2, <1>3, <1>4, <1>5

\* Save, up to its transaction.
LEMMA BeginSaveKeeps ==
    ASSUME SqliteInv, NEW c \in Clients, NEW s \in SnapshotSet, BeginSave(c, s)
    PROVE  SqliteInv'
<1> USE DEF SqliteInv, BeginSave, Goes, Returns, file
<1>0. pending' = pending /\ inserted' = inserted /\ rows' = rows /\ pending[c] = {}
      /\ pc'[c] \in {"ready", "insert"} /\ \A d \in Clients \ {c} : pc'[d] = pc[d] /\ saving'[d] = saving[d]
  BY DEF Transactions, TransactionOf, SqliteTypes
<1>1. SqliteTypes'
  BY DEF SqliteTypes, Places, Saving
<1>2. LockKept'
  BY DEF LockKept, SqliteTypes, Locked, Saving
<1>3. OneSchema' /\ SchemaReady'
  BY DEF OneSchema, SchemaReady, SqliteTypes
<1>4. Transactions'
  <2> SUFFICES ASSUME NEW d \in Clients PROVE TransactionOf(d)'
    BY DEF Transactions
  <2>1. CASE d = c
    BY <1>0, <2>1 DEF TransactionOf
  <2>2. CASE d # c
    BY <1>0, <2>2 DEF Transactions, TransactionOf, TrendRows, Row, ID
  <2> QED
    BY <2>1, <2>2
<1> QED
  BY <1>1, <1>2, <1>3, <1>4, FileAlone

\* INSERT OR IGNORE takes the lock and tells a new ID from a known one.
LEMMA InsertKeeps ==
    ASSUME SqliteInv, NEW c \in Clients, InsertSnapshot(c)
    PROVE  SqliteInv'
<1> USE DEF SqliteInv, InsertSnapshot, Goes, file
<1>1. SqliteTypes'
  BY DEF SqliteTypes, Places, Locked
<1>2. LockKept'
  BY SqliteAssumption DEF LockKept, SqliteTypes, Locked, Saving
<1>3. OneSchema' /\ SchemaReady'
  BY DEF OneSchema, SchemaReady, SqliteTypes
<1>4. Transactions'
  BY DEF Transactions, TransactionOf, SqliteTypes, TrendRows, Row
<1> QED
  BY <1>1, <1>2, <1>3, <1>4, FileAlone

\* The comparison with the stored row, the trend rows one by one.
LEMMA TransactionKeeps ==
    ASSUME SqliteInv, NEW c \in Clients, VerifyExisting(c) \/ InsertTrend(c)
    PROVE  SqliteInv'
<1> USE DEF SqliteInv, VerifyExisting, InsertTrend, Goes, Returns, file
<1>1. SqliteTypes'
  BY DEF SqliteTypes, Places, Locked
<1>2. LockKept'
  BY SqliteAssumption DEF LockKept, SqliteTypes, Locked, Saving
<1>3. OneSchema' /\ SchemaReady'
  BY DEF OneSchema, SchemaReady, SqliteTypes
<1>4. Transactions'
  BY DEF Transactions, TransactionOf, SqliteTypes
<1> QED
  BY <1>1, <1>2, <1>3, <1>4, FileAlone

\* What a commit publishes is a snapshot row with all its trend rows, or
\* nothing new; the rest of the file and its processes are untouched.
LEMMA PublishShows ==
    ASSUME SqliteInv, NEW c \in Clients, pc[c] = "commit", Publish(c)
    PROVE  /\ saving[c] \in SnapshotSet
           /\ Row(saving[c]) \in rows
                \/ (\A r \in rows : ID(r) # ID(saving[c]))
           /\ rows' = rows \cup {Row(saving[c])}
           /\ trendRows' = trendRows \cup TrendRows(saving[c])
<1> DEFINE s == saving[c]
<1>1. s \in SnapshotSet
  BY DEF SqliteInv, LockKept, Saving
<1>2. CASE inserted[c] = 0 /\ pending[c] = {} /\ Row(s) \in rows
  <2>1. rows' = rows /\ trendRows' = trendRows
    BY <1>2 DEF Publish
  <2>2. TrendRows(s) \subseteq trendRows
    <3>1. s \in Stored
      BY <1>1, <1>2, RowOfSnapshot, Zenon DEF Stored
    <3> QED
      BY <3>1 DEF SqliteInv, TrendsMatchSnapshots
  <2> QED
    BY <1>1, <1>2, <2>1, <2>2
<1>3. CASE /\ inserted[c] = 1 /\ pending[c] = TrendRows(s)
           /\ \A r \in rows : ID(r) # ID(s)
  BY <1>1, <1>3 DEF Publish
<1> QED
  BY <1>2, <1>3 DEF SqliteInv, Transactions, TransactionOf

\* A commit makes the whole transaction visible and gives up the lock; what
\* the others know of the committed rows stays true, as they hold no lock.
LEMMA CommitKeeps ==
    ASSUME SqliteInv, NEW c \in Clients, CommitSave(c) \/ CommitUnconfirmed(c)
    PROVE  SqliteInv'
<1> DEFINE s == saving[c]
<1>0. /\ pc[c] = "commit" /\ Publish(c)
      /\ s \in SnapshotSet
      /\ Row(s) \in rows \/ (\A r \in rows : ID(r) # ID(s))
      /\ rows' = rows \cup {Row(s)} /\ trendRows' = trendRows \cup TrendRows(s)
  BY PublishShows DEF CommitSave, CommitUnconfirmed
<1>1. /\ writer = c /\ writer' = Nothing /\ c # Nothing
      /\ pc' = [pc EXCEPT ![c] = "ready"] /\ saving' = [saving EXCEPT ![c] = Nothing]
      /\ pending' = [pending EXCEPT ![c] = {}]
      /\ UNCHANGED <<version, tables, inserted>> /\ DOMAIN reply' = DOMAIN reply
  BY <1>0, SqliteAssumption
     DEF CommitSave, CommitUnconfirmed, Publish, Returns, Goes, SqliteInv, LockKept, Locked
<1>2. SqliteTypes'
  BY <1>0, <1>1, RowOfSnapshot DEF SqliteInv, SqliteTypes, Places
<1>3. LockKept'
  BY <1>1, SqliteAssumption DEF SqliteInv, SqliteTypes, LockKept, Locked, Saving
<1>4. OneSchema' /\ SchemaReady'
  BY <1>0, <1>1 DEF SqliteInv, SqliteTypes, OneSchema, SchemaReady
<1>5. OneRowPerID'
  BY <1>0, RowOfSnapshot DEF SqliteInv, OneRowPerID
<1>6. Transactions'
  <2> SUFFICES ASSUME NEW d \in Clients PROVE TransactionOf(d)'
    BY DEF Transactions
  <2>1. CASE d = c
    BY <1>1, <2>1 DEF SqliteInv, SqliteTypes, TransactionOf
  <2>2. CASE d # c
    <3>1. pc'[d] \notin Locked /\ pending'[d] = {}
      BY <1>1, <2>2 DEF SqliteInv, SqliteTypes, LockKept, Transactions, TransactionOf, Locked
    <3> QED
      BY <3>1 DEF TransactionOf, Locked
  <2> QED
    BY <2>1, <2>2
<1>7. TrendsMatchSnapshots'
  <2>1. Stored' = Stored \cup {s}
    BY <1>0, RowOfSnapshot DEF Stored
  <2> QED
    BY <1>0, <2>1 DEF SqliteInv, TrendsMatchSnapshots, TrendRows, ID
<1> QED
  BY <1>2, <1>3, <1>4, <1>5, <1>6, <1>7 DEF SqliteInv

\* One statement that reads, and Close.
LEMMA ReadingKeeps ==
    ASSUME SqliteInv, NEW c \in Clients,
           pc[c] = "ready", pc' = pc \/ pc' = [pc EXCEPT ![c] = "closed"],
           DOMAIN reply' = DOMAIN reply,
           UNCHANGED <<file, writer, saving, pending, inserted>>
    PROVE  SqliteInv'
<1> USE DEF SqliteInv, file
<1>1. SqliteTypes'
  BY DEF SqliteTypes, Places
<1>2. LockKept'
  BY DEF LockKept, SqliteTypes, Locked, Saving
<1>3. OneSchema' /\ SchemaReady'
  BY DEF OneSchema, SchemaReady, SqliteTypes
<1>4. Transactions'
  BY DEF Transactions, TransactionOf, SqliteTypes, TrendRows, Row
<1> QED
  BY <1>1, <1>2, <1>3, <1>4, FileAlone

\* A statement fails or the process dies: the lock and the uncommitted rows
\* go, and the file is as it was.
LEMMA RollbackKeeps ==
    ASSUME SqliteInv, NEW c \in Clients, Fail(c) \/ Crash(c)
    PROVE  SqliteInv'
<1>0. /\ pc[c] # "closed" /\ pc' \in {[pc EXCEPT ![c] = "closed"], [pc EXCEPT ![c] = "ready"]}
      /\ pc'[c] = "ready" => pc[c] \notin {"migrate", "migrating"}
      /\ writer' = IF writer = c THEN Nothing ELSE writer
      /\ saving' = [saving EXCEPT ![c] = Nothing]
      /\ pending' = [pending EXCEPT ![c] = {}]
      /\ DOMAIN reply' = DOMAIN reply /\ UNCHANGED <<file, inserted>>
  BY DEF Fail, Crash, Rollback, Returns, Goes, SqliteInv, SqliteTypes
<1> USE DEF SqliteInv, file
<1>1. SqliteTypes'
  BY <1>0 DEF SqliteTypes, Places
<1>2. LockKept'
  BY <1>0, SqliteAssumption DEF LockKept, SqliteTypes, Locked, Saving
<1>3. OneSchema' /\ SchemaReady'
  BY <1>0 DEF OneSchema, SchemaReady, SqliteTypes
<1>4. Transactions'
  <2> SUFFICES ASSUME NEW d \in Clients PROVE TransactionOf(d)'
    BY DEF Transactions
  <2>1. CASE d = c
    BY <1>0, <2>1 DEF SqliteTypes, TransactionOf
  <2>2. CASE d # c
    BY <1>0, <2>2 DEF SqliteTypes, Transactions, TransactionOf, TrendRows, Row, ID
  <2> QED
    BY <2>1, <2>2
<1> QED
  BY <1>0, <1>1, <1>2, <1>3, <1>4, FileAlone

\* Every step of a process keeps the invariant.
LEMMA StepKeeps ==
    ASSUME SqliteInv, NEW c \in Clients, Step(c)
    PROVE  SqliteInv'
<1>1. CASE Close(c)
  BY <1>1, ReadingKeeps DEF Close, Returns, Goes, SqliteInv, SqliteTypes
<1>2. ASSUME NEW t \in Targets, ReadLatest(c, t)
      PROVE  SqliteInv'
  BY <1>2, ReadingKeeps DEF ReadLatest, Answers, Returns, Goes, SqliteInv, SqliteTypes
<1>3. ASSUME NEW t \in Targets, NEW b \in Times, ReadPrevious(c, t, b)
      PROVE  SqliteInv'
  BY <1>3, ReadingKeeps DEF ReadPrevious, Answers, Returns, Goes, SqliteInv, SqliteTypes
<1>4. ASSUME NEW t \in Targets, NEW n \in Limits, ReadList(c, t, n)
      PROVE  SqliteInv'
  BY <1>4, ReadingKeeps DEF ReadList, Returns, Goes, SqliteInv, SqliteTypes
<1> QED
  BY <1>1, <1>2, <1>3, <1>4, OpeningKeeps, MigrationKeeps, BeginSaveKeeps, InsertKeeps,
     TransactionKeeps, CommitKeeps, RollbackKeeps DEF Step

\* The inductive invariant: the lock is with the process whose statements need
\* it, a transaction knows the committed rows as long as it holds the lock, and
\* nobody is past New on a file without the schema.
THEOREM FileStaysSound == SqliteSpec => []SqliteInv
<1>1. SqliteInv /\ [SqliteNext]_sqliteVars => SqliteInv'
  <2> SUFFICES ASSUME SqliteInv, [SqliteNext]_sqliteVars
               PROVE  SqliteInv'
    OBVIOUS
  <2>1. CASE UNCHANGED sqliteVars
    BY <2>1 DEF sqliteVars, file, process, SqliteInv, SqliteTypes, LockKept, OneSchema,
                SchemaReady, OneRowPerID, Transactions, TransactionOf, TrendsMatchSnapshots,
                Stored, TrendRows, Row, ID
  <2> QED
    BY <2>1, StepKeeps DEF SqliteNext
<1> QED
  BY <1>1, FileStarts, PTL DEF SqliteSpec

\* The snapshot rows and the trend rows agree at any moment.
THEOREM TrendsFollowSnapshots == SqliteSpec => []TrendsMatchSnapshots
<1>1. SqliteInv => TrendsMatchSnapshots
  BY DEF SqliteInv
<1> QED
  BY <1>1, FileStaysSound, PTL

\* No process is let in on a half-made or a newer schema.
THEOREM SchemaIsReady == SqliteSpec => []SchemaReady
<1>1. SqliteInv => SchemaReady
  BY DEF SqliteInv
<1> QED
  BY <1>1, FileStaysSound, PTL

-----------------------------------------------------------------------------
(* The refinement. *)

\* What ImplementsStore shows for the snapshots of the history.
Shown == {[target |-> r.target, at |-> r.at,
           metrics |-> {m \in Metrics : <<ID(r), m>> \in trendRows}] : r \in rows}

\* The trend rows of a row are those of its own payload.
ShowsTheFile == Shown = Stored /\ OneContentPerID(Shown)

\* What the store's specification is shown are the snapshots that the two
\* tables hold between them, one for each ID.
LEMMA ShownIsStored == SqliteInv => ShowsTheFile
<1> SUFFICES ASSUME SqliteInv PROVE ShowsTheFile
  OBVIOUS
<1>1. ASSUME NEW r \in rows
      PROVE  {m \in Metrics : <<ID(r), m>> \in trendRows} = r.payload
  <2>1. r.payload \subseteq Metrics
    BY DEF SqliteInv, SqliteTypes, RowSet
  <2>2. ASSUME NEW m \in r.payload PROVE <<ID(r), m>> \in trendRows
    <3> DEFINE q == [target |-> r.target, at |-> r.at, metrics |-> r.payload]
    <3>1. q \in Stored
      BY DEF Stored
    <3>2. <<ID(r), m>> \in TrendRows(q)
      BY DEF TrendRows, ID
    <3> QED
      BY <3>1, <3>2 DEF SqliteInv, TrendsMatchSnapshots
  <2>3. ASSUME NEW m, <<ID(r), m>> \in trendRows PROVE m \in r.payload
    <3>1. PICK q \in rows : <<ID(r), m>> \in TrendRows([target |-> q.target, at |-> q.at,
                                                        metrics |-> q.payload])
      BY <2>3 DEF SqliteInv, TrendsMatchSnapshots, Stored
    <3>2. ID(q) = ID(r) /\ m \in q.payload
      BY <3>1 DEF TrendRows, ID
    <3> QED
      BY <3>2 DEF SqliteInv, OneRowPerID
  <2> QED
    BY <2>1, <2>2, <2>3
<1>2. Shown = Stored
  BY <1>1 DEF Shown, Stored
<1>3. OneContentPerID(Stored)
  BY DEF Stored, SqliteInv, OneRowPerID, OneContentPerID, ID
<1> QED
  BY <1>2, <1>3 DEF ShowsTheFile

\* Both modules speak of the same snapshots in the same order.
LEMMA SameSnapshots ==
    /\ Store!SnapshotSet = SnapshotSet
    /\ \A s : Store!ID(s) = ID(s)
    /\ \A S : /\ Store!OneContentPerID(S) <=> OneContentPerID(S)
              /\ Store!Newest(S) = Newest(S)
              /\ \A n : Store!NewestOf(S, n) = NewestOf(S, n)
BY DEF Store!SnapshotSet, SnapshotSet, Store!ID, ID, Store!OneContentPerID, OneContentPerID,
       Store!Newest, Newest, Store!NewestOf, NewestOf, Store!Cardinality, Cardinality

\* An operation that fails, or is only begun, answers and changes nothing.
LEMMA OnlyAnswers ==
    ASSUME NEW c \in Clients, Shown' = Shown,
           \/ reply' = [reply EXCEPT ![c] = Nothing]
           \/ reply' = [reply EXCEPT ![c] = [op |-> "error"]]
    PROVE  Store!StoreNext
<1>1. Store!Forget(c) \/ Store!FailOperation(c)
  BY DEF Shown, Store!Forget, Store!FailOperation, Store!Says
<1> QED
  BY <1>1 DEF Store!StoreNext

\* A save, or its refusal, is a step of the store.
LEMMA SavesAreSteps ==
    ASSUME NEW c \in Clients, NEW s \in SnapshotSet,
           Store!SaveSnapshot(c, s) \/ Store!SaveUnconfirmed(c, s) \/ Store!RefuseCollision(c, s)
    PROVE  Store!StoreNext
<1>1. s \in Store!SnapshotSet
  BY SameSnapshots
<1> QED
  BY <1>1 DEF Store!StoreNext

\* The commit (CommitSave) is where a snapshot is saved, whether or not the
\* caller learns of it (CommitUnconfirmed).
LEMMA CommitRefines ==
    ASSUME SqliteInv, ShowsTheFile, ShowsTheFile', NEW c \in Clients,
           CommitSave(c) \/ CommitUnconfirmed(c)
    PROVE  Store!StoreNext
<1>1. PICK s \in SnapshotSet : s = saving[c] /\ rows' = rows \cup {Row(s)}
  BY PublishShows DEF CommitSave, CommitUnconfirmed
<1>2. Shown' = Shown \cup {s}
  <2>1. Stored' = Stored \cup {s}
    BY <1>1, RowOfSnapshot DEF Stored
  <2> QED
    BY <2>1 DEF ShowsTheFile
<1>3. OneContentPerID(Shown')
  BY DEF ShowsTheFile
<1>4. CASE CommitSave(c)
  <2>1. Store!SaveSnapshot(c, s)
    BY <1>1, <1>2, <1>3, <1>4, SameSnapshots
       DEF CommitSave, Returns, Shown, Store!SaveSnapshot, Store!Says
  <2> QED
    BY <2>1, SavesAreSteps
<1>5. CASE CommitUnconfirmed(c)
  <2>1. Store!SaveUnconfirmed(c, s)
    BY <1>2, <1>3, <1>5, SameSnapshots
       DEF CommitUnconfirmed, Returns, Shown, Store!SaveUnconfirmed, Store!Says
  <2> QED
    BY <2>1, SavesAreSteps
<1> QED
  BY <1>4, <1>5

\* A row of the ID that is not the snapshot's is another content
\* (VerifyExisting).
LEMMA VerifyRefines ==
    ASSUME SqliteInv, ShowsTheFile, NEW c \in Clients, VerifyExisting(c)
    PROVE  Store!StoreNext \/ UNCHANGED <<Shown, reply>>
<1> DEFINE s == saving[c]
<1>1. Shown' = Shown
  BY DEF VerifyExisting, file, Shown, ID
<1>2. CASE Row(s) \in rows
  BY <1>1, <1>2 DEF VerifyExisting
<1>3. CASE Row(s) \notin rows
  <2>1. reply' = [reply EXCEPT ![c] = [op |-> "collision", snapshot |-> s]]
    BY <1>3 DEF VerifyExisting, Returns
  <2>2. s \in SnapshotSet
    BY DEF SqliteInv, LockKept, Saving, VerifyExisting
  <2>3. PICK r \in rows : ID(r) = ID(s) /\ r # Row(s)
    BY <1>3 DEF SqliteInv, Transactions, TransactionOf, VerifyExisting
  <2> DEFINE q == [target |-> r.target, at |-> r.at, metrics |-> r.payload]
  <2>4. q \in Stored
    BY DEF Stored
  <2>5. q # s /\ ID(q) = ID(s)
    BY <2>2, <2>3 DEF SqliteInv, SqliteTypes, RowSet, Row, ID
  <2>6. q \in Shown
    BY <2>4 DEF ShowsTheFile
  <2>7. Store!RefuseCollision(c, s)
    BY <1>1, <2>1, <2>5, <2>6, SameSnapshots DEF Shown, Store!RefuseCollision, Store!Says
  <2> QED
    BY <2>2, <2>7, SavesAreSteps
<1> QED
  BY <1>2, <1>3

\* One statement answers from what is committed (ReadLatest, ReadPrevious,
\* ReadList).
LEMMA ReadingRefines ==
    ASSUME ShowsTheFile, NEW c \in Clients, NEW t \in Targets,
           \/ ReadLatest(c, t)
           \/ \E b \in Times : ReadPrevious(c, t, b)
           \/ \E n \in Limits : ReadList(c, t, n)
    PROVE  Store!StoreNext
<1>1. Shown = Stored
  BY DEF ShowsTheFile
<1>2. CASE ReadLatest(c, t)
  <2>1. Shown' = Shown
    BY <1>2 DEF ReadLatest, file, Shown, ID
  <2>2. Store!Latest(c, t)
    BY <1>1, <1>2, <2>1, SameSnapshots
       DEF Shown, ReadLatest, Answers, Returns, Store!Latest, Store!Answer, Store!Says
  <2> QED
    BY <2>2 DEF Store!StoreNext
<1>3. ASSUME NEW b \in Times, ReadPrevious(c, t, b)
      PROVE  Store!StoreNext
  <2>1. Shown' = Shown
    BY <1>3 DEF ReadPrevious, file, Shown, ID
  <2>2. Store!Previous(c, t, b)
    BY <1>1, <1>3, <2>1, SameSnapshots
       DEF Shown, ReadPrevious, Answers, Returns, Store!Previous, Store!Answer, Store!Says
  <2> QED
    BY <2>2 DEF Store!StoreNext
<1>4. ASSUME NEW n \in Limits, ReadList(c, t, n)
      PROVE  Store!StoreNext
  <2>1. Shown' = Shown
    BY <1>4 DEF ReadList, file, Shown, ID
  <2>2. Store!List(c, t, n)
    BY <1>1, <1>4, <2>1, SameSnapshots DEF Shown, ReadList, Returns, Store!List, Store!Says
  <2> QED
    BY <2>2 DEF Store!StoreNext
<1> QED
  BY <1>2, <1>3, <1>4

\* The file with its lock and its journal is the atomic store of SnapshotStore
\* to all processes: every step is an operation of the store or none of it.
THEOREM FileIsAStore == SqliteSpec => ImplementsStore
<1>1. SqliteInit => Store!StoreInit
  BY DEF SqliteInit, Store!StoreInit, Store!OneContentPerID
<1>2. SqliteInv /\ ShowsTheFile /\ ShowsTheFile' /\ [SqliteNext]_sqliteVars
        => [Store!StoreNext]_(Store!storeVars)
  <2> SUFFICES ASSUME SqliteInv, ShowsTheFile, ShowsTheFile', [SqliteNext]_sqliteVars
               PROVE  Store!StoreNext \/ UNCHANGED <<Shown, reply>>
    BY DEF Shown, Store!storeVars
  <2>1. CASE UNCHANGED sqliteVars
    BY <2>1 DEF sqliteVars, file, Shown, ID
  <2>2. ASSUME NEW c \in Clients,
               BeginMigration(c) \/ CommitMigration(c) \/ InsertSnapshot(c) \/ InsertTrend(c)
        PROVE  UNCHANGED <<Shown, reply>>
    BY <2>2 DEF BeginMigration, CommitMigration, InsertSnapshot, InsertTrend, file, Shown, ID
  <2>3. ASSUME NEW c \in Clients,
               \/ ReadVersion(c) \/ Fail(c) \/ Close(c) \/ Crash(c)
               \/ \E s \in SnapshotSet : BeginSave(c, s)
        PROVE  Store!StoreNext
    <3>1. UNCHANGED file
      BY <2>3 DEF ReadVersion, Fail, Close, Crash, BeginSave, Rollback
    <3>2. Shown' = Shown
      BY <3>1 DEF file, Shown, ID
    <3>3. \/ reply' = [reply EXCEPT ![c] = Nothing]
          \/ reply' = [reply EXCEPT ![c] = [op |-> "error"]]
      BY <2>3 DEF ReadVersion, Fail, Close, Crash, BeginSave, Returns
    <3> QED
      BY <3>2, <3>3, OnlyAnswers
  <2> QED
    BY <2>1, <2>2, <2>3, CommitRefines, VerifyRefines, ReadingRefines DEF SqliteNext, Step
<1> QED
  BY <1>1, <1>2, FileStaysSound, ShownIsStored, PTL DEF SqliteSpec, ImplementsStore, Store!StorePromise
=============================================================================
