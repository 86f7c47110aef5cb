----------------------------- MODULE Collectors -----------------------------
(***************************************************************************)
(* The MySQL snapshot collectors (adapters/mysql/collectors) and, with     *)
(* them, the deltas that the planner made of the counters: what an         *)
(* inspection knows about the server when the rules are evaluated.         *)
(*                                                                         *)
(* Each collector turns the rows of one query into observations and keeps  *)
(* at most its limit of them.  A state is the evidence of one inspection;  *)
(* a step goes to a server that has one more row, or counted one more      *)
(* delta, after the others.  A collector that fails at any row returns no  *)
(* observation, as on a server without its rows (Planner has failures).    *)
(***************************************************************************)
EXTENDS Integers, Sequences, FiniteSets, FiniteSetsExt

CONSTANTS
    Servers,    \* [rows, most]: the rows a server may have and how many
    Limits,     \* most rows a collector keeps
    None        \* a column that is empty, a value that was not observed

VARIABLES
    server,     \* a member of Servers
    rows        \* its rows, in the order its queries return them

collectorsVars == <<server, rows>>

CollectorsInit == server \in Servers /\ rows = <<>>

\* Two transactions may wait for each other on several locks of a table; all
\* other rows are about different objects.
OneMoreRow(r) ==
    /\ Len(rows) < server.most
    /\ r.from = "locks" \/ \A i \in DOMAIN rows : rows[i] # r
    /\ rows' = Append(rows, r)
    /\ UNCHANGED server

CollectorsNext == \E r \in server.rows : OneMoreRow(r)
CollectorsSpec == CollectorsInit /\ [][CollectorsNext]_collectorsVars

-----------------------------------------------------------------------------
(* Limits.  What a query returns of a list are places in it. *)

RowsOf(list, collector) == {i \in DOMAIN list : list[i].from = collector}
First(places, n) == {i \in places : Cardinality({j \in places : j <= i}) <= n}

\* Mutant: no query asks for a row beyond the limit.
QueriedLimitOnly(collector) == Limits[collector]

\* The schema risk scans ask for one row beyond the limit; it says that there
\* are more, and is not kept.
RiskScans == {"primary_keys", "auto_increment"}
Queried(collector) == Limits[collector] + (IF collector \in RiskScans THEN 1 ELSE 0)
Returned(list, collector) == First(RowsOf(list, collector), Queried(collector))
Kept(list, collector) == First(Returned(list, collector), Limits[collector])

\* The scans that end with an error, which the planner makes a warning, though
\* what they kept stays.
Truncated(list) ==
    {c \in RiskScans : Cardinality(Returned(list, c)) > Limits[c]}

-----------------------------------------------------------------------------
(* Rows to observations.  Texts are values, and a rate is a pair.  *)

Observation(key, object, value) == [key |-> key, object |-> object, value |-> value]
Instance == <<"instance", "server">>

\* An edge of the wait-for graph, on the table of the lock if it is known.
LockObservations(r) ==
    LET ref == IF r.table = None THEN Instance ELSE <<"table", r.table>>
    IN  {Observation("lock_wait.count", ref, 1),
         Observation("lock_wait.edge", ref, <<r.requesting, r.blocking>>)}

TransactionObservations(r) ==
    LET ref == <<"transaction", r.transaction>>
    IN  {Observation("transaction.age_seconds", ref, r.age)}
          \cup (IF r.waiting THEN {Observation("transaction.lock_wait_seconds", ref, r.wait)} ELSE {})

\* The signature is what the index is made of, column by column with prefix
\* length and order; its text form is prefix-free, so it is kept as a list.
IndexObservations(r) ==
    LET ref == <<"index", <<r.table, r.index>>>>
    IN  {Observation("index.reads", ref, r.reads),
         Observation("index.signature", ref, r.signature),
         Observation("index.table", ref, r.table),
         Observation("index.unique", ref, r.unique),
         Observation("index.primary", ref, r.index = "PRIMARY")}

\* A channel without a name is the default one.  Coordinator and workers are
\* objects of their own.
ReplicationObservations(r) ==
    LET channel == IF r.channel = None THEN "default" ELSE r.channel
        direct  == r.component \in {"receiver", "applier"}
        ref     == IF direct THEN <<"replication_channel", channel>>
                             ELSE <<"replication_worker", <<channel, r.component>>>>
        state   == IF r.component = "receiver" THEN "replication.receiver_state"
                   ELSE IF r.component = "applier" THEN "replication.applier_state"
                   ELSE "replication.worker_state"
    IN  {Observation(state, ref, r.state)}
          \cup (IF r.error > 0 THEN {Observation("replication.error_code", ref, r.error)} ELSE {})

LagObservations(r) ==
    {Observation("replication.active_apply_lag_seconds",
                 <<"replication_channel", IF r.channel = None THEN "default" ELSE r.channel>>,
                 r.lag)}

PurgeObservations(r) ==
    {Observation("innodb.history_list_length", Instance, r.length)}

TableObservations(r) ==
    {Observation("table.estimated_rows", <<"table", r.table>>, r.estimate)}

StatusObservations(r) == {Observation(r.status, Instance, r.value)}

PrimaryKeyObservations(r) ==
    {Observation("table.primary_key_present", <<"table", r.table>>, r.present)}

\* By type, the largest signed and unsigned value.  A column of another type
\* is left out; int and bigint, too large to be checked, are like these.
Largest == [tinyint |-> <<127, 255>>, smallint |-> <<32767, 65535>>,
            mediumint |-> <<8388607, 16777215>>]
AutoIncrementMax(r) == Largest[r.type][IF r.unsigned THEN 2 ELSE 1]
AutoIncrementObservations(r) ==
    IF r.type \in DOMAIN Largest
    THEN {Observation("auto_increment.utilization_ratio", <<"column", r.column>>,
                      <<r.next, AutoIncrementMax(r)>>)}
    ELSE {}

ObservationsOf(r) ==
    CASE r.from = "locks"          -> LockObservations(r)
      [] r.from = "transactions"   -> TransactionObservations(r)
      [] r.from = "indexes"        -> IndexObservations(r)
      [] r.from = "replication"    -> ReplicationObservations(r)
      [] r.from = "lag"            -> LagObservations(r)
      [] r.from = "purge"          -> PurgeObservations(r)
      [] r.from = "tables"         -> TableObservations(r)
      [] r.from = "status"         -> StatusObservations(r)
      [] r.from = "primary_keys"   -> PrimaryKeyObservations(r)
      [] r.from = "auto_increment" -> AutoIncrementObservations(r)

\* Runtime.Collectors: all of them but the counters, which come as deltas.
Snapshots == {"status", "indexes", "tables", "transactions", "locks", "replication", "lag",
              "purge", "primary_keys", "auto_increment"}

\* What was seen, row by row.  No two collectors share a key, so their order
\* does not matter, and neither does the order within a row.
Current(list) ==
    [i \in UNION {Kept(list, c) : c \in Snapshots} |-> ObservationsOf(list[i])]

\* The planner's deltas: [key, object, delta, window].
Deltas(list) == [i \in RowsOf(list, "deltas") |-> list[i]]

-----------------------------------------------------------------------------
(* What a server may hold *)

Rows ==
    [from : {"locks"}, requesting : STRING, blocking : STRING, table : STRING \cup {None}]
    \cup [from : {"transactions"}, transaction : STRING, age : Int, waiting : BOOLEAN, wait : Int]
    \cup [from : {"indexes"}, table : STRING, index : STRING, unique : BOOLEAN,
          signature : Seq(STRING), reads : Int]
    \cup [from : {"replication"}, component : STRING, channel : STRING \cup {None},
          state : STRING, error : Int]
    \cup [from : {"lag"}, channel : STRING \cup {None}, lag : Int]
    \cup [from : {"purge"}, length : Int]
    \cup [from : {"tables"}, table : STRING, estimate : Int]
    \cup [from : {"status"}, value : Int,
          status : {"connections.used", "connections.limit", "server.uptime_seconds"}]
    \cup [from : {"primary_keys"}, table : STRING, present : BOOLEAN]
    \cup [from : {"auto_increment"}, column : STRING, type : STRING, unsigned : BOOLEAN, next : Int]
    \cup [from : {"deltas"}, key : STRING, object : STRING \X STRING, delta : Int, window : Int]

\* Two rows never say something about the same object under one key, unless
\* they are locks.
AreAboutDifferentObjects(r, s) ==
    IF r.from = "deltas" THEN r.key # s.key \/ r.object # s.object
    ELSE \A o \in ObservationsOf(r), p \in ObservationsOf(s) : o.key # p.key \/ o.object # p.object

ASSUME CollectorsAssumption ==
    /\ None \notin Int \cup STRING
    /\ \A c \in Snapshots : Limits[c] \in Nat
    /\ \A s \in Servers :
          /\ s.most \in Nat /\ s.rows \subseteq Rows
          /\ \A r, t \in s.rows :
                r # t /\ r.from = t.from /\ r.from # "locks" => AreAboutDifferentObjects(r, t)
=============================================================================
