------------------------------ MODULE Findings ------------------------------
(***************************************************************************)
(* The rules that make findings of an inspection's evidence: the core rule *)
(* of internal/core/findings and the MySQL rules of                        *)
(* adapters/mysql/findings, as inspect.Service.Run evaluates them.         *)
(*                                                                         *)
(* Ratios are compared by cross-multiplication: rounding is left out.  A   *)
(* finding is [id, object, severity]; titles, summaries and confidence are *)
(* left out, and every capability is taken to be there.                    *)
(***************************************************************************)
EXTENDS Collectors

Finding(id, object, severity) == [id |-> id, object |-> object, severity |-> severity]

\* Mutant: the upper threshold itself is in neither case.
GradeWithAHole(id, object, value, warn, critical) ==
    IF value > critical THEN {Finding(id, object, "critical")}
    ELSE IF value >= warn /\ value < critical THEN {Finding(id, object, "warn")}
    ELSE {}

\* The findings of a switch over two thresholds.
Grade(id, object, value, warn, critical) ==
    IF value >= critical THEN {Finding(id, object, "critical")}
    ELSE IF value >= warn THEN {Finding(id, object, "warn")}
    ELSE {}

-----------------------------------------------------------------------------
(* Evidence *)

Of(list, key) == UNION {{o \in list[i] : o.key = key} : i \in DOMAIN list}

\* The places of the rows that say something of an object under a key.
Places(list, object, key) ==
    {i \in DOMAIN list : \E o \in list[i] : o.object = object /\ o.key = key}
ValueAt(list, i, object, key) == (CHOOSE o \in list[i] : o.object = object /\ o.key = key).value

\* indexStates, the channels' states: the last observation counts.
Said(list, object, key) ==
    LET said == Places(list, object, key)
    IN  IF said = {} THEN None ELSE ValueAt(list, Max(said), object, key)

\* firstNumber
FirstNumber(list, object, key) ==
    LET said == Places(list, object, key)
    IN  IF said = {} THEN None ELSE ValueAt(list, Min(said), object, key)

Grouped(deltas) == {deltas[i].object : i \in DOMAIN deltas}
Counts(deltas, object, key) ==
    {i \in DOMAIN deltas : deltas[i].object = object /\ deltas[i].key = key}

\* Mutant: a delta that is missing is taken to be zero.
DeltaOrZero(deltas, object, key) ==
    LET counts == Counts(deltas, object, key)
    IN  IF counts = {} THEN 0 ELSE deltas[Max(counts)].delta

\* groupDeltas: a delta of an object, the last one of its key.
Delta(deltas, object, key) ==
    LET counts == Counts(deltas, object, key)
    IN  IF counts = {} THEN None ELSE deltas[Max(counts)].delta

-----------------------------------------------------------------------------
(* Rules over the current observations *)

Each(list, key, id, warn, critical) ==
    UNION {Grade(id, o.object, o.value, warn, critical) : o \in Of(list, key)}

\* Transactions come and go: all findings of one rule name one object.
LongTransaction(list) ==
    UNION {Grade("long_transaction", <<"transaction_class", "long-running">>,
                 o.value, 300, 1800) : o \in Of(list, "transaction.age_seconds")}
LockWaitLong(list) ==
    UNION {Grade("lock_wait_long", <<"transaction_class", "long-lock-wait">>,
                 o.value, 30, 50) : o \in Of(list, "transaction.lock_wait_seconds")}

PurgeLag(list) == Each(list, "innodb.history_list_length", "innodb_purge_lag", 100000, 1000000)
ReplicationApplyLag(list) ==
    Each(list, "replication.active_apply_lag_seconds", "replication_apply_lag", 30, 120)

ReplicationError(list) ==
    {Finding("replication_error", o.object, "critical") :
        o \in {p \in Of(list, "replication.error_code") : p.value # 0}}

\* Mutant: only a state of OFF is one of standing still.
ReplicationOff(list) ==
    {Finding("replication_stopped", o.object, "critical") :
        o \in {p \in Of(list, "replication.receiver_state")
                       \cup Of(list, "replication.applier_state") : p.value = "OFF"}}

\* A state that was not observed counts as stopped, if the other one was.
ReplicationStopped(list) ==
    LET Running(o, key) == Said(list, o, key) = "ON"
        channels == {o.object : o \in Of(list, "replication.receiver_state")
                                        \cup Of(list, "replication.applier_state")}
    IN  {Finding("replication_stopped", c, "critical") :
            c \in {d \in channels : ~(/\ Running(d, "replication.receiver_state")
                                      /\ Running(d, "replication.applier_state"))}}

MissingPrimaryKey(list) ==
    {Finding("missing_primary_key", o.object, "warn") :
        o \in {p \in Of(list, "table.primary_key_present") : ~p.value}}

AutoIncrementExhaustion(list) ==
    UNION {Grade("auto_increment_exhaustion", o.object,
                 100 * o.value[1], 80 * o.value[2], 95 * o.value[2]) :
              o \in Of(list, "auto_increment.utilization_ratio")}

ConnectionSaturation(list) ==
    LET used  == Said(list, Instance, "connections.used")
        limit == Said(list, Instance, "connections.limit")
    IN  IF used = None \/ limit = None THEN {}
        ELSE IF limit <= 0 \/ used < 0 THEN {}
        ELSE Grade("connection_saturation", Instance, 100 * used, 85 * limit, 95 * limit)

\* Every wait counts one for the table of its lock.
LockContention(list) ==
    LET Waits(t) == Cardinality(Places(list, t, "lock_wait.count"))
    IN  UNION {Grade("lock_wait_contention", t, Waits(t), 3, 10) :
                  t \in {o.object : o \in Of(list, "lock_wait.count")} \ {Instance}}

-----------------------------------------------------------------------------
(* The wait-for graph *)

BlockedBy(edges, node) == {e[2] : e \in {f \in edges : f[1] = node}}

\* Mutant: a transaction keeps only the last of those it waits for.
LastEdges(list) ==
    LET waits(i, t) == \E o \in list[i] : o.key = "lock_wait.edge" /\ o.value[1] = t
    IN  {o.value : o \in UNION {{p \in list[i] : /\ p.key = "lock_wait.edge"
                                                 /\ \A j \in DOMAIN list : j > i => ~waits(j, p.value[1])} :
                                    i \in DOMAIN list}}

Edges(list) == {o.value : o \in Of(list, "lock_wait.edge")}

\* Mutant: a step to a node of the path is not counted.
DepthOfSimplePaths(edges, start) ==
    LET nodes == UNION {{e[1], e[2]} : e \in edges}
        depth[p \in nodes \X SUBSET nodes] ==
            Max({0} \cup {1 + depth[<<n, p[2] \cup {p[1]}>>] :
                             n \in BlockedBy(edges, p[1]) \ (p[2] \cup {p[1]})})
    IN  depth[<<start, {}>>]

\* The search from a node; path is the set of the nodes it is in the midst of,
\* where it turns back.
BlockingDepth(edges, start) ==
    LET nodes == UNION {{e[1], e[2]} : e \in edges}
        depth[p \in nodes \X SUBSET nodes] ==
            IF p[1] \in p[2] THEN 0
            ELSE Max({0} \cup {1 + depth[<<n, p[2] \cup {p[1]}>>] : n \in BlockedBy(edges, p[1])})
    IN  depth[<<start, {}>>]

LongestChain(list) ==
    Max({0} \cup {BlockingDepth(Edges(list), e[1]) : e \in Edges(list)})

BlockingChain(list) ==
    Grade("blocking_chain", <<"lock_graph", "blocking-chain">>, LongestChain(list), 2, 3)

-----------------------------------------------------------------------------
(* Indexes *)

Indexes(list) == {o.object : o \in Of(list, "index.table")}
Secondary(list, i) == ~Said(list, i, "index.primary") /\ ~Said(list, i, "index.unique")

UnusedIndex(list) ==
    LET uptime == FirstNumber(list, Instance, "server.uptime_seconds")
    IN  IF uptime = None THEN {}
        ELSE {Finding("unused_index", i, "info") :
                i \in {j \in Indexes(list) : /\ uptime >= 3600
                                             /\ Said(list, j, "index.reads") = 0
                                             /\ Secondary(list, j)}}

\* Mutant: equal signatures are compared too.
LeftPrefixOrEqual(short, long) ==
    Len(short) <= Len(long) /\ SubSeq(long, 1, Len(short)) = short

\* The text of the shorter signature and a separator begin the longer one; two
\* signatures of the same length are passed over before they are compared.
LeftPrefix(short, long) ==
    Len(short) < Len(long) /\ SubSeq(long, 1, Len(short)) = short

Covers(list, long, short) ==
    /\ Secondary(list, long)
    /\ Said(list, long, "index.table") = Said(list, short, "index.table")
    /\ LeftPrefix(Said(list, short, "index.signature"), Said(list, long, "index.signature"))

RedundantIndex(list) ==
    {Finding("redundant_index", i, "info") :
        i \in {j \in Indexes(list) :
                  Secondary(list, j) /\ \E k \in Indexes(list) \ {j} : Covers(list, k, j)}}

-----------------------------------------------------------------------------
(* Rules over the deltas of the sample window *)

\* The share of a query's calls that did something it should not.
OfCalls(deltas, key, id, least, warn, critical) ==
    UNION {LET calls == Delta(deltas, g, "query.calls")
               bad   == Delta(deltas, g, key)
           IN  IF calls = None \/ bad = None THEN {}
               ELSE IF calls < 10 \/ bad < least THEN {}
               ELSE Grade(id, g, 100 * bad, warn * calls, critical * calls) :
           g \in Grouped(deltas)}

NoGoodIndex(deltas) == OfCalls(deltas, "query.no_good_index_used", "no_good_index", 5, 25, 75)
DiskTempTable(deltas) == OfCalls(deltas, "query.temp_disk_tables", "disk_temp_tables", 3, 10, 50)

\* Any share of a half or more is a warning.
QueryFullScan(deltas) ==
    {Finding("query_full_scan_heavy", f.object, "warn") :
        f \in OfCalls(deltas, "query.no_index_used", "query_full_scan_heavy", 5, 50, 50)}

QueryAmplification(deltas) ==
    UNION {LET examined == Delta(deltas, g, "query.rows_examined")
               sent     == Delta(deltas, g, "query.rows_sent")
           IN  IF examined = None \/ sent = None THEN {}
               ELSE IF examined < 10000 THEN {}
               ELSE Grade("query_rows_examined_amplification", g, examined,
                          100 * Max({sent, 1}), 1000 * Max({sent, 1})) :
           g \in Grouped(deltas)}

\* Seconds of statement time per second: half of one, and two.
QueryHighTotalTime(deltas) ==
    UNION {LET d     == deltas[i]
               calls == Delta(deltas, d.object, "query.calls")
           IN  IF d.key # "query.total_latency_ms" \/ d.window <= 0 \/ d.delta < 1000 THEN {}
               ELSE IF calls = None THEN {}
               ELSE IF calls < 5 THEN {}
               ELSE Grade("query_high_total_time", d.object,
                          2 * d.delta, 1000 * d.window, 4000 * d.window) :
           i \in DOMAIN deltas}

\* A hit ratio below 0.95 and below 0.70, in twentieths of misses.
BufferPoolHit(deltas) ==
    UNION {LET requests == Delta(deltas, g, "buffer_pool.read_requests")
               reads    == Delta(deltas, g, "buffer_pool.reads")
           IN  IF requests = None \/ reads = None THEN {}
               ELSE IF requests < 1000 THEN {}
               ELSE Grade("buffer_pool_hit_low", g, 20 * reads, requests + 1, 6 * requests + 1) :
           g \in Grouped(deltas)}

Counted(deltas, key, id, warn, critical) ==
    UNION {LET n == Delta(deltas, g, key)
           IN  IF n = None THEN {} ELSE Grade(id, g, n, warn, critical) : g \in Grouped(deltas)}

RedoPressure(deltas) == Counted(deltas, "innodb.log_waits", "redo_pressure", 1, 5)
DeadlockRate(deltas) == Counted(deltas, "innodb.deadlocks", "deadlock_rate_high", 3, 10)

FullScanHeavyTable(list, deltas) ==
    {f \in Counted(deltas, "table.full_scan_rows", "full_scan_heavy_table", 100000, 1000000) :
        LET estimate == FirstNumber(list, f.object, "table.estimated_rows")
        IN  IF estimate = None THEN FALSE ELSE estimate >= 1000}

-----------------------------------------------------------------------------
(* Service.Run: every rule of composeRules, whose IDs are all different *)

FindingsOf(rowList) ==
    LET list   == Current(rowList)
        deltas == Deltas(rowList)
    IN  UNION {ConnectionSaturation(list),
               LongTransaction(list), QueryFullScan(deltas), QueryAmplification(deltas),
               UnusedIndex(list), RedundantIndex(list), BufferPoolHit(deltas),
               ReplicationStopped(list), ReplicationError(list), LockContention(list),
               MissingPrimaryKey(list), AutoIncrementExhaustion(list), NoGoodIndex(deltas),
               DiskTempTable(deltas), RedoPressure(deltas), DeadlockRate(deltas),
               FullScanHeavyTable(list, deltas),
               QueryHighTotalTime(deltas),
               LockWaitLong(list), BlockingChain(list),
               ReplicationApplyLag(list), PurgeLag(list)}

-----------------------------------------------------------------------------
Rank == [info |-> 1, warn |-> 2, critical |-> 3]
Keeps(found, more) ==
    \A f \in found : \E g \in more :
        g.id = f.id /\ g.object = f.object /\ Rank[g.severity] >= Rank[f.severity]

\* A finding rests on what was seen, never on what was not: with one more row
\* or delta every finding is still there, as severe or more.  The rule for
\* stopped channels is the exception: it takes a missing state for a stopped
\* one, which a list cut at its limit can bring about.
FindingsSurviveMoreEvidence ==
    [][Keeps({f \in FindingsOf(rows) : f.id # "replication_stopped"}, FindingsOf(rows'))]_collectorsVars

\* The order in which a server lists what it holds makes no difference to the
\* findings, as long as no list is cut: they are the same after any exchange
\* of neighbours, and so in any order.
Exchanged(i) == [rows EXCEPT ![i] = rows[i + 1], ![i + 1] = rows[i]]
OrderDoesNotMatter ==
    (\A c \in Snapshots : Cardinality(RowsOf(rows, c)) <= Limits[c]) =>
        \A i \in 1..(Len(rows) - 1) : FindingsOf(Exchanged(i)) = FindingsOf(rows)

Older(r, n) == [r EXCEPT !.age = @ + n, !.wait = @ + n]

\* A longer wait, a larger share, one more deadlock: what is worse for the
\* server never makes a finding milder or go away, at no threshold.
Worse(r) ==
    IF r.from = "deltas" /\ r.key \notin {"query.calls", "query.rows_sent", "buffer_pool.read_requests"}
        THEN {[r EXCEPT !.delta = @ + n] : n \in {1, 1000}}
    ELSE IF r.from = "transactions"
        THEN {Older(r, n) : n \in {1, 30}}
    ELSE IF r.from = "lag" THEN {[r EXCEPT !.lag = @ + n] : n \in {1, 100}}
    ELSE IF r.from = "purge" THEN {[r EXCEPT !.length = @ + n] : n \in {1, 900000}}
    ELSE IF r.from = "auto_increment" THEN {[r EXCEPT !.next = @ + n] : n \in {1, 16}}
    ELSE IF r.from = "status"
        THEN {[r EXCEPT !.value = @ + n] : n \in IF r.status = "connections.used" THEN {1, 5} ELSE {}}
    ELSE {}

WorseIsNeverMilder ==
    \A i \in DOMAIN rows : \A w \in Worse(rows[i]) :
        Keeps(FindingsOf(rows), FindingsOf([rows EXCEPT ![i] = w]))

\* The search finds the longest chain of waits, in a graph that may hold
\* cycles: the longest walk whose transactions are all different, but that
\* its last one may close a cycle.
Walks(edges) ==
    LET nodes == UNION {{e[1], e[2]} : e \in edges}
    IN  {w \in UNION {[1..n -> nodes] : n \in 1..(Cardinality(nodes) + 1)} :
            /\ \A i \in 1..(Len(w) - 1) : <<w[i], w[i + 1]>> \in edges
            /\ \A i, j \in 1..(Len(w) - 1) : w[i] = w[j] => i = j}

ChainIsLongestWalk ==
    LongestChain(Current(rows)) = Max({0} \cup {Len(w) - 1 : w \in Walks(Edges(Current(rows)))})

\* Dropping every index that is reported as redundant loses nothing: each one
\* is covered by an index of its table that is not reported itself.
RedundantIndexIsCovered ==
    LET list     == Current(rows)
        reported == {f.object : f \in RedundantIndex(list)}
    IN  \A i \in reported : \E k \in Indexes(list) \ reported :
            /\ Said(list, k, "index.table") = Said(list, i, "index.table")
            /\ LeftPrefix(Said(list, i, "index.signature"), Said(list, k, "index.signature"))

\* A channel is reported as stopped when a part of it that the list holds is
\* not running, whatever its coordinator and workers do, and then only: its
\* other part may be missing because the server has none, or, without a
\* warning, because the list was cut.
StoppedIsReal ==
    LET Direct(places) == {r \in {rows[i] : i \in places} :
                              r.from = "replication" /\ r.component \in {"receiver", "applier"}}
        listed == Direct(Kept(rows, "replication"))
        held == Direct(DOMAIN rows)
        stopped == {f.object[2] : f \in ReplicationStopped(Current(rows))}
        Name(r) == IF r.channel = None THEN "default" ELSE r.channel
        PartsOf(set, c) == {r \in set : Name(r) = c}
    IN  /\ \A r \in listed : r.state # "ON" => Name(r) \in stopped
        /\ \A c \in stopped :
              \/ \E r \in PartsOf(listed, c) : r.state # "ON"
              \/ Cardinality(PartsOf(held, c)) < 2
              \/ PartsOf(listed, c) # PartsOf(held, c)

\* A table without a primary key that is not reported is beyond a limit that
\* the inspection warns of.
UnreportedIsWarned ==
    \A i \in DOMAIN rows :
        rows[i].from = "primary_keys" => \/ rows[i].present
                                        \/ "primary_keys" \in Truncated(rows)
                                        \/ Finding("missing_primary_key", <<"table", rows[i].table>>, "warn")
                                              \in FindingsOf(rows)
=============================================================================
