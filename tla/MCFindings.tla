----------------------------- MODULE MCFindings -----------------------------
(***************************************************************************)
(* Servers for Findings: small graphs and tables, and numbers beside the   *)
(* thresholds of the rules.                                                *)
(***************************************************************************)
EXTENDS Findings

\* TLC tells records apart by the first of their fields that differs, in the
\* order in which it met the names: it has to meet key before value.
Counter(key, object, delta) ==
    [from |-> "deltas", key |-> key, object |-> object, delta |-> delta, window |-> 2]
Lock(requesting, blocking, table) ==
    [from |-> "locks", requesting |-> requesting, blocking |-> blocking, table |-> table]
Transaction(t, age, wait) ==
    [from |-> "transactions", transaction |-> t, age |-> age, waiting |-> wait > 0, wait |-> wait]
Index(name, unique, signature, reads) ==
    [from |-> "indexes", table |-> "orders", index |-> name, unique |-> unique,
     signature |-> signature, reads |-> reads]
Channel(component, channel, state, error) ==
    [from |-> "replication", component |-> component, channel |-> channel,
     state |-> state, error |-> error]
Status(status, value) == [from |-> "status", status |-> status, value |-> value]
PrimaryKey(table, present) == [from |-> "primary_keys", table |-> table, present |-> present]
Column(column, type, unsigned, next) ==
    [from |-> "auto_increment", column |-> column, type |-> type, unsigned |-> unsigned, next |-> next]

Server(held, most) == [rows |-> held, most |-> most]

WaitGraphs ==
    {Server({Lock("a", "b", "orders"), Lock("b", "c", "orders"), Lock("c", "a", None),
             Lock("c", "d", "orders"), Lock("a", "c", "orders"), Lock("b", "d", "items")}, 4),
     Server({Lock("a", "b", "orders"), Lock("c", "b", "items"), Lock("b", "b", None)}, 6),
     Server({Lock("a", "b", "orders")}, 11)}

Waiting ==
    {Server({Transaction("a", 300 + n, 30 + n), Transaction("b", 1800 + n, 50 + n),
             Transaction("c", 20, 0)}, 3) : n \in {-1, 0}}

Indexed ==
    {Server({Status("server.uptime_seconds", uptime), Index("PRIMARY", TRUE, <<"a">>, 0),
             Index("i1", FALSE, <<"a">>, 3), Index("i2", FALSE, <<"a">>, 0),
             Index("i3", FALSE, <<"a", "b">>, 3), Index("i4", FALSE, <<"a(9)", "b", "c">>, 0),
             Index("i5", FALSE, <<"a", "b", "c">>, 1), Index("i6", TRUE, <<"a", "b", "c", "d">>, 0)}, 5) :
        uptime \in {3599, 3600}}

Replicas ==
    {Server({Channel("receiver", None, "ON", 0), Channel("applier", None, state, 0),
             Channel("coordinator", None, "ON", 1), Channel("receiver", "eu", "CONNECTING", 2),
             [from |-> "lag", channel |-> "eu", lag |-> 29]}, 4) : state \in {"ON", "OFF"}}

Tables ==
    {Server({PrimaryKey("t1", FALSE), PrimaryKey("t2", TRUE), PrimaryKey("t3", FALSE),
             PrimaryKey("t4", FALSE), Column("c1", "tinyint", FALSE, next),
             Column("c2", "tinyint", TRUE, next), Column("c3", "float", FALSE, next)}, 5) :
        next \in {101, 120}}
    \cup {Server({[from |-> "tables", table |-> "t1", estimate |-> estimate],
                  Counter("table.full_scan_rows", <<"table", "t1">>, scans)}, 2) :
            estimate \in {999, 1000}, scans \in {99999, 100000, 999999}}

Instances ==
    {Server({Status("connections.used", used), Status("connections.limit", 20),
             [from |-> "purge", length |-> 99999 + used]}, 3) : used \in {16, 17, 18, 19}}
    \cup {Server({Counter("buffer_pool.read_requests", Instance, requests),
                  Counter("buffer_pool.reads", Instance, reads)}, 2) :
            requests \in {999, 1000}, reads \in {50, 51, 300, 301}}
    \cup {Server({Counter("innodb.log_waits", Instance, n), Counter("innodb.deadlocks", Instance, n)}, 2) :
            n \in {0, 1, 2, 3, 4, 9}}

Queries ==
    LET q == <<"query", "q">>
    IN  {Server({Counter("query.calls", q, calls), Counter("query.no_index_used", q, bad),
                 Counter("query.no_good_index_used", q, bad),
                 Counter("query.temp_disk_tables", q, bad)}, 4) :
            calls \in {9, 10, 12}, bad \in {2, 3, 4, 5, 6, 8, 9}}
        \cup {Server({Counter("query.rows_examined", q, examined),
                      Counter("query.rows_sent", q, sent)}, 2) :
                examined \in {9999, 10000, 99999}, sent \in {0, 10, 100, 101}}
        \cup {Server({Counter("query.calls", q, calls),
                      Counter("query.total_latency_ms", q, latency)}, 2) :
                calls \in {4, 5}, latency \in {999, 1000, 3999}}

SmallServers ==
    WaitGraphs \cup Waiting \cup Indexed \cup Replicas \cup Tables \cup Instances \cup Queries

SmallLimits ==
    [locks |-> 10, transactions |-> 2, indexes |-> 4, replication |-> 3, lag |-> 1, purge |-> 1,
     tables |-> 1, status |-> 3, primary_keys |-> 2, auto_increment |-> 2, deltas |-> 4]
=============================================================================
