---------------------------- MODULE Capabilities ----------------------------
(***************************************************************************)
(* What an inspection may look at: discoverCapabilities                    *)
(* (adapters/mysql/capabilities.go) asks the server one probe per group of *)
(* capabilities, the planner runs the collectors whose requirements are    *)
(* met, and Service.Run evaluates the rules whose requirements are met.    *)
(* A probe fails for want of a privilege, of an engine feature, or because *)
(* this one query failed; nobody can tell which.                           *)
(***************************************************************************)

CONSTANT Fallible   \* the probes that may fail

VARIABLE caps       \* capability.Set of the runtime

-----------------------------------------------------------------------------
(* Probes *)

\* Asked only when the performance schema can be read.
Gated ==
    [sessions     |-> {"activity.sessions"},
     query_digest |-> {"workload.query_summary"},
     indexes      |-> {"schema.indexes"},
     lock_waits   |-> {"locking.wait_graph"},
     replication  |-> {"replication.status", "mysql.replication"},
     storage      |-> {"storage.cache"}]

Ungated ==
    [transactions       |-> {"activity.transactions"},
     objects            |-> {"schema.objects"},
     schema_fingerprint |-> {"mysql.schema_fingerprint"},
     explain            |-> {"query.explain"},
     innodb             |-> {"mysql.innodb"},
     innodb_metrics     |-> {"mysql.innodb_metrics"},
     sys                |-> {"mysql.sys_schema"}]

Probes == {"performance_schema"} \cup DOMAIN Gated \cup DOMAIN Ungated

ASSUME CapabilitiesAssumption == Fallible \subseteq Probes

Given(probes, failing) == UNION {probes[p] : p \in DOMAIN probes \ failing}

\* Mutant: all probes are asked, whether or not the performance schema is on.
DiscoveredUngated(performanceSchema, failing) ==
    Given(Gated, failing) \cup Given(Ungated, failing)
        \cup (IF performanceSchema /\ "performance_schema" \notin failing
              THEN {"mysql.performance_schema"} ELSE {})

\* performanceSchema is the server's variable of that name.
Discovered(performanceSchema, failing) ==
    Given(Ungated, failing)
        \cup (IF performanceSchema /\ "performance_schema" \notin failing
              THEN {"mysql.performance_schema"} \cup Given(Gated, failing)
              ELSE {})

-----------------------------------------------------------------------------
(* Who requires what.  Keys are those that a rule reads. *)

CollectorRequires ==
    [health_snapshot    |-> {"mysql.performance_schema"},
     health_counters    |-> {"mysql.performance_schema"},
     queries            |-> {"workload.query_summary"},
     indexes            |-> {"schema.indexes"},
     tables             |-> {"schema.objects", "schema.indexes"},
     transactions       |-> {"activity.transactions"},
     locks              |-> {"locking.wait_graph"},
     replication        |-> {"replication.status"},
     lag                |-> {"replication.status"},
     purge              |-> {"mysql.innodb_metrics"},
     schema_fingerprint |-> {"mysql.schema_fingerprint"},
     primary_keys       |-> {"schema.objects"},
     auto_increment     |-> {"schema.objects"}]

Produces ==
    [health_snapshot    |-> {"connections.used", "connections.limit", "server.uptime_seconds"},
     health_counters    |-> {"buffer_pool.read_requests", "buffer_pool.reads",
                             "innodb.log_waits", "innodb.deadlocks"},
     queries            |-> {"query.calls", "query.total_latency_ms", "query.rows_examined",
                             "query.rows_sent", "query.no_index_used",
                             "query.no_good_index_used", "query.temp_disk_tables"},
     indexes            |-> {"index.reads", "index.signature", "index.table", "index.unique",
                             "index.primary"},
     tables             |-> {"table.estimated_rows", "table.full_scan_rows"},
     transactions       |-> {"transaction.age_seconds", "transaction.lock_wait_seconds"},
     locks              |-> {"lock_wait.count", "lock_wait.edge"},
     replication        |-> {"replication.receiver_state", "replication.applier_state",
                             "replication.error_code"},
     lag                |-> {"replication.active_apply_lag_seconds"},
     purge              |-> {"innodb.history_list_length"},
     schema_fingerprint |-> {},
     primary_keys       |-> {"table.primary_key_present"},
     auto_increment     |-> {"auto_increment.utilization_ratio"}]

Rule(requires, reads) == [requires |-> requires, reads |-> reads]

OfQueries(keys) == Rule({"workload.query_summary"}, keys)
OfInnoDB(key) == Rule({"mysql.innodb", "mysql.performance_schema"}, {key})

Rules ==
    [connection_saturation    |-> Rule({}, {"connections.used", "connections.limit"}),
     long_transaction         |-> Rule({"activity.transactions"}, {"transaction.age_seconds"}),
     lock_wait_long           |-> Rule({"activity.transactions"}, {"transaction.lock_wait_seconds"}),
     query_full_scan_heavy    |-> OfQueries({"query.calls", "query.no_index_used"}),
     query_rows_examined_amplification |-> OfQueries({"query.rows_examined", "query.rows_sent"}),
     query_high_total_time    |-> OfQueries({"query.calls", "query.total_latency_ms"}),
     no_good_index            |-> OfQueries({"query.calls", "query.no_good_index_used"}),
     disk_temp_tables         |-> OfQueries({"query.calls", "query.temp_disk_tables"}),
     unused_index             |-> Rule({"schema.indexes", "mysql.performance_schema"},
                                       Produces.indexes \cup {"server.uptime_seconds"}),
     redundant_index          |-> Rule({"schema.indexes"}, Produces.indexes \ {"index.reads"}),
     buffer_pool_hit_low      |-> Rule({"storage.cache"},
                                       {"buffer_pool.read_requests", "buffer_pool.reads"}),
     replication_stopped      |-> Rule({"replication.status"},
                                       {"replication.receiver_state", "replication.applier_state"}),
     replication_error        |-> Rule({"replication.status"}, {"replication.error_code"}),
     replication_apply_lag    |-> Rule({"replication.status"},
                                       {"replication.active_apply_lag_seconds"}),
     lock_wait_contention     |-> Rule({"locking.wait_graph"}, {"lock_wait.count"}),
     blocking_chain           |-> Rule({"locking.wait_graph"}, {"lock_wait.edge"}),
     missing_primary_key      |-> Rule({"schema.objects"}, {"table.primary_key_present"}),
     auto_increment_exhaustion |-> Rule({"schema.objects"}, {"auto_increment.utilization_ratio"}),
     redo_pressure            |-> OfInnoDB("innodb.log_waits"),
     deadlock_rate_high       |-> OfInnoDB("innodb.deadlocks"),
     full_scan_heavy_table    |-> Rule({"schema.objects", "mysql.performance_schema"},
                                       Produces.tables),
     innodb_purge_lag         |-> Rule({"mysql.innodb_metrics"}, {"innodb.history_list_length"})]

\* Planner.Run's selection and Service.Run's loop over the rules: HasAll.
Selected(offered) ==
    {c \in DOMAIN CollectorRequires : CollectorRequires[c] \subseteq offered}
Evaluated(offered) == {r \in DOMAIN Rules : Rules[r].requires \subseteq offered}

-----------------------------------------------------------------------------
\* A runtime that is not open has no capability.
CapabilitiesInit == caps = {}

\* openRuntime, up to the runtime it returns.
Discover ==
    \E failing \in SUBSET Fallible, performanceSchema \in BOOLEAN :
        caps' = Discovered(performanceSchema, failing)

Close == caps' = {}

-----------------------------------------------------------------------------
\* Rules whose evidence no selected collector produces.
Blind(offered) ==
    LET collected == UNION {Produces[c] : c \in Selected(offered)}
    IN  {r \in Evaluated(offered) : ~(Rules[r].reads \subseteq collected)}

\* Two rules may be evaluated on nothing: the core rule for connections
\* serves any engine and requires nothing, and full_scan_heavy_table does not
\* require schema.indexes, as the collector of its evidence does.
Excused(offered) ==
    (IF "mysql.performance_schema" \in offered THEN {} ELSE {"connection_saturation"})
        \cup (IF "schema.indexes" \in offered THEN {} ELSE {"full_scan_heavy_table"})

NoneElseIsBlind ==
    \A performanceSchema \in BOOLEAN, failing \in SUBSET Probes :
        LET offered == Discovered(performanceSchema, failing)
        IN  Blind(offered) \subseteq Excused(offered)

\* A rule that is evaluated on nothing finds nothing, and its silence looks
\* like health.  Whatever the probes of a runtime that is still to be opened
\* will say, the evidence of every rule that is evaluated is collected, the
\* two above excepted.
RulesHaveTheirEvidence == caps = {} => NoneElseIsBlind
=============================================================================
