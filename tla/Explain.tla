------------------------------ MODULE Explain -------------------------------
(***************************************************************************)
(* dbprobe explain: the command, its service, the runtime it opens and     *)
(* closes, the read-only transaction in which the plan is asked for, and   *)
(* the filter through which the plan passes.                               *)
(*                                                                         *)
(* The transaction belongs to a context with a timeout.  When it is over,  *)
(* a goroutine of database/sql ends the transaction, and the command's own *)
(* Rollback may come too late.  database/sql and the driver are external.  *)
(*                                                                         *)
(* A plan is a JSON tree: a function from the paths of its values to their *)
(* sorts.  A path is the list of the keys, and of the numbers of the       *)
(* items, that lead to a value; removed items leave their numbers unused.  *)
(***************************************************************************)
EXTENDS Integers, Sequences, FiniteSetsExt

CONSTANTS
    Plans,      \* a list of the plans a server may answer
    None

Sorts == {"map", "array", "string", "number", "bool", "null"}
Parent(v) == SubSeq(v, 1, Len(v) - 1)

\* Every value but the root is in a map or an array.
IsTree(plan) ==
    /\ <<>> \in DOMAIN plan
    /\ \A v \in DOMAIN plan :
          /\ v \in Seq(STRING) /\ plan[v] \in Sorts
          /\ v # <<>> => Parent(v) \in DOMAIN plan /\ plan[Parent(v)] \in {"map", "array"}

ASSUME ExplainAssumption == \A i \in DOMAIN Plans : IsTree(Plans[i])

VARIABLES
    pc,         \* where the command is
    pool,       \* the runtime's sql.DB: "none", "open", "closed"
    session,    \* the server's end: "none", "idle", "transaction", "gone"
    tx,         \* the sql.Tx: "none", "open", "done"
    context,    \* planCtx: "none", "live", "expired", "cancelled"
    closer,     \* database/sql's goroutine: "none", "waiting", "rolling", "gone"
    silent,     \* the server does not answer any more
    error,      \* the command will return an error
    answer,     \* the number of the plan that the server answered
    report      \* the plan that is reported

explainVars == <<pc, pool, session, tx, context, closer, silent, error, answer, report>>

-----------------------------------------------------------------------------
(* sanitizeMySQLJSONPlan *)

StringKeys == {"access_type", "data_read_per_join", "eval_cost", "key", "key_length", "prefix_cost",
               "query_cost", "read_cost", "schema_name", "sort_cost", "table_name",
               "using_join_buffer"}
StringSliceKeys == {"possible_keys", "used_columns", "used_key_parts"}
NumberKeys == {"select_id", "rows_examined_per_scan", "rows_produced_per_join", "filtered",
               "rows_for_plan", "rows_to_scan"}
BoolKeys == {"using_index", "using_index_condition", "using_temporary_table", "using_filesort",
             "dependent", "cacheable", "using_mrr"}

Children(plan, v) == {c \in DOMAIN plan : c # <<>> /\ Parent(c) = v}
InArray(plan, v) == v # <<>> /\ plan[Parent(v)] = "array"

\* The items of an array have the key of the array.
KeyOf(plan, v) == v[Max({i \in DOMAIN v : plan[SubSeq(v, 1, i - 1)] = "map"})]

Allowed(plan, v) ==
    KeyOf(plan, v) \in CASE plan[v] = "string" -> IF InArray(plan, v) THEN StringSliceKeys ELSE StringKeys
                         [] plan[v] = "number" -> NumberKeys
                         [] plan[v] = "bool"   -> BoolKeys
                         [] plan[v] = "null"   -> {}

\* Mutant: a list that may hold strings keeps all it holds.
KeepsWholeLists(plan) ==
    LET kept[v \in DOMAIN plan] ==
            IF plan[v] \in {"map", "array"} THEN \E c \in Children(plan, v) : kept[c]
            ELSE Allowed(plan, v) \/ (InArray(plan, v) /\ KeyOf(plan, v) \in StringSliceKeys)
    IN  [v \in {w \in DOMAIN plan : kept[w]} |-> plan[v]]

\* sanitizePlanValue and sanitizePlanSlice, from the leaves up.  What is left
\* empty is removed, but an array within an array is not.
Sanitized(plan) ==
    LET kept[v \in DOMAIN plan] ==
            CASE plan[v] = "map"   -> \E c \in Children(plan, v) : kept[c]
              [] plan[v] = "array" -> InArray(plan, v) \/ \E c \in Children(plan, v) : kept[c]
              [] OTHER             -> Allowed(plan, v)
    IN  [v \in {w \in DOMAIN plan : kept[w]} |-> plan[v]]

-----------------------------------------------------------------------------
ExplainInit ==
    /\ pc = "start"
    /\ pool = "none" /\ session = "none" /\ tx = "none"
    /\ context = "none" /\ closer = "none"
    /\ silent = FALSE /\ error = FALSE
    /\ answer = None /\ report = None

Goes(from, to) == pc = from /\ pc' = to
Answers == ~silent

\* The command's checks of its arguments, the target and the registry;
\* ParseConfig and the pool, which has no connection yet.
Start ==
    \/ /\ Goes("start", "ping")
       /\ pool' = "open"
       /\ UNCHANGED <<session, tx, context, closer, silent, error, answer, report>>
    \/ /\ Goes("start", "failed")
       /\ error' = TRUE
       /\ UNCHANGED <<pool, session, tx, context, closer, silent, answer, report>>

Ping ==
    /\ Goes("ping", "identity")
    /\ Answers
    /\ session' = "idle"
    /\ UNCHANGED <<pool, tx, context, closer, silent, error, answer, report>>

ReadIdentity ==
    /\ Goes("identity", "probe")
    /\ Answers
    /\ UNCHANGED <<pool, session, tx, context, closer, silent, error, answer, report>>

\* The server refuses, or the ping's timeout or the driver's passes.
OpenFails ==
    /\ pc \in {"ping", "identity"}
    /\ pc' = "failed"
    /\ error' = TRUE
    /\ pool' = "closed"
    /\ session' = IF session = "none" THEN "none" ELSE "gone"
    /\ UNCHANGED <<tx, context, closer, silent, answer, report>>

\* A probe that fails takes query.explain away.  No transaction is begun
\* without it, nor for a statement that validateExplainStatement refuses.
Probe ==
    \/ /\ Goes("probe", "begin")
       /\ Answers
       /\ context' = "live"
       /\ UNCHANGED <<pool, session, tx, closer, silent, error, answer, report>>
    \/ /\ Goes("probe", "close")
       /\ error' = TRUE
       /\ session' \in {"idle", "gone"}
       /\ UNCHANGED <<pool, tx, context, closer, silent, answer, report>>

Begin ==
    /\ Goes("begin", "query")
    /\ Answers /\ context = "live"
    /\ session' = "transaction"
    /\ tx' = "open" /\ closer' = "waiting"
    /\ UNCHANGED <<pool, context, silent, error, answer, report>>

\* A connection that did not answer in time is closed.
BeginFails ==
    /\ Goes("begin", "close")
    /\ error' = TRUE
    /\ session' \in {"idle", "gone"}
    /\ context' = IF context = "live" THEN "cancelled" ELSE context
    /\ UNCHANGED <<pool, tx, closer, silent, answer, report>>

\* Mutant: an answer without a row is taken for a plan.
QueryWithoutRow ==
    /\ Goes("query", "rollback")
    /\ Answers /\ tx = "open"
    /\ answer' \in DOMAIN Plans \cup {0}
    /\ UNCHANGED <<pool, session, tx, context, closer, silent, error, report>>

Query ==
    /\ Goes("query", "rollback")
    /\ Answers /\ tx = "open"
    /\ answer' \in DOMAIN Plans
    /\ UNCHANGED <<pool, session, tx, context, closer, silent, error, report>>

\* Mutant: a failed query is returned at once.
QueryFailsWithoutRollback ==
    /\ Goes("query", "close")
    /\ error' = TRUE
    /\ context' = IF context = "live" THEN "cancelled" ELSE context
    /\ UNCHANGED <<pool, session, tx, closer, silent, answer, report>>

\* The server refuses the statement or no answer comes in time; the driver
\* closes a connection whose context is over while it waits.
QueryFails ==
    /\ Goes("query", "rollback")
    /\ error' = TRUE
    /\ session' \in {session, "gone"}
    /\ UNCHANGED <<pool, tx, context, closer, silent, answer, report>>

\* The connection goes back to the pool, or is closed with it.
GivenBack == IF pool = "open" /\ session # "gone" THEN {"idle", "gone"} ELSE {"gone"}
RolledBack(s) == session' = s /\ (s = "idle" => Answers)

\* Mutant: a failed rollback is tried again.
RollbackAgain ==
    /\ pc = "rollback"
    /\ \/ /\ tx = "open" /\ tx' = "done"
          /\ \E s \in GivenBack : RolledBack(s)
          /\ pc' = IF error THEN "close" ELSE IF session' = "idle" THEN "sanitize" ELSE "rollback"
       \/ tx = "done" /\ UNCHANGED <<pc, tx, session>>
    /\ UNCHANGED <<pool, context, closer, silent, error, answer, report>>

\* Rollback of the command: database/sql lets only the first of the two
\* callers end the transaction, the other one has an error.  After a failed
\* query the error of the rollback is ignored.  Returning cancels planCtx.
Rollback ==
    /\ pc = "rollback"
    /\ \/ /\ tx = "open" /\ tx' = "done"
          /\ \E s \in GivenBack : RolledBack(s) /\ error' = (error \/ s = "gone")
       \/ /\ tx = "done" /\ error' = TRUE
          /\ UNCHANGED <<tx, session>>
    /\ pc' = IF error' THEN "close" ELSE "sanitize"
    /\ context' = IF error' /\ context = "live" THEN "cancelled" ELSE context
    /\ UNCHANGED <<pool, closer, silent, answer, report>>

\* The plan that is too large or no JSON is refused, or has nothing safe.
Sanitize ==
    /\ Goes("sanitize", "close")
    /\ LET plan == Sanitized(Plans[answer])
       IN  \/ /\ Plans[answer][<<>>] = "map" /\ DOMAIN plan # {}
              /\ report' = plan
              /\ UNCHANGED error
           \/ error' = TRUE /\ UNCHANGED report
    /\ context' = IF context = "live" THEN "cancelled" ELSE context
    /\ UNCHANGED <<pool, session, tx, closer, silent, answer>>

\* The deferred Close.  It closes the idle connections; one that is in use is
\* closed when it is given back.
Close ==
    /\ pc = "close"
    /\ pc' = IF error THEN "failed" ELSE "done"
    /\ pool' = "closed"
    /\ session' = IF session = "idle" THEN "gone" ELSE session
    /\ UNCHANGED <<tx, context, closer, silent, error, answer, report>>

\* The report or the error is printed and the process ends.
Exit ==
    /\ pc \in {"done", "failed"}
    /\ pc' = "exited"
    /\ session' = IF session = "none" THEN "none" ELSE "gone"
    /\ closer' = IF closer = "none" THEN "none" ELSE "gone"
    /\ UNCHANGED <<pool, tx, context, silent, error, answer, report>>

-----------------------------------------------------------------------------
(* database/sql and the server *)

Expire ==
    /\ context = "live"
    /\ context' = "expired"
    /\ UNCHANGED <<pc, pool, session, tx, closer, silent, error, answer, report>>

\* Tx.awaitDone
AwaitDone ==
    /\ closer = "waiting"
    /\ \/ tx = "done" /\ closer' = "gone" /\ UNCHANGED tx
       \/ context \in {"expired", "cancelled"} /\ tx = "open" /\ closer' = "rolling" /\ tx' = "done"
    /\ UNCHANGED <<pc, pool, session, context, silent, error, answer, report>>

RollbackByContext ==
    /\ closer = "rolling"
    /\ closer' = "gone"
    /\ \E s \in GivenBack : RolledBack(s)
    /\ UNCHANGED <<pc, pool, tx, context, silent, error, answer, report>>

ServerHangs ==
    /\ ~silent
    /\ silent' = TRUE
    /\ UNCHANGED <<pc, pool, session, tx, context, closer, error, answer, report>>

Command ==
    \/ Start \/ Ping \/ ReadIdentity \/ OpenFails \/ Probe \/ Begin \/ BeginFails
    \/ Query \/ QueryFails \/ Rollback \/ Sanitize \/ Close \/ Exit

Exited == pc = "exited" /\ UNCHANGED explainVars

ExplainNext ==
    \/ Command \/ Expire \/ AwaitDone \/ RollbackByContext \/ ServerHangs
    \/ Exited

\* The driver has timeouts for dialling, reading and writing, so that every
\* call returns.  Nothing is assumed of the server.
ExplainFairness == WF_explainVars(Command)

ExplainSpec == ExplainInit /\ [][ExplainNext]_explainVars
FairExplainSpec == ExplainSpec /\ ExplainFairness

-----------------------------------------------------------------------------
ExplainTypeOK ==
    /\ pc \in {"start", "ping", "identity", "probe", "begin", "query", "rollback", "sanitize",
               "close", "done", "failed", "exited"}
    /\ pool \in {"none", "open", "closed"}
    /\ session \in {"none", "idle", "transaction", "gone"}
    /\ tx \in {"none", "open", "done"}
    /\ context \in {"none", "live", "expired", "cancelled"}
    /\ closer \in {"none", "waiting", "rolling", "gone"}
    /\ silent \in BOOLEAN /\ error \in BOOLEAN
    /\ answer \in DOMAIN Plans \cup {None}

\* When the command returns, its pool is closed, and the server is left in a
\* transaction only by a context that expired under it.  A plan is reported
\* only when the command itself has rolled its transaction back; then the
\* context was in time, whatever the timer does at the same moment.
NothingLeftBehind ==
    /\ pc \in {"done", "failed"} =>
         /\ pool # "open"
         /\ tx # "open"
         /\ session = "transaction" => context = "expired" /\ closer = "rolling"
    /\ report # None => tx = "done" /\ session # "transaction" /\ closer # "rolling"

\* Of the answered plan the report has the values that the lists allow, all
\* of them and no other: the filter that works its way up through maps and
\* arrays agrees with a look at each value alone.
SafeLeaves(plan) ==
    {v \in DOMAIN plan : /\ plan[v] \in {"string", "number", "bool"}
                         /\ Allowed(plan, v)}

ReportIsTheSafePart ==
    report # None =>
        /\ {v \in DOMAIN report : report[v] \notin {"map", "array"}} = SafeLeaves(Plans[answer])
        /\ \A v \in DOMAIN report : report[v] = Plans[answer][v] /\ (v = <<>> \/ Parent(v) \in DOMAIN report)

\* The command ends, though the server may stop answering and the context
\* may expire at any moment.
ExplainReturns == <>(pc = "exited")
=============================================================================
