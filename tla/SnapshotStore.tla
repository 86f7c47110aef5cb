--------------------------- MODULE SnapshotStore ----------------------------
(***************************************************************************)
(* What temporal.Store (internal/core/temporal/store.go) promises to the   *)
(* inspect and diff services, whoever else uses the same history: every    *)
(* operation happens at one instant, a snapshot is kept whole and for      *)
(* ever under an identity derived from its target and time, saving it      *)
(* again changes nothing, and a different snapshot of the same identity    *)
(* does not replace it: the SQLite store refuses it with an error, the     *)
(* in-memory store accepts the call and keeps the first.                   *)
(***************************************************************************)
EXTENDS Snapshots

CONSTANTS Clients,      \* processes that may open the history
          Nothing,      \* no reply yet
          Conflicts,    \* other content for a kept ID is "refused" or "ignored"
          Limits        \* how many snapshots a list may ask for, 0 for all

VARIABLES saved,        \* the snapshots in the history
          reply         \* per client: what its last operation returned

storeVars == <<saved, reply>>

Says(c, r) == reply' = [reply EXCEPT ![c] = r]

StoreInit ==
    /\ saved \in {S \in SUBSET SnapshotSet : OneContentPerID(S)}
    /\ reply = [c \in Clients |-> Nothing]

\* The snapshot is in the history now, or was before with the same content.
SaveSnapshot(c, s) ==
    /\ OneContentPerID(saved \cup {s})
    /\ saved' = saved \cup {s}
    /\ Says(c, [op |-> "saved", snapshot |-> s])

\* The commit reports an error and is durable all the same.
SaveUnconfirmed(c, s) ==
    /\ OneContentPerID(saved \cup {s})
    /\ saved' = saved \cup {s}
    /\ Says(c, [op |-> "error"])

RefuseCollision(c, s) ==
    /\ \E r \in saved : ID(r) = ID(s) /\ r # s
    /\ Says(c, [op |-> "collision", snapshot |-> s])
    /\ UNCHANGED saved

IgnoreCollision(c, s) ==
    /\ \E r \in saved : ID(r) = ID(s) /\ r # s
    /\ Says(c, [op |-> "saved", snapshot |-> s])
    /\ UNCHANGED saved

Answer(c, S) ==
    \/ S = {} /\ Says(c, [op |-> "not found"])
    \/ S # {} /\ Says(c, [op |-> "found", snapshot |-> Newest(S)])

Latest(c, t) ==
    /\ Answer(c, {s \in saved : s.target = t})
    /\ UNCHANGED saved

Previous(c, t, before) ==
    /\ Answer(c, {s \in saved : s.target = t /\ s.at < before})
    /\ UNCHANGED saved

List(c, t, n) ==
    LET S == {s \in saved : s.target = t}
    IN  /\ Says(c, IF S = {} THEN [op |-> "not found"]
                   ELSE [op |-> "listed", snapshots |-> NewestOf(S, n)])
        /\ UNCHANGED saved

\* Any other operation that fails has no effect.
FailOperation(c) ==
    /\ Says(c, [op |-> "error"])
    /\ UNCHANGED saved

\* The client starts its next operation, or is gone.
Forget(c) ==
    /\ Says(c, Nothing)
    /\ UNCHANGED saved

StoreNext ==
    \E c \in Clients :
        \/ \E s \in SnapshotSet :
              \/ SaveSnapshot(c, s) \/ SaveUnconfirmed(c, s)
              \/ Conflicts = "refused" /\ RefuseCollision(c, s)
              \/ Conflicts = "ignored" /\ IgnoreCollision(c, s)
        \/ \E t \in Targets :
              \/ Latest(c, t)
              \/ \E b \in Times : Previous(c, t, b)
              \/ \E n \in Limits : List(c, t, n)
        \/ FailOperation(c) \/ Forget(c)

StorePromise == StoreInit /\ [][StoreNext]_storeVars
=============================================================================
