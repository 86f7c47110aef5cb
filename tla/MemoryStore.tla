---------------------------- MODULE MemoryStore ------------------------------
(***************************************************************************)
(* internal/platform/baseline/memory.go: the history in a map that the     *)
(* goroutines of one process share behind a sync.RWMutex.  Save works on   *)
(* the map under Lock; Latest, Previous and List copy a target's snapshots *)
(* out of it under RLock, item after item, and sort and choose afterwards. *)
(* The context is not looked at, and nothing outlives the process.         *)
(*                                                                         *)
(* RWMutex is as its documentation has it: a goroutine that waits in Lock  *)
(* holds off new readers, so that the readers inside drain.                *)
(***************************************************************************)
EXTENDS Snapshots

CONSTANTS Clients,      \* goroutines
          Nothing,      \* no reply, no request
          Limits        \* limits of a list, 0 for none

ASSUME MemoryAssumption == Limits \subseteq Nat /\ Nothing \notin Clients

VARIABLES
    items,      \* the snapshots in the map
    announced,  \* who waits in Lock ahead of the others, or holds it
    readers,    \* who holds RLock
    pc,         \* per goroutine: where it is
    request,    \* per goroutine: the call it makes
    unscanned,  \* per goroutine: what its range loop has yet to come to
    scanned,    \* per goroutine: what the loop has copied
    reply       \* per goroutine: what its last call returned

mutex == <<announced, readers>>
memoryVars == <<items, mutex, pc, request, unscanned, scanned, reply>>

Requests ==
    [op : {"save"}, snapshot : SnapshotSet] \cup [op : {"latest"}, target : Targets]
    \cup [op : {"previous"}, target : Targets, before : Times]
    \cup [op : {"list"}, target : Targets, limit : Limits]

Goes(c, place) == pc' = [pc EXCEPT ![c] = place]
Returns(c, place, r) == Goes(c, place) /\ reply' = [reply EXCEPT ![c] = r]

MemoryInit ==
    /\ items = {}
    /\ announced = Nothing /\ readers = {}
    /\ pc = [c \in Clients |-> "idle"]
    /\ request = [c \in Clients |-> Nothing]
    /\ unscanned = [c \in Clients |-> {}] /\ scanned = [c \in Clients |-> {}]
    /\ reply = [c \in Clients |-> Nothing]

\* The call begins; Save checks and copies its snapshot before it locks.
Call(c) ==
    /\ pc[c] = "idle"
    /\ \E r \in Requests :
         /\ request' = [request EXCEPT ![c] = r]
         /\ Returns(c, IF r.op = "save" THEN "lock" ELSE "rlock", Nothing)
    /\ UNCHANGED <<items, mutex, unscanned, scanned>>

-----------------------------------------------------------------------------
(* Save *)

\* Lock: first among writers, then alone.
Announce(c) ==
    /\ pc[c] = "lock" /\ announced = Nothing
    /\ announced' = c
    /\ Goes(c, "drain")
    /\ UNCHANGED <<items, readers, request, unscanned, scanned, reply>>

Acquire(c) ==
    /\ pc[c] = "drain" /\ readers = {}
    /\ Goes(c, "put")
    /\ UNCHANGED <<items, mutex, request, unscanned, scanned, reply>>

\* A snapshot whose ID is known is not compared with the one that is there.
Put(c) ==
    /\ pc[c] = "put"
    /\ LET s == request[c].snapshot
       IN  /\ items' = IF \E r \in items : ID(r) = ID(s) THEN items ELSE items \cup {s}
           /\ Returns(c, "unlock", [op |-> "saved", snapshot |-> s])
    /\ UNCHANGED <<mutex, request, unscanned, scanned>>

\* The deferred Unlock.
Unlock(c) ==
    /\ pc[c] = "unlock"
    /\ announced' = Nothing
    /\ Goes(c, "idle")
    /\ request' = [request EXCEPT ![c] = Nothing]
    /\ UNCHANGED <<items, readers, unscanned, scanned, reply>>

-----------------------------------------------------------------------------
(* Latest, Previous, List *)

Asked(c) == {s \in items : s.target = request[c].target}

\* Mutant: list does without the lock.
ScanWithoutLock(c) ==
    /\ pc[c] = "rlock"
    /\ unscanned' = [unscanned EXCEPT ![c] = Asked(c)]
    /\ Goes(c, "scan")
    /\ UNCHANGED <<items, mutex, request, scanned, reply>>

RLock(c) ==
    /\ pc[c] = "rlock" /\ announced = Nothing
    /\ readers' = readers \cup {c}
    /\ unscanned' = [unscanned EXCEPT ![c] = Asked(c)]
    /\ Goes(c, "scan")
    /\ UNCHANGED <<items, announced, request, scanned, reply>>

\* One turn of the range loop, which comes to what was in the map when it
\* began.
ScanItem(c) ==
    /\ pc[c] = "scan"
    /\ \E s \in unscanned[c] :
         /\ unscanned' = [unscanned EXCEPT ![c] = @ \ {s}]
         /\ scanned' = [scanned EXCEPT ![c] = @ \cup {s}]
    /\ UNCHANGED <<items, mutex, pc, request, reply>>

Chosen(r, S) ==
    LET eligible == IF r.op = "previous" THEN {s \in S : s.at < r.before} ELSE S
    IN  IF eligible = {} THEN [op |-> "not found"]
        ELSE IF r.op = "list" THEN [op |-> "listed", snapshots |-> NewestOf(eligible, r.limit)]
        ELSE [op |-> "found", snapshot |-> Newest(eligible)]

\* The copy is sorted and unlocked; what the call answers comes from it alone.
RUnlock(c) ==
    /\ pc[c] = "scan" /\ unscanned[c] = {}
    /\ Returns(c, "idle", Chosen(request[c], scanned[c]))
    /\ readers' = readers \ {c}
    /\ scanned' = [scanned EXCEPT ![c] = {}]
    /\ request' = [request EXCEPT ![c] = Nothing]
    /\ UNCHANGED <<items, announced, unscanned>>

-----------------------------------------------------------------------------
MemoryNext ==
    \E c \in Clients :
        \/ Call(c)
        \/ Announce(c) \/ Acquire(c) \/ Put(c) \/ Unlock(c)
        \/ RLock(c) \/ ScanItem(c) \/ RUnlock(c)

MemorySpec == MemoryInit /\ [][MemoryNext]_memoryVars

-----------------------------------------------------------------------------
\* The call's place among the others is where it holds the lock: to its
\* callers the map behind the mutex is the atomic store of SnapshotStore.
Store == INSTANCE SnapshotStore WITH saved <- items, Conflicts <- "ignored"

MemoryImplementsStore == Store!StorePromise
=============================================================================
