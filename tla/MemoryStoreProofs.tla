------------------------- MODULE MemoryStoreProofs --------------------------
(***************************************************************************)
(* That the map behind the read-write lock of module MemoryStore is the    *)
(* atomic store of SnapshotStore, for any number of goroutines, targets,   *)
(* times and metrics.                                                      *)
(***************************************************************************)
EXTENDS MemoryStore, TLAPS

Writing == {"lock", "drain", "put", "unlock"}
Reading == {"rlock", "scan"}

(* The parts of the inductive invariant. *)

\* The variables that index or are indexed by goroutines, and what is kept.
MemoryTypes ==
    /\ items \subseteq SnapshotSet /\ OneContentPerID(items)
    /\ announced \in Clients \cup {Nothing} /\ readers \subseteq Clients
    /\ pc \in [Clients -> {"idle"} \cup Writing \cup Reading]
    /\ DOMAIN request = Clients /\ DOMAIN reply = Clients
    /\ DOMAIN scanned = Clients /\ DOMAIN unscanned = Clients

\* A goroutine in a call knows what it was asked.
KnowsItsCall ==
    \A c \in Clients :
        /\ pc[c] \in Writing => request[c] \in Requests /\ request[c].op = "save"
        /\ pc[c] \in Reading => request[c] \in Requests /\ request[c].op # "save"

\* The lock: whoever is past it in the code holds it, and a writer alone.
LockHeld ==
    \A c \in Clients :
        /\ pc[c] \in {"drain", "put", "unlock"} <=> announced = c
        /\ pc[c] = "scan" <=> c \in readers
        /\ pc[c] \in {"put", "unlock"} => readers = {}

\* What a reader has copied and has yet to come to is what the map holds of
\* its target, from the first item to the last.
CopyIsOfNow ==
    \A c \in Clients :
        /\ pc[c] = "scan" => scanned[c] \cup unscanned[c] = Asked(c)
        /\ pc[c] # "scan" => scanned[c] = {}

MemoryInv == MemoryTypes /\ KnowsItsCall /\ LockHeld /\ CopyIsOfNow

-----------------------------------------------------------------------------
\* A request is one of four, and its parts are what the call was given.
LEMMA RequestParts ==
    ASSUME NEW r \in Requests
    PROVE  /\ r.op \in {"save", "latest", "previous", "list"}
           /\ r.op = "save" => r.snapshot \in SnapshotSet
           /\ r.op # "save" => r.target \in Targets
           /\ r.op = "previous" => r.before \in Times
           /\ r.op = "list" => r.limit \in Limits
BY DEF Requests

\* Before any call the map is empty and the lock free.
LEMMA MemoryStarts == MemoryInit => MemoryInv
<1>1. MemoryInit => MemoryTypes
  BY DEF MemoryInit, MemoryTypes, OneContentPerID, Writing, Reading
<1>2. MemoryInit => KnowsItsCall /\ LockHeld
  BY MemoryAssumption DEF MemoryInit, KnowsItsCall, LockHeld, Writing, Reading
<1>3. MemoryInit => CopyIsOfNow
  BY DEF MemoryInit, CopyIsOfNow
<1> QED
  BY <1>1, <1>2, <1>3 DEF MemoryInv

\* A call that begins holds nothing yet (Save, Latest, Previous, List).
LEMMA CallKeeps ==
    ASSUME MemoryInv, NEW c \in Clients, Call(c)
    PROVE  MemoryInv'
<1> PICK r \in Requests :
      /\ request' = [request EXCEPT ![c] = r]
      /\ Returns(c, IF r.op = "save" THEN "lock" ELSE "rlock", Nothing)
  BY DEF Call
<1> USE DEF MemoryInv, Call, Returns, Goes, mutex
<1>1. MemoryTypes'
  BY DEF MemoryTypes, Writing, Reading
<1>2. KnowsItsCall'
  BY DEF KnowsItsCall, MemoryTypes, Writing, Reading
<1>3. LockHeld'
  BY DEF LockHeld, MemoryTypes
<1>4. CopyIsOfNow'
  BY DEF CopyIsOfNow, MemoryTypes, Asked
<1> QED
  BY <1>1, <1>2, <1>3, <1>4

\* Lock is taken in two steps (Save): ahead of other writers, then alone.
LEMMA LockKeeps ==
    ASSUME MemoryInv, NEW c \in Clients, Announce(c) \/ Acquire(c)
    PROVE  MemoryInv'
<1> USE DEF MemoryInv, Announce, Acquire, Goes, mutex
<1>1. MemoryTypes'
  BY DEF MemoryTypes, Writing, Reading
<1>2. KnowsItsCall'
  BY DEF KnowsItsCall, MemoryTypes, Writing, Reading
<1>3. LockHeld'
  BY MemoryAssumption DEF LockHeld, MemoryTypes
<1>4. CopyIsOfNow'
  BY DEF CopyIsOfNow, MemoryTypes, Asked
<1> QED
  BY <1>1, <1>2, <1>3, <1>4

\* Save stores its snapshot while nobody reads.
LEMMA PutKeeps ==
    ASSUME MemoryInv, NEW c \in Clients, Put(c)
    PROVE  MemoryInv'
<1> DEFINE s == request[c].snapshot
<1> USE DEF MemoryInv, Put, Returns, Goes, mutex
<1>0. s \in SnapshotSet
  BY RequestParts DEF KnowsItsCall, Writing
<1>1. MemoryTypes'
  <2>1. items' \subseteq SnapshotSet /\ OneContentPerID(items')
    BY <1>0 DEF MemoryTypes, OneContentPerID
  <2> QED
    BY <2>1 DEF MemoryTypes, Writing, Reading
<1>2. KnowsItsCall'
  BY DEF KnowsItsCall, MemoryTypes, Writing, Reading
<1>3. LockHeld'
  BY DEF LockHeld, MemoryTypes
<1>4. \A d \in Clients : pc[d] # "scan" /\ pc'[d] # "scan"
  BY DEF LockHeld, MemoryTypes
<1>5. CopyIsOfNow'
  BY <1>4 DEF CopyIsOfNow
<1> QED
  BY <1>1, <1>2, <1>3, <1>5

\* Save gives the lock back.
LEMMA UnlockKeeps ==
    ASSUME MemoryInv, NEW c \in Clients, Unlock(c)
    PROVE  MemoryInv'
<1> USE DEF MemoryInv, Unlock, Goes, mutex
<1>1. MemoryTypes'
  BY DEF MemoryTypes, Writing, Reading
<1>2. KnowsItsCall'
  BY DEF KnowsItsCall, MemoryTypes, Writing, Reading
<1>3. LockHeld'
  BY MemoryAssumption DEF LockHeld, MemoryTypes
<1>4. CopyIsOfNow'
  BY DEF CopyIsOfNow, MemoryTypes, Asked
<1> QED
  BY <1>1, <1>2, <1>3, <1>4

\* A reader enters while no writer waits or works, and sees the whole map.
LEMMA RLockKeeps ==
    ASSUME MemoryInv, NEW c \in Clients, RLock(c)
    PROVE  MemoryInv'
<1> USE DEF MemoryInv, RLock, Goes, mutex
<1>1. MemoryTypes'
  BY DEF MemoryTypes, Writing, Reading
<1>2. KnowsItsCall'
  BY DEF KnowsItsCall, MemoryTypes, Writing, Reading
<1>3. LockHeld'
  BY MemoryAssumption DEF LockHeld, MemoryTypes
<1>4. CopyIsOfNow'
  BY DEF CopyIsOfNow, MemoryTypes, Asked
<1> QED
  BY <1>1, <1>2, <1>3, <1>4

\* The loop moves an item from what is to come to what was copied.
LEMMA ScanKeeps ==
    ASSUME MemoryInv, NEW c \in Clients, ScanItem(c)
    PROVE  MemoryInv'
<1> PICK s \in unscanned[c] :
      /\ unscanned' = [unscanned EXCEPT ![c] = @ \ {s}]
      /\ scanned' = [scanned EXCEPT ![c] = @ \cup {s}]
  BY DEF ScanItem
<1> USE DEF MemoryInv, ScanItem, mutex
<1>1. MemoryTypes'
  BY DEF MemoryTypes
<1>2. KnowsItsCall' /\ LockHeld'
  BY DEF KnowsItsCall, LockHeld
<1>3. CopyIsOfNow'
  BY DEF CopyIsOfNow, MemoryTypes, Asked
<1> QED
  BY <1>1, <1>2, <1>3

\* A reader leaves, and its copy with it.
LEMMA RUnlockKeeps ==
    ASSUME MemoryInv, NEW c \in Clients, RUnlock(c)
    PROVE  MemoryInv'
<1> USE DEF MemoryInv, RUnlock, Returns, Goes, mutex
<1>1. MemoryTypes'
  BY DEF MemoryTypes, Writing, Reading
<1>2. KnowsItsCall'
  BY DEF KnowsItsCall, MemoryTypes, Writing, Reading
<1>3. LockHeld'
  BY DEF LockHeld, MemoryTypes
<1>4. CopyIsOfNow'
  BY DEF CopyIsOfNow, MemoryTypes, Asked
<1> QED
  BY <1>1, <1>2, <1>3, <1>4

\* The inductive invariant: the lock is with whoever the code says holds it,
\* and a copy in the making is of the map as it is now.
THEOREM LockProtectsTheCopy == MemorySpec => []MemoryInv
<1>1. MemoryInv /\ [MemoryNext]_memoryVars => MemoryInv'
  <2> SUFFICES ASSUME MemoryInv, [MemoryNext]_memoryVars
               PROVE  MemoryInv'
    OBVIOUS
  <2>1. CASE UNCHANGED memoryVars
    BY <2>1 DEF MemoryInv, MemoryTypes, KnowsItsCall, LockHeld, CopyIsOfNow, Asked,
                memoryVars, mutex
  <2>2. CASE MemoryNext
    BY <2>2, CallKeeps, LockKeeps, PutKeeps, UnlockKeeps, RLockKeeps, ScanKeeps, RUnlockKeeps
       DEF MemoryNext
  <2> QED
    BY <2>1, <2>2
<1> QED
  BY <1>1, MemoryStarts, PTL DEF MemorySpec

-----------------------------------------------------------------------------
(* The refinement. *)

\* Both modules rank snapshots alike.
LEMMA SameOrder ==
    ASSUME NEW S
    PROVE  /\ Store!Newest(S) = Newest(S)
           /\ \A n : Store!NewestOf(S, n) = NewestOf(S, n)
BY DEF Newest, NewestOf, Store!Newest, Store!NewestOf, Cardinality, Store!Cardinality

\* What the map does with a snapshot (Save, past the lock) the store promises:
\* it is in the history, or the first of its identity stays.
LEMMA PutRefines ==
    ASSUME MemoryInv, NEW c \in Clients, Put(c)
    PROVE  Store!StoreNext
<1> DEFINE s == request[c].snapshot
<1>1. s \in SnapshotSet /\ items \subseteq SnapshotSet /\ OneContentPerID(items)
  BY RequestParts DEF MemoryInv, MemoryTypes, KnowsItsCall, Put, Writing
<1>2. s \in Store!SnapshotSet
  BY <1>1 DEF SnapshotSet, Store!SnapshotSet
<1>3. Store!Says(c, [op |-> "saved", snapshot |-> s])
  BY DEF Put, Returns, Store!Says
<1>4. CASE \E r \in items : ID(r) = ID(s) /\ r # s
  <2>1. Store!IgnoreCollision(c, s)
    BY <1>3, <1>4 DEF Put, Store!IgnoreCollision, ID, Store!ID
  <2> QED
    BY <1>2, <2>1 DEF Store!StoreNext
<1>5. CASE ~ \E r \in items : ID(r) = ID(s) /\ r # s
  <2>1. items' = items \cup {s}
    BY <1>5 DEF Put
  <2>2. OneContentPerID(items \cup {s})
    BY <1>1, <1>5 DEF OneContentPerID
  <2>3. Store!OneContentPerID(items \cup {s})
    BY <2>2 DEF OneContentPerID, Store!OneContentPerID, ID, Store!ID
  <2>4. Store!SaveSnapshot(c, s)
    BY <1>3, <2>1, <2>3 DEF Store!SaveSnapshot
  <2> QED
    BY <1>2, <2>4 DEF Store!StoreNext
<1> QED
  BY <1>4, <1>5

\* A reader answers from its copy (Latest, Previous, List), and the copy is
\* what the map holds at this moment: the store's answer.
LEMMA ReadRefines ==
    ASSUME MemoryInv, NEW c \in Clients, RUnlock(c)
    PROVE  Store!StoreNext
<1> DEFINE r == request[c]
           S == Asked(c)
           earlier == {s \in items : s.target = r.target /\ s.at < r.before}
<1>1. scanned[c] = S
  BY DEF RUnlock, MemoryInv, CopyIsOfNow
<1>2. /\ r \in Requests /\ r.op # "save"
      /\ items' = items /\ reply' = [reply EXCEPT ![c] = Chosen(r, S)]
  BY <1>1 DEF RUnlock, Returns, MemoryInv, KnowsItsCall, Reading
<1>3. r.target \in Targets /\ r.op \in {"latest", "previous", "list"}
  BY <1>2, RequestParts
<1>4. CASE r.op = "latest"
  <2>1. Chosen(r, S) = IF S = {} THEN [op |-> "not found"]
                       ELSE [op |-> "found", snapshot |-> Newest(S)]
    BY <1>4 DEF Chosen
  <2>2. Store!Latest(c, r.target)
    BY <1>2, <2>1, SameOrder DEF Store!Latest, Store!Answer, Store!Says, Asked
  <2> QED
    BY <1>3, <2>2 DEF Store!StoreNext
<1>5. CASE r.op = "previous"
  <2>1. earlier = {s \in S : s.at < r.before}
    BY DEF Asked
  <2>2. Chosen(r, S) = IF earlier = {} THEN [op |-> "not found"]
                       ELSE [op |-> "found", snapshot |-> Newest(earlier)]
    BY <1>5, <2>1 DEF Chosen
  <2>3. Store!Previous(c, r.target, r.before)
    BY <1>2, <2>2, SameOrder DEF Store!Previous, Store!Answer, Store!Says
  <2> QED
    BY <1>2, <1>3, <1>5, <2>3, RequestParts DEF Store!StoreNext
<1>6. CASE r.op = "list"
  <2>1. Chosen(r, S) = IF S = {} THEN [op |-> "not found"]
                       ELSE [op |-> "listed", snapshots |-> NewestOf(S, r.limit)]
    BY <1>6 DEF Chosen
  <2>2. Store!List(c, r.target, r.limit)
    BY <1>2, <2>1, SameOrder DEF Store!List, Store!Says, Asked
  <2> QED
    BY <1>2, <1>3, <1>6, <2>2, RequestParts DEF Store!StoreNext
<1> QED
  BY <1>3, <1>4, <1>5, <1>6

\* The map behind the lock is the atomic store, for any number of goroutines:
\* a call takes effect where it puts its snapshot or leaves with its copy.
THEOREM MemoryIsAStore == MemorySpec => MemoryImplementsStore
<1>1. MemoryInit => Store!StoreInit
  BY DEF MemoryInit, Store!StoreInit, Store!OneContentPerID
<1>2. MemoryInv /\ [MemoryNext]_memoryVars => [Store!StoreNext]_(Store!storeVars)
  <2> SUFFICES ASSUME MemoryInv, [MemoryNext]_memoryVars
               PROVE  Store!StoreNext \/ UNCHANGED Store!storeVars
    OBVIOUS
  <2>1. CASE UNCHANGED memoryVars
    BY <2>1 DEF memoryVars, Store!storeVars
  <2>2. ASSUME NEW c \in Clients, Call(c)
        PROVE  Store!StoreNext
    <3>1. Store!Forget(c)
      BY <2>2 DEF Call, Returns, Store!Forget, Store!Says
    <3> QED
      BY <3>1 DEF Store!StoreNext
  <2>3. ASSUME NEW c \in Clients,
               Announce(c) \/ Acquire(c) \/ Unlock(c) \/ RLock(c) \/ ScanItem(c)
        PROVE  UNCHANGED Store!storeVars
    BY <2>3 DEF Announce, Acquire, Unlock, RLock, ScanItem, Store!storeVars
  <2> QED
    BY <2>1, <2>2, <2>3, PutRefines, ReadRefines DEF MemoryNext
<1> QED
  BY <1>1, <1>2, LockProtectsTheCopy, PTL
     DEF MemorySpec, MemoryImplementsStore, Store!StorePromise
=============================================================================
