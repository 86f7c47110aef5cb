---------------------------- MODULE FindingsProofs ----------------------------
(***************************************************************************)
(* Theorems about the collectors and the rules, for servers with any       *)
(* number of rows of any size, in any order, and for lists of any limit.   *)
(***************************************************************************)
EXTENDS Findings, FiniteSetTheorems, SequenceTheorems, TLAPS

-----------------------------------------------------------------------------
(* Rows and their observations *)

LockKeys == {"lock_wait.count", "lock_wait.edge"}
IndexKeys == {"index.reads", "index.signature", "index.table", "index.unique", "index.primary"}
TransactionKeys == {"transaction.age_seconds", "transaction.lock_wait_seconds"}
StateKeys == {"replication.receiver_state", "replication.applier_state", "replication.worker_state"}
StatusKeys == {"connections.used", "connections.limit", "server.uptime_seconds"}

\* The collector that a key belongs to.
Source(key) ==
    IF key \in LockKeys THEN "locks"
    ELSE IF key \in TransactionKeys THEN "transactions"
    ELSE IF key \in IndexKeys THEN "indexes"
    ELSE IF key \in StateKeys \cup {"replication.error_code"} THEN "replication"
    ELSE IF key = "replication.active_apply_lag_seconds" THEN "lag"
    ELSE IF key = "innodb.history_list_length" THEN "purge"
    ELSE IF key = "table.estimated_rows" THEN "tables"
    ELSE IF key \in StatusKeys THEN "status"
    ELSE IF key = "table.primary_key_present" THEN "primary_keys"
    ELSE "auto_increment"

Numbers ==
    TransactionKeys \cup StatusKeys
        \cup {"index.reads", "replication.error_code", "replication.active_apply_lag_seconds",
              "innodb.history_list_length", "table.estimated_rows"}

\* What an observation's value is, by its key.
TypedObservation(o) ==
    /\ o.key \in Numbers => o.value \in Int
    /\ o.key = "lock_wait.edge" => \E a, b \in STRING : o.value = <<a, b>>
    /\ o.key \in StateKeys => o.value \in STRING
    /\ o.key = "index.signature" => o.value \in Seq(STRING)
    /\ o.key \in {"index.unique", "index.primary", "table.primary_key_present"} => o.value \in BOOLEAN
    /\ o.key = "auto_increment.utilization_ratio" => o.value[1] \in Int /\ o.value[2] \in Int

\* A row of a collector is one of ten kinds.
LEMMA RowKinds ==
    ASSUME NEW r \in Rows
    PROVE  \/ /\ r.from = "locks" /\ ObservationsOf(r) = LockObservations(r)
              /\ r.requesting \in STRING /\ r.blocking \in STRING
           \/ /\ r.from = "transactions" /\ ObservationsOf(r) = TransactionObservations(r)
              /\ r.age \in Int /\ r.wait \in Int
           \/ /\ r.from = "indexes" /\ ObservationsOf(r) = IndexObservations(r)
              /\ r.unique \in BOOLEAN /\ r.signature \in Seq(STRING) /\ r.reads \in Int
           \/ /\ r.from = "replication" /\ ObservationsOf(r) = ReplicationObservations(r)
              /\ r.state \in STRING /\ r.error \in Int
           \/ /\ r.from = "lag" /\ ObservationsOf(r) = LagObservations(r) /\ r.lag \in Int
           \/ /\ r.from = "purge" /\ ObservationsOf(r) = PurgeObservations(r) /\ r.length \in Int
           \/ /\ r.from = "tables" /\ ObservationsOf(r) = TableObservations(r) /\ r.estimate \in Int
           \/ /\ r.from = "status" /\ ObservationsOf(r) = StatusObservations(r)
              /\ r.status \in StatusKeys /\ r.value \in Int
           \/ /\ r.from = "primary_keys" /\ ObservationsOf(r) = PrimaryKeyObservations(r)
              /\ r.present \in BOOLEAN
           \/ /\ r.from = "auto_increment" /\ ObservationsOf(r) = AutoIncrementObservations(r)
              /\ r.next \in Int
           \/ /\ r.from = "deltas" /\ r.delta \in Int /\ r.window \in Int
              /\ r.object \in STRING \X STRING
<1>1. CASE r.from = "locks"
  BY <1>1 DEF Rows, ObservationsOf
<1>2. CASE r.from = "transactions"
  BY <1>2 DEF Rows, ObservationsOf
<1>3. CASE r.from = "indexes"
  BY <1>3 DEF Rows, ObservationsOf
<1>4. CASE r.from = "replication"
  BY <1>4 DEF Rows, ObservationsOf
<1>5. CASE r.from = "lag"
  BY <1>5 DEF Rows, ObservationsOf
<1>6. CASE r.from = "purge"
  BY <1>6 DEF Rows, ObservationsOf
<1>7. CASE r.from = "tables"
  BY <1>7 DEF Rows, ObservationsOf
<1>8. CASE r.from = "status"
  BY <1>8 DEF Rows, ObservationsOf, StatusKeys
<1>9. CASE r.from = "primary_keys"
  BY <1>9 DEF Rows, ObservationsOf
<1>10. CASE r.from = "auto_increment"
  BY <1>10 DEF Rows, ObservationsOf
<1>11. CASE r.from = "deltas"
  BY <1>11 DEF Rows
<1>12. r.from \in {"locks", "transactions", "indexes", "replication", "lag", "purge", "tables",
                   "status", "primary_keys", "auto_increment", "deltas"}
  BY DEF Rows
<1> QED
  BY <1>1, <1>2, <1>3, <1>4, <1>5, <1>6, <1>7, <1>8, <1>9, <1>10, <1>11, <1>12

\* Each observation of a row belongs to the row's collector, has a value of
\* its key's type and is the only one of its key.
LEMMA ObservationFacts ==
    ASSUME NEW r \in Rows, r.from # "deltas", NEW o \in ObservationsOf(r)
    PROVE  /\ Source(o.key) = r.from
           /\ TypedObservation(o)
           /\ \A p \in ObservationsOf(r) : p.key = o.key => p = o
<1> USE DEF Observation, Source, LockKeys, IndexKeys, TransactionKeys, StateKeys, StatusKeys
<1> USE DEF TypedObservation, Numbers
<1>1. CASE /\ r.from = "locks" /\ ObservationsOf(r) = LockObservations(r)
           /\ r.requesting \in STRING /\ r.blocking \in STRING
  <2>1. PICK ref : \A p \in ObservationsOf(r) :
                      \/ p = Observation("lock_wait.count", ref, 1)
                      \/ p = Observation("lock_wait.edge", ref, <<r.requesting, r.blocking>>)
    BY <1>1 DEF LockObservations
  <2>2. Source(o.key) = r.from
    BY <2>1, <1>1
  <2>3. TypedObservation(o)
    <3>1. CASE o = Observation("lock_wait.count", ref, 1)
      BY <3>1
    <3>2. CASE o = Observation("lock_wait.edge", ref, <<r.requesting, r.blocking>>)
      BY <3>2, <1>1
    <3> QED
      BY <2>1, <3>1, <3>2
  <2>4. \A p \in ObservationsOf(r) : p.key = o.key => p = o
    BY <2>1
  <2> QED
    BY <2>2, <2>3, <2>4
<1>2. CASE /\ r.from = "transactions" /\ ObservationsOf(r) = TransactionObservations(r)
           /\ r.age \in Int /\ r.wait \in Int
  BY <1>2 DEF TransactionObservations
<1>3. CASE /\ r.from = "indexes" /\ ObservationsOf(r) = IndexObservations(r)
           /\ r.unique \in BOOLEAN /\ r.signature \in Seq(STRING) /\ r.reads \in Int
  <2> DEFINE ref == <<"index", <<r.table, r.index>>>>
  <2>1. \A p \in ObservationsOf(r) :
           \/ p = Observation("index.reads", ref, r.reads)
           \/ p = Observation("index.signature", ref, r.signature)
           \/ p = Observation("index.table", ref, r.table)
           \/ p = Observation("index.unique", ref, r.unique)
           \/ p = Observation("index.primary", ref, r.index = "PRIMARY")
    BY <1>3 DEF IndexObservations
  <2> HIDE DEF ref
  <2>2. Source(o.key) = r.from
    BY <2>1, <1>3
  <2>3. TypedObservation(o)
    <3>1. CASE o = Observation("index.reads", ref, r.reads)
      BY <3>1, <1>3
    <3>2. CASE o = Observation("index.signature", ref, r.signature)
      BY <3>2, <1>3
    <3>3. CASE o = Observation("index.table", ref, r.table)
      BY <3>3, <1>3
    <3>4. CASE o = Observation("index.unique", ref, r.unique)
      BY <3>4, <1>3
    <3>5. CASE o = Observation("index.primary", ref, r.index = "PRIMARY")
      <4>1. (r.index = "PRIMARY") \in BOOLEAN
        OBVIOUS
      <4>2. o.key = "index.primary" /\ o.value = (r.index = "PRIMARY")
        BY <3>5
      <4> QED
        BY <4>1, <4>2
    <3> QED
      BY <2>1, <3>1, <3>2, <3>3, <3>4, <3>5
  <2>4. \A p \in ObservationsOf(r) : p.key = o.key => p = o
    BY <2>1
  <2> QED
    BY <2>2, <2>3, <2>4
<1>4. CASE /\ r.from = "replication" /\ ObservationsOf(r) = ReplicationObservations(r)
           /\ r.state \in STRING /\ r.error \in Int
  <2>1. PICK state, ref : /\ state \in StateKeys
                          /\ \A p \in ObservationsOf(r) :
                               \/ p = Observation(state, ref, r.state)
                               \/ p = Observation("replication.error_code", ref, r.error)
    BY <1>4 DEF ReplicationObservations
  <2>2. Source(o.key) = r.from
    BY <2>1, <1>4
  <2>3. TypedObservation(o)
    BY <2>1, <1>4
  <2>4. \A p \in ObservationsOf(r) : p.key = o.key => p = o
    BY <2>1
  <2> QED
    BY <2>2, <2>3, <2>4
<1>5. CASE r.from = "lag" /\ ObservationsOf(r) = LagObservations(r) /\ r.lag \in Int
  BY <1>5 DEF LagObservations
<1>6. CASE r.from = "purge" /\ ObservationsOf(r) = PurgeObservations(r) /\ r.length \in Int
  BY <1>6 DEF PurgeObservations
<1>7. CASE r.from = "tables" /\ ObservationsOf(r) = TableObservations(r) /\ r.estimate \in Int
  BY <1>7 DEF TableObservations
<1>8. CASE /\ r.from = "status" /\ ObservationsOf(r) = StatusObservations(r)
           /\ r.status \in StatusKeys /\ r.value \in Int
  BY <1>8 DEF StatusObservations
<1>9. CASE /\ r.from = "primary_keys" /\ ObservationsOf(r) = PrimaryKeyObservations(r)
           /\ r.present \in BOOLEAN
  BY <1>9 DEF PrimaryKeyObservations
<1>10. CASE /\ r.from = "auto_increment" /\ ObservationsOf(r) = AutoIncrementObservations(r)
            /\ r.next \in Int
  BY <1>10 DEF AutoIncrementObservations, AutoIncrementMax, Largest
<1> QED
  BY <1>1, <1>2, <1>3, <1>4, <1>5, <1>6, <1>7, <1>8, <1>9, <1>10, RowKinds

-----------------------------------------------------------------------------
(* What a server's rows always are *)

Plausible(list) ==
    /\ list \in Seq(Rows)
    /\ \A i, j \in DOMAIN list :
          i # j /\ list[i].from = list[j].from /\ list[i].from # "locks"
              => AreAboutDifferentObjects(list[i], list[j])

RowsInv == server \in Servers /\ rows \in Seq(server.rows) /\ Plausible(rows)

\* To be about different objects is symmetric.
LEMMA DifferentBothWays ==
    ASSUME NEW r, NEW s, r.from = s.from, AreAboutDifferentObjects(r, s)
    PROVE  AreAboutDifferentObjects(s, r)
<1>1. CASE r.from = "deltas"
  BY <1>1 DEF AreAboutDifferentObjects
<1>2. CASE r.from # "deltas"
  <2>1. \A o \in ObservationsOf(r), p \in ObservationsOf(s) : o.key # p.key \/ o.object # p.object
    BY <1>2 DEF AreAboutDifferentObjects
  <2> QED
    BY <1>2, <2>1 DEF AreAboutDifferentObjects
<1> QED
  BY <1>1, <1>2

\* A row more leaves them plausible.
LEMMA OneMoreRowIsPlausible ==
    ASSUME RowsInv, NEW r \in server.rows, OneMoreRow(r)
    PROVE  RowsInv'
<1>1. /\ server' = server /\ server \in Servers /\ rows' = Append(rows, r)
      /\ rows \in Seq(server.rows)
  BY DEF OneMoreRow, RowsInv
<1>2. server.rows \subseteq Rows
  BY <1>1, CollectorsAssumption
<1>3. rows' \in Seq(server'.rows) /\ rows' \in Seq(Rows)
  BY <1>1, <1>2
<1>4. /\ DOMAIN rows' = DOMAIN rows \cup {Len(rows) + 1}
      /\ rows'[Len(rows) + 1] = r
      /\ \A i \in DOMAIN rows : i # Len(rows) + 1 /\ rows'[i] = rows[i]
  BY <1>1
<1>5. ASSUME NEW i \in DOMAIN rows, rows[i].from = r.from, r.from # "locks"
      PROVE  AreAboutDifferentObjects(r, rows[i]) /\ AreAboutDifferentObjects(rows[i], r)
  <2>1. rows[i] # r /\ rows[i] \in server.rows
    BY <1>1, <1>5 DEF OneMoreRow
  <2>2. \A q, t \in server.rows :
           q # t /\ q.from = t.from /\ q.from # "locks" => AreAboutDifferentObjects(q, t)
    BY <1>1, CollectorsAssumption
  <2>3. AreAboutDifferentObjects(rows[i], r)
    BY <1>5, <2>1, <2>2
  <2>4. AreAboutDifferentObjects(r, rows[i])
    BY <1>5, <2>1, <2>2
  <2> QED
    BY <2>3, <2>4
<1>6. ASSUME NEW i \in DOMAIN rows', NEW j \in DOMAIN rows',
             i # j, rows'[i].from = rows'[j].from, rows'[i].from # "locks"
      PROVE  AreAboutDifferentObjects(rows'[i], rows'[j])
  <2>1. CASE i \in DOMAIN rows /\ j \in DOMAIN rows
    <3>1. rows'[i] = rows[i] /\ rows'[j] = rows[j]
      BY <2>1, <1>4
    <3>2. rows[i].from = rows[j].from /\ rows[i].from # "locks"
      BY <3>1, <1>6
    <3>3. AreAboutDifferentObjects(rows[i], rows[j])
      BY <2>1, <3>2, <1>6 DEF RowsInv, Plausible
    <3> QED
      BY <3>1, <3>3
  <2>2. CASE i = Len(rows) + 1 /\ j \in DOMAIN rows
    <3>1. rows'[i] = r /\ rows'[j] = rows[j]
      BY <2>2, <1>4
    <3>2. AreAboutDifferentObjects(r, rows[j])
      BY <3>1, <1>6, <1>5, <2>2
    <3> QED
      BY <3>1, <3>2
  <2>3. CASE j = Len(rows) + 1 /\ i \in DOMAIN rows
    <3>1. rows'[j] = r /\ rows'[i] = rows[i]
      BY <2>3, <1>4
    <3>2. AreAboutDifferentObjects(rows[i], r)
      BY <3>1, <1>6, <1>5, <2>3
    <3> QED
      BY <3>1, <3>2
  <2> QED
    BY <1>4, <1>6, <2>1, <2>2, <2>3
<1>7. Plausible(rows')
  BY <1>3, <1>6 DEF Plausible
<1>8. server' \in Servers
  BY <1>1
<1> QED
  BY <1>3, <1>7, <1>8 DEF RowsInv

\* Every row is of its kind, and only locks name an object twice: the inductive
\* invariant of what the collectors read.
THEOREM RowsArePlausible == CollectorsSpec => []RowsInv
<1>1. CollectorsInit => RowsInv
  <2> SUFFICES ASSUME CollectorsInit PROVE RowsInv
    OBVIOUS
  <2>1. server \in Servers /\ rows = <<>>
    BY DEF CollectorsInit
  <2>2. rows \in Seq(server.rows) /\ rows \in Seq(Rows) /\ DOMAIN rows = {}
    BY <2>1
  <2> QED
    BY <2>1, <2>2 DEF RowsInv, Plausible
<1>2. RowsInv /\ [CollectorsNext]_collectorsVars => RowsInv'
  <2> SUFFICES ASSUME RowsInv, [CollectorsNext]_collectorsVars PROVE RowsInv'
    OBVIOUS
  <2>1. CASE CollectorsNext
    BY <2>1, OneMoreRowIsPlausible DEF CollectorsNext
  <2>2. CASE UNCHANGED collectorsVars
    <3>1. server' = server /\ rows' = rows
      BY <2>2 DEF collectorsVars
    <3>2. Plausible(rows')
      BY <3>1 DEF RowsInv, Plausible
    <3> QED
      BY <3>1, <3>2 DEF RowsInv
  <2> QED
    BY <2>1, <2>2
<1> QED
  BY <1>1, <1>2, PTL DEF CollectorsSpec

-----------------------------------------------------------------------------
(* Limits *)

\* A set of numbers that is not empty has a least member.
LEMMA LeastOf ==
    ASSUME NEW S \in SUBSET Nat, S # {}
    PROVE  \E m \in S : \A n \in S : m <= n
<1> DEFINE R == OpToRel(<, Nat)
<1>1. IsWellFoundedOn(R, Nat)
  BY NatLessThanWellFounded
<1>2. \A x, y \in Nat : x < y => <<x, y>> \in R
  BY DEF OpToRel
<1> HIDE DEF R
<1>3. PICK m \in S : \A n \in S : ~(<<n, m>> \in R)
  BY <1>1, WFMin
<1>4. \A n \in S : ~(n < m)
  BY <1>2, <1>3
<1> QED
  BY <1>3, <1>4

\* The first places of some.
LEMMA FirstFacts ==
    ASSUME NEW S \in SUBSET Nat, IsFiniteSet(S), NEW k \in Nat
    PROVE  /\ First(S, k) \subseteq S /\ IsFiniteSet(First(S, k))
           /\ Cardinality(S) <= k => First(S, k) = S
           /\ Cardinality(First(S, k)) < k => First(S, k) = S
<1> DEFINE Upto(i) == {j \in S : j <= i}
<1>1. First(S, k) = {i \in S : Cardinality(Upto(i)) <= k}
  BY DEF First
<1>2. \A i \in S : /\ IsFiniteSet(Upto(i)) /\ Cardinality(Upto(i)) \in Nat
                   /\ Cardinality(Upto(i)) <= Cardinality(S)
  <2> TAKE i \in S
  <2>1. Upto(i) \in SUBSET S
    OBVIOUS
  <2> QED
    BY <2>1, FS_Subset, FS_CardinalityType
<1>3. Cardinality(S) \in Nat
  BY FS_CardinalityType
<1>4. First(S, k) \subseteq S
  BY <1>1
<1>5. IsFiniteSet(First(S, k)) /\ Cardinality(First(S, k)) \in Nat
  BY <1>4, FS_Subset, FS_CardinalityType
<1> HIDE DEF Upto
<1>6. ASSUME Cardinality(S) <= k PROVE First(S, k) = S
  <2>1. \A i \in S : Cardinality(Upto(i)) <= k
    BY <1>2, <1>3, <1>6
  <2> QED
    BY <1>1, <2>1
<1>7. ASSUME First(S, k) # S PROVE Cardinality(First(S, k)) >= k
  <2>1. S \ First(S, k) \in SUBSET Nat /\ S \ First(S, k) # {}
    BY <1>4, <1>7
  <2>2. PICK i \in S \ First(S, k) : \A j \in S \ First(S, k) : i <= j
    BY <2>1, LeastOf
  <2>3. Cardinality(Upto(i)) > k
    BY <2>2, <1>1, <1>2
  <2>4. Upto(i) \ {i} \subseteq First(S, k)
    <3>1. ASSUME NEW j \in Upto(i) \ {i} PROVE j \in First(S, k)
      <4>1. j \in S /\ i \in Nat /\ j \in Nat /\ j <= i /\ j # i
        BY <3>1, <2>2 DEF Upto
      <4> QED
        BY <4>1, <2>2
    <3> QED
      BY <3>1
  <2>5. IsFiniteSet(Upto(i)) /\ i \in Upto(i) /\ Cardinality(Upto(i)) \in Nat
    <3>1. i \in S /\ i \in Nat
      BY <2>2
    <3> QED
      BY <3>1, <1>2 DEF Upto
  <2>6. Cardinality(Upto(i) \ {i}) = Cardinality(Upto(i)) - 1
    BY <2>5, FS_RemoveElement
  <2>7. Cardinality(Upto(i) \ {i}) <= Cardinality(First(S, k))
    BY <2>4, <1>5, FS_Subset
  <2> QED
    BY <2>3, <2>5, <2>6, <2>7, <1>5
<1> QED
  BY <1>4, <1>5, <1>6, <1>7

\* What is first of the first is first.
LEMMA FirstOfFirst ==
    ASSUME NEW S \in SUBSET Nat, IsFiniteSet(S), NEW k \in Nat, NEW m \in Nat, k <= m
    PROVE  First(First(S, m), k) = First(S, k)
<1> DEFINE T == First(S, m)
<1>1. T \subseteq S /\ IsFiniteSet(T)
  BY FirstFacts
<1>2. ASSUME NEW i \in T PROVE {j \in T : j <= i} = {j \in S : j <= i}
  <2>1. i \in S /\ i \in Nat /\ Cardinality({j \in S : j <= i}) <= m
    BY <1>2, <1>1 DEF First
  <2>2. ASSUME NEW j \in S, j <= i PROVE j \in T
    <3>1. {l \in S : l <= j} \in SUBSET {l \in S : l <= i}
      <4>1. ASSUME NEW l \in S, l <= j PROVE l <= i
        <5>1. l \in Nat /\ j \in Nat /\ i \in Nat
          BY <2>1
        <5> QED
          BY <5>1, <4>1, <2>2
      <4> QED
        BY <4>1
    <3>2. IsFiniteSet({l \in S : l <= i}) /\ Cardinality({l \in S : l <= i}) \in Nat
      <4>1. {l \in S : l <= i} \in SUBSET S
        OBVIOUS
      <4> QED
        BY <4>1, FS_Subset, FS_CardinalityType
    <3>3. Cardinality({l \in S : l <= j}) <= Cardinality({l \in S : l <= i})
      BY <3>1, <3>2, FS_Subset
    <3>4. IsFiniteSet({l \in S : l <= j}) /\ Cardinality({l \in S : l <= j}) \in Nat
      BY <3>1, <3>2, FS_Subset, FS_CardinalityType
    <3>5. Cardinality({l \in S : l <= j}) <= m
      BY <2>1, <3>2, <3>3, <3>4
    <3> QED
      BY <3>5, <2>2 DEF First
  <2> QED
    BY <2>2, <1>1
<1>3. ASSUME NEW i \in First(S, k) PROVE i \in T
  <2>1. i \in S /\ Cardinality({j \in S : j <= i}) <= k
    BY <1>3 DEF First
  <2>2. Cardinality({j \in S : j <= i}) \in Nat
    <3>1. {j \in S : j <= i} \in SUBSET S
      OBVIOUS
    <3> QED
      BY <3>1, FS_Subset, FS_CardinalityType
  <2> QED
    BY <2>1, <2>2 DEF First
<1> HIDE DEF T
<1>4. First(T, k) = {i \in T : Cardinality({j \in T : j <= i}) <= k}
  BY DEF First
<1>5. First(S, k) = {i \in S : Cardinality({j \in S : j <= i}) <= k}
  BY DEF First
<1>6. \A i \in T : i \in First(T, k) <=> i \in First(S, k)
  <2> TAKE i \in T
  <2>1. i \in First(T, k) <=> Cardinality({j \in T : j <= i}) <= k
    BY <1>4
  <2>2. i \in First(S, k) <=> Cardinality({j \in S : j <= i}) <= k
    BY <1>1, <1>5
  <2> QED
    BY <2>1, <2>2, <1>2
<1>7. First(T, k) \subseteq T
  BY <1>4
<1>8. First(T, k) = First(S, k)
  BY <1>3, <1>6, <1>7
<1> QED
  BY <1>8 DEF T

\* The rows of a collector are places in the list.
LEMMA RowsOfFacts ==
    ASSUME NEW list \in Seq(Rows), NEW c
    PROVE  RowsOf(list, c) \in SUBSET Nat /\ IsFiniteSet(RowsOf(list, c))
<1>1. DOMAIN list = 1..Len(list) /\ Len(list) \in Nat
  OBVIOUS
<1>2. RowsOf(list, c) \in SUBSET (1..Len(list))
  BY <1>1 DEF RowsOf
<1>3. IsFiniteSet(1..Len(list))
  BY <1>1, FS_Interval
<1> QED
  BY <1>1, <1>2, <1>3, FS_Subset

\* What a collector keeps are the first rows up to its limit, and no row is
\* left out by a scan that did not end with an error.
LEMMA KeptFacts ==
    ASSUME NEW list \in Seq(Rows), NEW c \in Snapshots
    PROVE  /\ Kept(list, c) = First(RowsOf(list, c), Limits[c])
           /\ Kept(list, c) \subseteq RowsOf(list, c)
           /\ Cardinality(RowsOf(list, c)) <= Limits[c] => Kept(list, c) = RowsOf(list, c)
           /\ c \in RiskScans /\ c \notin Truncated(list) => Kept(list, c) = RowsOf(list, c)
<1> DEFINE S == RowsOf(list, c)
<1>1. S \in SUBSET Nat /\ IsFiniteSet(S)
  BY RowsOfFacts
<1>2. /\ Limits[c] \in Nat /\ Queried(c) \in Nat /\ Limits[c] <= Queried(c)
      /\ c \in RiskScans => Queried(c) = Limits[c] + 1
  BY CollectorsAssumption DEF Queried
<1>3. Kept(list, c) = First(First(S, Queried(c)), Limits[c])
  BY DEF Kept, Returned
<1> HIDE DEF S
<1>4. Kept(list, c) = First(S, Limits[c])
  BY <1>1, <1>2, <1>3, FirstOfFirst
<1>5. Kept(list, c) \subseteq S /\ (Cardinality(S) <= Limits[c] => Kept(list, c) = S)
  BY <1>1, <1>2, <1>4, FirstFacts
<1>6. ASSUME c \in RiskScans, c \notin Truncated(list) PROVE Kept(list, c) = S
  <2>1. ~(Cardinality(First(S, Queried(c))) > Limits[c])
    BY <1>6 DEF Truncated, Returned, S
  <2>2. IsFiniteSet(First(S, Queried(c))) /\ Cardinality(First(S, Queried(c))) \in Nat
    BY <1>1, <1>2, FirstFacts, FS_CardinalityType
  <2>3. Cardinality(First(S, Queried(c))) < Queried(c)
    BY <1>2, <1>6, <2>1, <2>2
  <2>4. First(S, Queried(c)) = S
    BY <1>1, <1>2, <2>3, FirstFacts
  <2>5. Cardinality(S) <= Limits[c]
    BY <2>1, <2>2, <2>4, <1>2
  <2> QED
    BY <2>5, <1>5
<1> QED
  BY <1>4, <1>5, <1>6 DEF S

\* A place of the evidence is a row that its collector kept.
LEMMA CurrentPlaces ==
    ASSUME NEW list \in Seq(Rows)
    PROVE  /\ \A i \in DOMAIN Current(list) :
                /\ i \in DOMAIN list /\ i \in Nat /\ list[i] \in Rows
                /\ list[i].from \in Snapshots /\ i \in Kept(list, list[i].from)
                /\ Current(list)[i] = ObservationsOf(list[i])
           /\ \A i \in DOMAIN list :
                list[i].from \in Snapshots /\ i \in Kept(list, list[i].from) => i \in DOMAIN Current(list)
<1> DEFINE places == UNION {Kept(list, c) : c \in Snapshots}
<1>1. Current(list) = [i \in places |-> ObservationsOf(list[i])]
  BY DEF Current
<1>2. DOMAIN Current(list) = places /\ \A i \in places : Current(list)[i] = ObservationsOf(list[i])
  BY <1>1
<1>3. ASSUME NEW i \in places
      PROVE  /\ i \in DOMAIN list /\ i \in Nat /\ list[i] \in Rows
             /\ list[i].from \in Snapshots /\ i \in Kept(list, list[i].from)
  <2>1. PICK c \in Snapshots : i \in Kept(list, c)
    BY <1>3
  <2>2. i \in RowsOf(list, c)
    BY <2>1, KeptFacts
  <2>3. i \in DOMAIN list /\ list[i].from = c
    BY <2>2 DEF RowsOf
  <2> QED
    BY <2>1, <2>3
<1>4. ASSUME NEW i \in DOMAIN list, list[i].from \in Snapshots, i \in Kept(list, list[i].from)
      PROVE  i \in places
  BY <1>4
<1> HIDE DEF places
<1> QED
  BY <1>2, <1>3, <1>4

-----------------------------------------------------------------------------
(* Evidence: all that the rules need to know of the observations *)

Evidence(list) ==
    /\ DOMAIN list \subseteq Nat /\ IsFiniteSet(DOMAIN list)
    /\ \A i \in DOMAIN list : \E r \in Rows : r.from # "deltas" /\ list[i] = ObservationsOf(r)
    /\ \A i, j \in DOMAIN list : \A o \in list[i], p \in list[j] :
          o.key = p.key /\ o.object = p.object /\ o.key \notin LockKeys => i = j

\* The observations of plausible rows are evidence.
LEMMA CurrentIsEvidence ==
    ASSUME NEW list, Plausible(list)
    PROVE  Evidence(Current(list))
<1>1. list \in Seq(Rows)
  BY DEF Plausible
<1>2. DOMAIN Current(list) \subseteq DOMAIN list /\ DOMAIN Current(list) \subseteq Nat
  BY <1>1, CurrentPlaces
<1>3. IsFiniteSet(DOMAIN Current(list))
  <2>1. DOMAIN list = 1..Len(list) /\ Len(list) \in Nat
    BY <1>1
  <2>2. IsFiniteSet(1..Len(list))
    BY <2>1, FS_Interval
  <2>3. DOMAIN Current(list) \in SUBSET (1..Len(list))
    BY <1>2, <2>1
  <2> QED
    BY <2>2, <2>3, FS_Subset
<1>4. ASSUME NEW i \in DOMAIN Current(list)
      PROVE  list[i] \in Rows /\ list[i].from # "deltas" /\ Current(list)[i] = ObservationsOf(list[i])
  <2>1. list[i].from \in Snapshots /\ list[i] \in Rows /\ Current(list)[i] = ObservationsOf(list[i])
    BY <1>1, CurrentPlaces
  <2>2. "deltas" \notin Snapshots
    BY DEF Snapshots
  <2> QED
    BY <2>1, <2>2
<1>5. ASSUME NEW i \in DOMAIN Current(list), NEW j \in DOMAIN Current(list),
             NEW o \in Current(list)[i], NEW p \in Current(list)[j],
             o.key = p.key, o.object = p.object, o.key \notin LockKeys, i # j
      PROVE  FALSE
  <2>1. Source(o.key) = list[i].from /\ Source(p.key) = list[j].from
    BY <1>4, ObservationFacts
  <2>2. list[i].from = list[j].from
    BY <1>5, <2>1
  <2>3. list[i].from # "locks"
    BY <2>1, <1>5 DEF Source
  <2>4. AreAboutDifferentObjects(list[i], list[j])
    BY <1>2, <1>5, <2>2, <2>3 DEF Plausible
  <2>5. \A q \in ObservationsOf(list[i]), t \in ObservationsOf(list[j]) :
           q.key # t.key \/ q.object # t.object
    BY <2>4, <1>4 DEF AreAboutDifferentObjects
  <2> QED
    BY <2>5, <1>4, <1>5
<1> QED
  BY <1>2, <1>3, <1>4, <1>5 DEF Evidence

\* A table without a primary key that is not reported is beyond the limit.
LEMMA UnreportedFromRows ==
    ASSUME RowsInv
    PROVE  UnreportedIsWarned
<1> SUFFICES ASSUME NEW i \in DOMAIN rows, rows[i].from = "primary_keys",
                    ~rows[i].present, "primary_keys" \notin Truncated(rows)
             PROVE  Finding("missing_primary_key", <<"table", rows[i].table>>, "warn") \in FindingsOf(rows)
  BY DEF UnreportedIsWarned
<1> DEFINE o == Observation("table.primary_key_present", <<"table", rows[i].table>>, rows[i].present)
<1>1. rows \in Seq(Rows)
  BY DEF RowsInv, Plausible
<1>2. i \in Kept(rows, "primary_keys")
  <2>1. Kept(rows, "primary_keys") = RowsOf(rows, "primary_keys")
    BY <1>1, KeptFacts DEF Snapshots, RiskScans
  <2> QED
    BY <2>1 DEF RowsOf
<1>3. i \in DOMAIN Current(rows)
  BY <1>1, <1>2, CurrentPlaces DEF Snapshots
<1>4. o \in Current(rows)[i]
  <2>1. Current(rows)[i] = ObservationsOf(rows[i])
    BY <1>1, <1>3, CurrentPlaces
  <2>2. ObservationsOf(rows[i]) = PrimaryKeyObservations(rows[i])
    BY DEF ObservationsOf
  <2> QED
    BY <2>1, <2>2 DEF PrimaryKeyObservations
<1>5. /\ o.key = "table.primary_key_present" /\ ~o.value
      /\ o.object = <<"table", rows[i].table>>
  BY DEF Observation
<1> HIDE DEF o
<1>6. o \in {p \in Of(Current(rows), "table.primary_key_present") : ~p.value}
  BY <1>3, <1>4, <1>5 DEF Of
<1>7. Finding("missing_primary_key", <<"table", rows[i].table>>, "warn")
        \in MissingPrimaryKey(Current(rows))
  BY <1>5, <1>6 DEF MissingPrimaryKey
<1> QED
  BY <1>7 DEF FindingsOf

\* What the scan for primary keys leaves out is beyond a limit that the
\* inspection warns of, however many tables there are.
THEOREM WhatIsLeftOutIsWarned == CollectorsSpec => []UnreportedIsWarned
<1>1. RowsInv => UnreportedIsWarned
  BY UnreportedFromRows
<1> QED
  BY <1>1, RowsArePlausible, PTL

-----------------------------------------------------------------------------
(* What was said of an object *)

\* An observation under a key has the type of the key, and is in some row.
LEMMA OfFacts ==
    ASSUME NEW list, Evidence(list), NEW key, NEW o \in Of(list, key)
    PROVE  /\ o.key = key /\ TypedObservation(o)
           /\ \E i \in DOMAIN list : o \in list[i] /\ \A p \in list[i] : p.key = key => p = o
<1>1. PICK i \in DOMAIN list : o \in list[i] /\ o.key = key
  BY DEF Of
<1>2. PICK r \in Rows : r.from # "deltas" /\ list[i] = ObservationsOf(r)
  BY <1>1 DEF Evidence
<1>3. TypedObservation(o) /\ \A p \in ObservationsOf(r) : p.key = o.key => p = o
  BY <1>1, <1>2, ObservationFacts
<1> QED
  BY <1>1, <1>2, <1>3

\* What is said of an object under a key is what one row says, but for locks.
LEMMA SaidOnce ==
    ASSUME NEW list, Evidence(list), NEW key, key \notin LockKeys, NEW o \in Of(list, key)
    PROVE  /\ Said(list, o.object, key) = o.value
           /\ FirstNumber(list, o.object, key) = o.value
           /\ \A p \in Of(list, key) : p.object = o.object => p = o
<1>1. PICK i \in DOMAIN list : o \in list[i] /\ \A p \in list[i] : p.key = key => p = o
  BY OfFacts
<1>2. o.key = key
  BY OfFacts
<1>3. ASSUME NEW j \in DOMAIN list, NEW p \in list[j], p.object = o.object, p.key = key
      PROVE  j = i /\ p = o
  <2>1. j = i
    BY <1>1, <1>2, <1>3 DEF Evidence
  <2> QED
    BY <2>1, <1>1, <1>3
<1>4. Places(list, o.object, key) = {i}
  BY <1>1, <1>2, <1>3 DEF Places
<1>5. ValueAt(list, i, o.object, key) = o.value
  <2>1. (CHOOSE p \in list[i] : p.object = o.object /\ p.key = key) = o
    BY <1>1, <1>2
  <2> QED
    BY <2>1 DEF ValueAt
<1>6. Max({i}) = i /\ Min({i}) = i
  <2>1. i \in Nat
    BY <1>1 DEF Evidence
  <2> QED
    BY <2>1 DEF Max, Min
<1>7. {i} # {}
  OBVIOUS
<1>8. Said(list, o.object, key) = o.value
  BY <1>4, <1>5, <1>6, <1>7 DEF Said
<1>9. FirstNumber(list, o.object, key) = o.value
  BY <1>4, <1>5, <1>6, <1>7 DEF FirstNumber
<1>10. ASSUME NEW p \in Of(list, key), p.object = o.object PROVE p = o
  <2>1. PICK j \in DOMAIN list : p \in list[j]
    BY OfFacts
  <2>2. p.key = key
    BY OfFacts
  <2> QED
    BY <2>1, <2>2, <1>3, <1>10
<1> QED
  BY <1>8, <1>9, <1>10

\* Of an object without an observation nothing is said.
LEMMA SaidNothing ==
    ASSUME NEW list, NEW key, NEW object, \A o \in Of(list, key) : o.object # object
    PROVE  Said(list, object, key) = None /\ FirstNumber(list, object, key) = None
<1>1. Places(list, object, key) = {}
  BY DEF Places, Of
<1> QED
  BY <1>1 DEF Said, FirstNumber

\* A state that is said was observed.
LEMMA SaidIsObserved ==
    ASSUME NEW list, Evidence(list), NEW key, key \notin LockKeys, NEW object, NEW value, value # None
    PROVE  /\ Said(list, object, key) = value
                <=> \E o \in Of(list, key) : o.object = object /\ o.value = value
           /\ FirstNumber(list, object, key) = value
                <=> \E o \in Of(list, key) : o.object = object /\ o.value = value
<1>1. CASE \E o \in Of(list, key) : o.object = object
  <2>1. PICK o \in Of(list, key) : o.object = object
    BY <1>1
  <2>2. /\ Said(list, object, key) = o.value
        /\ FirstNumber(list, object, key) = o.value
        /\ \A p \in Of(list, key) : p.object = object => p = o
    BY <2>1, SaidOnce
  <2> QED
    BY <2>1, <2>2
<1>2. CASE ~\E o \in Of(list, key) : o.object = object
  <2>1. Said(list, object, key) = None /\ FirstNumber(list, object, key) = None
    BY <1>2, SaidNothing
  <2> QED
    BY <1>2, <2>1
<1> QED
  BY <1>1, <1>2

\* Evidence with the same observations says the same.
LEMMA SaidSame ==
    ASSUME NEW list, NEW more, Evidence(list), Evidence(more), NEW object,
           NEW key, key \notin LockKeys, Of(more, key) = Of(list, key)
    PROVE  /\ Said(more, object, key) = Said(list, object, key)
           /\ FirstNumber(more, object, key) = FirstNumber(list, object, key)
<1>1. CASE \E o \in Of(list, key) : o.object = object
  <2>1. PICK o \in Of(list, key) : o.object = object
    BY <1>1
  <2>2. Said(list, object, key) = o.value /\ FirstNumber(list, object, key) = o.value
    BY <2>1, SaidOnce
  <2>3. Said(more, object, key) = o.value /\ FirstNumber(more, object, key) = o.value
    BY <2>1, SaidOnce
  <2> QED
    BY <2>2, <2>3
<1>2. CASE ~\E o \in Of(list, key) : o.object = object
  <2>1. Said(list, object, key) = None /\ FirstNumber(list, object, key) = None
    BY <1>2, SaidNothing
  <2>2. Said(more, object, key) = None /\ FirstNumber(more, object, key) = None
    BY <1>2, SaidNothing
  <2> QED
    BY <2>1, <2>2
<1> QED
  BY <1>1, <1>2

-----------------------------------------------------------------------------
(* Stopped channels *)

NameOf(r) == IF r.channel = None THEN "default" ELSE r.channel
StateKey(r) ==
    IF r.component = "receiver" THEN "replication.receiver_state" ELSE "replication.applier_state"
IsDirect(r) == r.from = "replication" /\ r.component \in {"receiver", "applier"}

\* The state of a receiver or an applier, and where it comes from.
LEMMA StateOfChannel ==
    ASSUME NEW r \in Rows, IsDirect(r)
    PROVE  Observation(StateKey(r), <<"replication_channel", NameOf(r)>>, r.state) \in ObservationsOf(r)
<1>1. ObservationsOf(r) = ReplicationObservations(r)
  BY DEF ObservationsOf, IsDirect
<1> QED
  BY <1>1 DEF ReplicationObservations, StateKey, NameOf, IsDirect

\* Only a receiver has a receiver's state, and an applier an applier's.
LEMMA ChannelOfState ==
    ASSUME NEW r \in Rows, r.from # "deltas", NEW o \in ObservationsOf(r),
           o.key \in {"replication.receiver_state", "replication.applier_state"}
    PROVE  /\ IsDirect(r) /\ o.key = StateKey(r) /\ o.value = r.state
           /\ o.object = <<"replication_channel", NameOf(r)>>
<1>1. r.from = "replication"
  <2>1. Source(o.key) = r.from
    BY ObservationFacts
  <2> QED
    BY <2>1 DEF Source, LockKeys, TransactionKeys, IndexKeys, StateKeys
<1>2. ObservationsOf(r) = ReplicationObservations(r)
  BY <1>1 DEF ObservationsOf
<1>3. CASE r.component \in {"receiver", "applier"}
  <2>1. o.key = "replication.error_code" \/ o = Observation(StateKey(r), <<"replication_channel", NameOf(r)>>, r.state)
    BY <1>2, <1>3 DEF ReplicationObservations, Observation, StateKey, NameOf
  <2>2. o = Observation(StateKey(r), <<"replication_channel", NameOf(r)>>, r.state)
    BY <2>1
  <2> QED
    BY <2>2, <1>1, <1>3 DEF Observation, IsDirect
<1>4. CASE r.component \notin {"receiver", "applier"}
  <2>1. o.key = "replication.error_code" \/ o.key = "replication.worker_state"
    BY <1>2, <1>4 DEF ReplicationObservations, Observation
  <2> QED
    BY <2>1
<1> QED
  BY <1>3, <1>4

\* The direct rows that are listed, and those the server holds.
ListedParts(list) == {r \in {list[i] : i \in Kept(list, "replication")} : IsDirect(r)}
HeldParts(list) == {r \in {list[i] : i \in DOMAIN list} : IsDirect(r)}

\* A listed part's state is what is said of its channel.
LEMMA ListedIsSaid ==
    ASSUME NEW list, Plausible(list), NEW r \in ListedParts(list)
    PROVE  /\ Said(Current(list), <<"replication_channel", NameOf(r)>>, StateKey(r)) = r.state
           /\ \E o \in Of(Current(list), StateKey(r)) : o.object = <<"replication_channel", NameOf(r)>>
<1> DEFINE o == Observation(StateKey(r), <<"replication_channel", NameOf(r)>>, r.state)
<1>1. list \in Seq(Rows) /\ Evidence(Current(list))
  BY CurrentIsEvidence DEF Plausible
<1>2. PICK i \in Kept(list, "replication") : r = list[i]
  BY DEF ListedParts
<1>3. IsDirect(r)
  BY DEF ListedParts
<1>4. i \in RowsOf(list, "replication")
  BY <1>1, <1>2, KeptFacts DEF Snapshots
<1>5. i \in DOMAIN list /\ r.from = "replication"
  BY <1>2, <1>4 DEF RowsOf
<1>6. i \in DOMAIN Current(list)
  BY <1>1, <1>2, <1>5, CurrentPlaces DEF Snapshots
<1>7. Current(list)[i] = ObservationsOf(r) /\ r \in Rows
  BY <1>1, <1>2, <1>6, CurrentPlaces
<1>8. o \in Current(list)[i]
  BY <1>3, <1>7, StateOfChannel
<1>9. /\ o.key = StateKey(r) /\ o.value = r.state
      /\ o.object = <<"replication_channel", NameOf(r)>>
  BY DEF Observation
<1> HIDE DEF o
<1>10. o \in Of(Current(list), StateKey(r))
  BY <1>6, <1>8, <1>9 DEF Of
<1>11. StateKey(r) \notin LockKeys
  BY DEF StateKey, LockKeys
<1> QED
  BY <1>1, <1>9, <1>10, <1>11, SaidOnce

\* A state that was observed is that of a listed part.
LEMMA SaidIsListed ==
    ASSUME NEW list, Plausible(list), NEW o,
           o \in Of(Current(list), "replication.receiver_state")
                   \cup Of(Current(list), "replication.applier_state")
    PROVE  \E r \in ListedParts(list) : o.object = <<"replication_channel", NameOf(r)>>
<1>1. list \in Seq(Rows) /\ Evidence(Current(list))
  BY CurrentIsEvidence DEF Plausible
<1>2. PICK i \in DOMAIN Current(list) :
        /\ o \in Current(list)[i]
        /\ o.key \in {"replication.receiver_state", "replication.applier_state"}
  BY DEF Of
<1>3. /\ list[i] \in Rows /\ list[i].from \in Snapshots /\ i \in Kept(list, list[i].from)
      /\ Current(list)[i] = ObservationsOf(list[i])
  BY <1>1, <1>2, CurrentPlaces
<1>4. IsDirect(list[i]) /\ o.object = <<"replication_channel", NameOf(list[i])>>
  <2>1. list[i].from # "deltas"
    BY <1>3 DEF Snapshots
  <2> QED
    BY <2>1, <1>2, <1>3, ChannelOfState
<1>5. list[i] \in ListedParts(list)
  BY <1>3, <1>4 DEF ListedParts, IsDirect
<1> QED
  BY <1>4, <1>5

Runs(list, channel, key) == Said(list, channel, key) = "ON"
ChannelsOf(list) ==
    {o.object : o \in Of(list, "replication.receiver_state")
                        \cup Of(list, "replication.applier_state")}

\* The channels that are reported.
LEMMA StoppedChannels ==
    ASSUME NEW list
    PROVE  {f.object : f \in ReplicationStopped(list)} =
               {d \in ChannelsOf(list) : ~(/\ Runs(list, d, "replication.receiver_state")
                                           /\ Runs(list, d, "replication.applier_state"))}
<1> DEFINE stopped == {d \in ChannelsOf(list) :
                          ~(/\ Runs(list, d, "replication.receiver_state")
                            /\ Runs(list, d, "replication.applier_state"))}
<1>1. ReplicationStopped(list) = {Finding("replication_stopped", c, "critical") : c \in stopped}
  BY DEF ReplicationStopped, Runs, ChannelsOf
<1> HIDE DEF stopped
<1>2. \A c \in stopped : Finding("replication_stopped", c, "critical").object = c
  BY DEF Finding
<1>3. {f.object : f \in ReplicationStopped(list)} = stopped
  BY <1>1, <1>2
<1> QED
  BY <1>3 DEF stopped

\* Two parts of one channel that are in different rows are its two parts.
LEMMA TwoParts ==
    ASSUME NEW list, Plausible(list), NEW q \in HeldParts(list), NEW t \in HeldParts(list),
           q # t, NameOf(q) = NameOf(t)
    PROVE  StateKey(q) # StateKey(t)
<1>1. PICK i \in DOMAIN list, j \in DOMAIN list : q = list[i] /\ t = list[j]
  BY DEF HeldParts
<1>2. IsDirect(q) /\ IsDirect(t) /\ q \in Rows /\ t \in Rows
  BY <1>1 DEF HeldParts, Plausible
<1>3. i # j /\ q.from = "replication" /\ t.from = "replication"
  BY <1>1, <1>2 DEF IsDirect
<1>4. AreAboutDifferentObjects(q, t)
  BY <1>1, <1>3 DEF Plausible
<1>5. \A o \in ObservationsOf(q), p \in ObservationsOf(t) : o.key # p.key \/ o.object # p.object
  BY <1>3, <1>4 DEF AreAboutDifferentObjects
<1> SUFFICES ASSUME StateKey(q) = StateKey(t) PROVE FALSE
  OBVIOUS
<1> DEFINE o == Observation(StateKey(q), <<"replication_channel", NameOf(q)>>, q.state)
           p == Observation(StateKey(t), <<"replication_channel", NameOf(t)>>, t.state)
<1>6. o \in ObservationsOf(q) /\ p \in ObservationsOf(t)
  BY <1>2, StateOfChannel
<1>7. o.key = p.key /\ o.object = p.object
  BY DEF Observation
<1> QED
  BY <1>5, <1>6, <1>7

\* A channel is stopped when a listed part does not run, and then only unless
\* the server has no other part or the list was cut.
LEMMA StoppedFromRows ==
    ASSUME RowsInv
    PROVE  StoppedIsReal
<1> DEFINE list == Current(rows)
           listed == ListedParts(rows)
           held == HeldParts(rows)
           stopped == {f.object[2] : f \in ReplicationStopped(list)}
           PartsOf(set, c) == {r \in set : NameOf(r) = c}
<1>1. Plausible(rows) /\ rows \in Seq(Rows)
  BY DEF RowsInv, Plausible
<1>2. stopped = {x[2] : x \in {f.object : f \in ReplicationStopped(list)}}
  OBVIOUS
<1>3. stopped = {d[2] : d \in {e \in ChannelsOf(list) :
                                 ~(/\ Runs(list, e, "replication.receiver_state")
                                   /\ Runs(list, e, "replication.applier_state"))}}
  BY <1>2, StoppedChannels
<1>4. \A r \in listed : IsDirect(r) /\ r \in held
  <2> TAKE r \in listed
  <2>1. PICK i \in Kept(rows, "replication") : r = rows[i]
    BY DEF ListedParts
  <2>2. i \in DOMAIN rows
    BY <1>1, KeptFacts DEF Snapshots, RowsOf
  <2> QED
    BY <2>1, <2>2 DEF ListedParts, HeldParts
<1>5. ASSUME NEW r \in listed
      PROVE  /\ <<"replication_channel", NameOf(r)>> \in ChannelsOf(list)
             /\ Said(list, <<"replication_channel", NameOf(r)>>, StateKey(r)) = r.state
             /\ StateKey(r) \in {"replication.receiver_state", "replication.applier_state"}
  <2>1. /\ Said(list, <<"replication_channel", NameOf(r)>>, StateKey(r)) = r.state
        /\ \E o \in Of(list, StateKey(r)) : o.object = <<"replication_channel", NameOf(r)>>
    BY <1>1, ListedIsSaid
  <2>2. StateKey(r) \in {"replication.receiver_state", "replication.applier_state"}
    BY DEF StateKey
  <2> QED
    BY <2>1, <2>2 DEF ChannelsOf
<1> HIDE DEF list, listed, held, stopped
<1>6. ASSUME NEW r \in listed, r.state # "ON" PROVE NameOf(r) \in stopped
  <2> DEFINE d == <<"replication_channel", NameOf(r)>>
  <2>1. d[2] = NameOf(r)
    OBVIOUS
  <2>2. ~Runs(list, d, StateKey(r))
    BY <1>5, <1>6 DEF Runs
  <2>3. ~(/\ Runs(list, d, "replication.receiver_state")
          /\ Runs(list, d, "replication.applier_state")) /\ d \in ChannelsOf(list)
    BY <2>2, <1>5
  <2> HIDE DEF d
  <2> QED
    BY <1>3, <2>1, <2>3
<1>7. ASSUME NEW c \in stopped,
             \A r \in PartsOf(listed, c) : r.state = "ON",
             ~(Cardinality(PartsOf(held, c)) < 2),
             PartsOf(listed, c) = PartsOf(held, c)
      PROVE  FALSE
  <2>1. PICK d \in ChannelsOf(list) :
          /\ d[2] = c
          /\ ~(/\ Runs(list, d, "replication.receiver_state")
               /\ Runs(list, d, "replication.applier_state"))
    BY <1>3, <1>7
  <2>2. d = <<"replication_channel", c>>
    <3>1. PICK r \in listed : d = <<"replication_channel", NameOf(r)>>
      BY <2>1, <1>1, SaidIsListed DEF ChannelsOf, list, listed
    <3> QED
      BY <3>1, <2>1
  <2>3. \E q, t \in PartsOf(held, c) : q # t
    <3>1. CASE PartsOf(held, c) = {}
      <4>1. Cardinality({}) = 0
        BY FS_EmptySet
      <4>2. Cardinality(PartsOf(held, c)) = 0
        BY <3>1, <4>1
      <4> QED
        BY <1>7, <4>2
    <3>2. CASE \E x : PartsOf(held, c) = {x}
      <4>1. PICK x : PartsOf(held, c) = {x}
        BY <3>2
      <4>2. Cardinality({x}) = 1
        BY FS_Singleton
      <4>3. Cardinality(PartsOf(held, c)) = 1
        BY <4>1, <4>2
      <4> QED
        BY <1>7, <4>3
    <3> HIDE DEF PartsOf
    <3>3. CASE PartsOf(held, c) # {} /\ ~\E x : PartsOf(held, c) = {x}
      BY <3>3
    <3> QED
      BY <3>1, <3>2, <3>3
  <2>4. PICK q \in PartsOf(held, c), t \in PartsOf(held, c) : q # t
    BY <2>3
  <2>5. StateKey(q) # StateKey(t)
    BY <1>1, <2>4, TwoParts DEF held
  <2>6. /\ q \in listed /\ NameOf(q) = c /\ q.state = "ON"
        /\ t \in listed /\ NameOf(t) = c /\ t.state = "ON"
    BY <1>7, <2>4
  <2>7. Runs(list, d, StateKey(q)) /\ Runs(list, d, StateKey(t))
    BY <1>5, <2>2, <2>6 DEF Runs
  <2>8. /\ StateKey(q) \in {"replication.receiver_state", "replication.applier_state"}
        /\ StateKey(t) \in {"replication.receiver_state", "replication.applier_state"}
    BY <1>5, <2>6
  <2> QED
    BY <2>1, <2>5, <2>7, <2>8
<1>8. /\ \A r \in listed : r.state # "ON" => NameOf(r) \in stopped
      /\ \A c \in stopped :
           \/ \E r \in PartsOf(listed, c) : r.state # "ON"
           \/ Cardinality(PartsOf(held, c)) < 2
           \/ PartsOf(listed, c) # PartsOf(held, c)
  BY <1>6, <1>7
<1>9. /\ listed = {r \in {rows[i] : i \in Kept(rows, "replication")} :
                      r.from = "replication" /\ r.component \in {"receiver", "applier"}}
      /\ held = {r \in {rows[i] : i \in DOMAIN rows} :
                      r.from = "replication" /\ r.component \in {"receiver", "applier"}}
      /\ stopped = {f.object[2] : f \in ReplicationStopped(Current(rows))}
  BY DEF listed, held, stopped, list, ListedParts, HeldParts, IsDirect
<1> QED
  BY <1>8, <1>9 DEF StoppedIsReal, NameOf

\* What the replication rule reports as stopped stands still, as far as the list
\* tells: only a part that is missing, or cut off at the limit, is taken for one.
THEOREM StoppedChannelsAreStopped == CollectorsSpec => []StoppedIsReal
<1>1. RowsInv => StoppedIsReal
  BY StoppedFromRows
<1> QED
  BY <1>1, RowsArePlausible, PTL

-----------------------------------------------------------------------------
(* Redundant indexes *)

\* An index of the evidence is that of one row, which says all of it.
LEMMA IndexFacts ==
    ASSUME NEW list, Evidence(list), NEW x \in Indexes(list)
    PROVE  \E r \in Rows :
              /\ Said(list, x, "index.table") = r.table
              /\ Said(list, x, "index.signature") = r.signature /\ r.signature \in Seq(STRING)
              /\ Said(list, x, "index.reads") = r.reads /\ r.reads \in Int
              /\ Said(list, x, "index.unique") = r.unique /\ r.unique \in BOOLEAN
              /\ Said(list, x, "index.primary") = (r.index = "PRIMARY")
              /\ \A key \in IndexKeys : \E o \in Of(list, key) : o.object = x
<1>1. PICK o \in Of(list, "index.table") : o.object = x
  BY DEF Indexes
<1>2. PICK i \in DOMAIN list : o \in list[i]
  BY <1>1, OfFacts
<1>3. o.key = "index.table"
  BY <1>1, OfFacts
<1>4. PICK r \in Rows : r.from # "deltas" /\ list[i] = ObservationsOf(r)
  BY <1>2 DEF Evidence
<1>5. r.from = "indexes"
  <2>1. Source(o.key) = r.from
    BY <1>2, <1>4, ObservationFacts
  <2> QED
    BY <2>1, <1>3 DEF Source, LockKeys, TransactionKeys, IndexKeys
<1>6. /\ ObservationsOf(r) = IndexObservations(r)
      /\ r.unique \in BOOLEAN /\ r.signature \in Seq(STRING) /\ r.reads \in Int
  BY <1>5, RowKinds
<1> DEFINE ref == <<"index", <<r.table, r.index>>>>
           reads == Observation("index.reads", ref, r.reads)
           signature == Observation("index.signature", ref, r.signature)
           table == Observation("index.table", ref, r.table)
           unique == Observation("index.unique", ref, r.unique)
           primary == Observation("index.primary", ref, r.index = "PRIMARY")
<1>7. list[i] = {reads, signature, table, unique, primary}
  BY <1>4, <1>6 DEF IndexObservations
<1>8. /\ reads.key = "index.reads" /\ reads.object = ref /\ reads.value = r.reads
      /\ signature.key = "index.signature" /\ signature.object = ref /\ signature.value = r.signature
      /\ table.key = "index.table" /\ table.object = ref /\ table.value = r.table
      /\ unique.key = "index.unique" /\ unique.object = ref /\ unique.value = r.unique
  BY DEF Observation
<1>9. primary.key = "index.primary" /\ primary.object = ref /\ primary.value = (r.index = "PRIMARY")
  BY DEF Observation
<1> HIDE DEF ref, reads, signature, table, unique, primary
<1>10. x = ref
  BY <1>1, <1>2, <1>3, <1>7, <1>8, <1>9
<1>11. /\ reads \in Of(list, "index.reads") /\ signature \in Of(list, "index.signature")
       /\ table \in Of(list, "index.table") /\ unique \in Of(list, "index.unique")
       /\ primary \in Of(list, "index.primary")
  BY <1>2, <1>7, <1>8, <1>9 DEF Of
<1>12. \A k \in IndexKeys : k \notin LockKeys
  BY DEF IndexKeys, LockKeys
<1>13. Said(list, x, "index.reads") = r.reads
  BY <1>8, <1>10, <1>11, <1>12, SaidOnce DEF IndexKeys
<1>14. Said(list, x, "index.signature") = r.signature
  BY <1>8, <1>10, <1>11, <1>12, SaidOnce DEF IndexKeys
<1>15. Said(list, x, "index.table") = r.table
  BY <1>8, <1>10, <1>11, <1>12, SaidOnce DEF IndexKeys
<1>16. Said(list, x, "index.unique") = r.unique
  BY <1>8, <1>10, <1>11, <1>12, SaidOnce DEF IndexKeys
<1>17. Said(list, x, "index.primary") = (r.index = "PRIMARY")
  <2>1. Said(list, x, "index.primary") = primary.value
    BY <1>9, <1>10, <1>11, <1>12, SaidOnce DEF IndexKeys
  <2> QED
    BY <2>1, <1>9
<1>18. \A key \in IndexKeys : \E p \in Of(list, key) : p.object = x
  BY <1>8, <1>9, <1>10, <1>11 DEF IndexKeys
<1> QED
  BY <1>6, <1>13, <1>14, <1>15, <1>16, <1>17, <1>18

\* There are no more indexes than rows.
LEMMA IndexesAreFinite ==
    ASSUME NEW list, Evidence(list)
    PROVE  IsFiniteSet(Indexes(list))
<1> DEFINE Shows(x, i) == \E o \in list[i] : o.key = "index.table" /\ o.object = x
           Row == [x \in Indexes(list) |-> CHOOSE i \in DOMAIN list : Shows(x, i)]
<1>1. ASSUME NEW x \in Indexes(list) PROVE Row[x] \in DOMAIN list /\ Shows(x, Row[x])
  <2>1. PICK o \in Of(list, "index.table") : o.object = x
    BY <1>1 DEF Indexes
  <2>2. \E i \in DOMAIN list : Shows(x, i)
    BY <2>1 DEF Of
  <2> QED
    BY <2>2
<1>2. ASSUME NEW x \in Indexes(list), NEW y \in Indexes(list), Row[x] = Row[y] PROVE x = y
  <2>1. PICK o \in list[Row[x]] : o.key = "index.table" /\ o.object = x
    BY <1>1
  <2>2. PICK p \in list[Row[x]] : p.key = "index.table" /\ p.object = y
    BY <1>1, <1>2
  <2>3. PICK r \in Rows : r.from # "deltas" /\ list[Row[x]] = ObservationsOf(r)
    BY <1>1 DEF Evidence
  <2>4. o = p
    BY <2>1, <2>2, <2>3, ObservationFacts
  <2> QED
    BY <2>1, <2>2, <2>4
<1>3. Row \in [Indexes(list) -> DOMAIN list]
  BY <1>1
<1>4. Row \in Injection(Indexes(list), DOMAIN list)
  BY <1>2, <1>3 DEF Injection, IsInjective
<1>5. IsFiniteSet(DOMAIN list)
  BY DEF Evidence
<1> QED
  BY <1>4, <1>5, FS_Injection

\* To be covered is transitive and strict.
LEMMA LeftPrefixIsAnOrder ==
    ASSUME NEW a \in Seq(STRING), NEW b \in Seq(STRING), NEW c \in Seq(STRING),
           LeftPrefix(a, b), LeftPrefix(b, c)
    PROVE  LeftPrefix(a, c)
<1>1. /\ Len(a) \in Nat /\ Len(b) \in Nat /\ Len(c) \in Nat
      /\ Len(a) < Len(b) /\ Len(b) < Len(c)
      /\ SubSeq(b, 1, Len(a)) = a /\ SubSeq(c, 1, Len(b)) = b
  BY DEF LeftPrefix
<1>2. \A i \in 1..Len(b) : b[i] = c[i]
  BY <1>1
<1>3. \A i \in 1..Len(a) : a[i] = b[i]
  BY <1>1
<1> DEFINE s == SubSeq(c, 1, Len(a))
<1>4. s \in Seq(STRING) /\ Len(s) = Len(a) /\ \A i \in 1..Len(a) : s[i] = c[i]
  BY <1>1
<1> HIDE DEF s
<1>5. s = a
  BY <1>1, <1>2, <1>3, <1>4, SeqEqual
<1> QED
  BY <1>1, <1>5 DEF LeftPrefix, s

\* An index that is covered is covered by one that is not: of those that cover
\* it, one with the fewest above it.
LEMMA CoveredFromEvidence ==
    ASSUME NEW list, Evidence(list), NEW j \in Indexes(list),
           \E k \in Indexes(list) \ {j} : Covers(list, k, j)
    PROVE  \E k \in Indexes(list) :
              /\ Covers(list, k, j)
              /\ ~\E m \in Indexes(list) \ {k} : Covers(list, m, k)
<1> DEFINE Sig(k) == Said(list, k, "index.signature")
           above == [k \in Indexes(list) |-> {m \in Indexes(list) : LeftPrefix(Sig(k), Sig(m))}]
           covers == {k \in Indexes(list) : Covers(list, k, j)}
           heights == {Cardinality(above[k]) : k \in covers}
<1>1. \A k \in Indexes(list) : Sig(k) \in Seq(STRING)
  <2> TAKE k \in Indexes(list)
  <2> QED
    BY IndexFacts
<1>2. ASSUME NEW k \in Indexes(list) PROVE IsFiniteSet(above[k]) /\ Cardinality(above[k]) \in Nat
  <2>1. above[k] \in SUBSET Indexes(list)
    OBVIOUS
  <2> QED
    BY <2>1, IndexesAreFinite, FS_Subset, FS_CardinalityType
<1>3. heights \in SUBSET Nat /\ heights # {}
  BY <1>2
<1>4. PICK h \in heights : \A n \in heights : h <= n
  BY <1>3, LeastOf
<1>5. PICK k \in covers : h = Cardinality(above[k])
  BY <1>4
<1>6. ASSUME NEW m \in Indexes(list) \ {k}, Covers(list, m, k) PROVE FALSE
  <2>1. /\ Secondary(list, m) /\ LeftPrefix(Sig(k), Sig(m)) /\ LeftPrefix(Sig(j), Sig(k))
        /\ Said(list, m, "index.table") = Said(list, k, "index.table")
        /\ Said(list, k, "index.table") = Said(list, j, "index.table")
    BY <1>5, <1>6 DEF Covers
  <2>2. LeftPrefix(Sig(j), Sig(m))
    BY <2>1, <1>1, <1>5, <1>6, LeftPrefixIsAnOrder
  <2>3. m \in covers
    BY <2>1, <2>2, <1>6 DEF Covers
  <2>4. above[m] \subseteq above[k]
    <3>1. ASSUME NEW x \in above[m] PROVE x \in above[k]
      <4>1. x \in Indexes(list) /\ LeftPrefix(Sig(m), Sig(x))
        BY <3>1, <1>6
      <4>2. LeftPrefix(Sig(k), Sig(x))
        BY <4>1, <2>1, <1>1, <1>5, <1>6, LeftPrefixIsAnOrder
      <4> QED
        BY <4>1, <4>2, <1>5
    <3> QED
      BY <3>1
  <2>5. m \in above[k] /\ m \notin above[m]
    <3>1. ~LeftPrefix(Sig(m), Sig(m))
      BY <1>1, <1>6 DEF LeftPrefix
    <3> QED
      BY <2>1, <3>1, <1>5, <1>6
  <2> HIDE DEF above
  <2>6. Cardinality(above[m]) < Cardinality(above[k])
    <3>1. /\ IsFiniteSet(above[k]) /\ Cardinality(above[k]) \in Nat
          /\ IsFiniteSet(above[m]) /\ Cardinality(above[m]) \in Nat
      BY <1>2, <1>5, <1>6
    <3>2. Cardinality(above[m]) <= Cardinality(above[k]) /\ Cardinality(above[m]) # Cardinality(above[k])
      BY <2>4, <2>5, <3>1, FS_Subset
    <3> QED
      BY <3>1, <3>2
  <2>7. Cardinality(above[k]) <= Cardinality(above[m])
    BY <2>3, <1>4, <1>5
  <2> QED
    BY <2>6, <2>7, <1>2, <1>5, <1>6
<1> QED
  BY <1>5, <1>6

\* Dropping what is reported loses nothing.
LEMMA RedundantFromRows ==
    ASSUME RowsInv
    PROVE  RedundantIndexIsCovered
<1> DEFINE list == Current(rows)
           reported == {f.object : f \in RedundantIndex(list)}
           redundant == {j \in Indexes(list) :
                            Secondary(list, j) /\ \E k \in Indexes(list) \ {j} : Covers(list, k, j)}
<1>1. Evidence(list)
  BY CurrentIsEvidence DEF RowsInv
<1> HIDE DEF list
<1>2. reported = redundant
  <2>1. RedundantIndex(list) = {Finding("redundant_index", i, "info") : i \in redundant}
    BY DEF RedundantIndex
  <2> HIDE DEF redundant
  <2>2. \A i \in redundant : Finding("redundant_index", i, "info").object = i
    BY DEF Finding
  <2> QED
    BY <2>1, <2>2
<1> HIDE DEF reported
<1>3. ASSUME NEW i \in reported
      PROVE  \E k \in Indexes(list) \ reported :
                /\ Said(list, k, "index.table") = Said(list, i, "index.table")
                /\ LeftPrefix(Said(list, i, "index.signature"), Said(list, k, "index.signature"))
  <2>1. i \in Indexes(list) /\ \E k \in Indexes(list) \ {i} : Covers(list, k, i)
    BY <1>2, <1>3
  <2>2. PICK k \in Indexes(list) : Covers(list, k, i) /\ ~\E m \in Indexes(list) \ {k} : Covers(list, m, k)
    BY <1>1, <2>1, CoveredFromEvidence
  <2>3. k \notin reported
    BY <1>2, <2>2
  <2> QED
    BY <2>2, <2>3 DEF Covers
<1> QED
  BY <1>3 DEF RedundantIndexIsCovered, list, reported

\* The rule for redundant indexes never reports the last one that serves: an
\* index that it reports is covered by one of the table that it does not.
THEOREM RedundantIndexesAreCovered == CollectorsSpec => []RedundantIndexIsCovered
<1>1. RowsInv => RedundantIndexIsCovered
  BY RedundantFromRows
<1> QED
  BY <1>1, RowsArePlausible, PTL

-----------------------------------------------------------------------------
(* The longest chain of waits *)

Nodes(edges) == UNION {{e[1], e[2]} : e \in edges}
Pairs(edges) == IsFiniteSet(edges) /\ \A e \in edges : \E a, b : e = <<a, b>>

\* A walk of n steps from a node, whose nodes are different and not in path,
\* but that its last one may be any.
IsWalk(edges, w, n, node, path) ==
    /\ w \in [1..(n + 1) -> Nodes(edges)] /\ w[1] = node
    /\ \A i \in 1..n : <<w[i], w[i + 1]>> \in edges /\ w[i] \notin path
    /\ \A i, j \in 1..n : w[i] = w[j] => i = j

Steps(edges, node, path) == {n \in Nat : \E w : IsWalk(edges, w, n, node, path)}

\* The largest of some bounded numbers.
LEMMA LargestOf ==
    ASSUME NEW n \in Nat, NEW S \in SUBSET (0..n), S # {}
    PROVE  /\ Max(S) \in S /\ \A y \in S : Max(S) >= y
           /\ \A x \in S : (\A y \in S : x >= y) => Max(S) = x
<1> DEFINE fromEnd == {n - i : i \in S}
<1>1. fromEnd \subseteq Nat /\ fromEnd # {}
  <2>1. \A i \in S : i \in Int /\ n - i \in Nat
    OBVIOUS
  <2> QED
    BY <2>1
<1> HIDE DEF fromEnd
<1>2. PICK m \in fromEnd : \A k \in fromEnd : m <= k
  BY <1>1, LeastOf
<1>3. PICK i \in S : m = n - i
  BY <1>2 DEF fromEnd
<1>4. ASSUME NEW k \in S PROVE i >= k
  <2>1. n - i <= n - k
    BY <1>2, <1>3 DEF fromEnd
  <2> QED
    BY <1>3, <2>1
<1>5. \E x \in S : \A y \in S : x >= y
  BY <1>3, <1>4
<1>6. Max(S) \in S /\ \A y \in S : Max(S) >= y
  BY <1>5 DEF Max
<1>7. ASSUME NEW x \in S, \A y \in S : x >= y PROVE Max(S) = x
  <2>1. \A y \in S : y \in Int
    OBVIOUS
  <2>2. x >= Max(S) /\ Max(S) >= x
    BY <1>6, <1>7
  <2>3. x \in Int /\ Max(S) \in Int
    BY <1>6, <2>1
  <2> HIDE DEF Max
  <2> QED
    BY <2>2, <2>3
<1> QED
  BY <1>6, <1>7

\* A finite graph has finitely many nodes.
LEMMA NodesAreFinite ==
    ASSUME NEW edges, Pairs(edges)
    PROVE  /\ IsFiniteSet(Nodes(edges)) /\ Cardinality(Nodes(edges)) \in Nat
           /\ \A a, b : <<a, b>> \in edges => a \in Nodes(edges) /\ b \in Nodes(edges)
<1> DEFINE ends == {{e[1], e[2]} : e \in edges}
           f == [e \in edges |-> {e[1], e[2]}]
<1>1. f \in Surjection(edges, ends)
  BY DEF Surjection
<1>2. IsFiniteSet(ends)
  BY <1>1, FS_Surjection DEF Pairs
<1>3. \A T \in ends : IsFiniteSet(T)
  <2>1. ASSUME NEW a, NEW b PROVE IsFiniteSet({a, b})
    <3>1. IsFiniteSet({a})
      BY FS_Singleton
    <3>2. IsFiniteSet({a} \cup {b})
      BY <3>1, FS_AddElement
    <3>3. {a} \cup {b} = {a, b}
      OBVIOUS
    <3> QED
      BY <3>2, <3>3
  <2> QED
    BY <2>1
<1>4. IsFiniteSet(Nodes(edges))
  BY <1>2, <1>3, FS_UNION DEF Nodes
<1>5. ASSUME NEW a, NEW b, <<a, b>> \in edges PROVE a \in Nodes(edges) /\ b \in Nodes(edges)
  <2>1. {<<a, b>>[1], <<a, b>>[2]} \in ends
    BY <1>5
  <2>2. <<a, b>>[1] = a /\ <<a, b>>[2] = b
    OBVIOUS
  <2> QED
    BY <2>1, <2>2 DEF Nodes
<1> QED
  BY <1>4, <1>5, FS_CardinalityType

\* A walk has no more steps than the graph has nodes.
LEMMA StepsAreBounded ==
    ASSUME NEW edges, Pairs(edges), NEW node \in Nodes(edges), NEW path
    PROVE  /\ Steps(edges, node, path) \in SUBSET (0..Cardinality(Nodes(edges)))
           /\ 0 \in Steps(edges, node, path)
<1> DEFINE N == Nodes(edges)
<1>1. IsFiniteSet(N) /\ Cardinality(N) \in Nat
  BY NodesAreFinite
<1>2. ASSUME NEW n \in Nat, NEW w, IsWalk(edges, w, n, node, path) PROVE n <= Cardinality(N)
  <2> DEFINE f == [i \in 1..n |-> w[i]]
  <2>1. /\ w \in [1..(n + 1) -> N]
        /\ \A i, j \in 1..n : w[i] = w[j] => i = j
    BY <1>2 DEF IsWalk
  <2>2. \A i \in 1..n : w[i] \in N
    BY <2>1
  <2>3. f \in Injection(1..n, N)
    BY <2>1, <2>2 DEF Injection, IsInjective
  <2>4. Cardinality(1..n) <= Cardinality(N)
    BY <1>1, <2>3, FS_Injection
  <2>5. Cardinality(1..n) = n
    BY FS_Interval
  <2> QED
    BY <2>4, <2>5
<1>3. Steps(edges, node, path) \in SUBSET (0..Cardinality(N))
  <2>1. ASSUME NEW n \in Steps(edges, node, path) PROVE n \in 0..Cardinality(N)
    <3>1. n \in Nat /\ n <= Cardinality(N)
      BY <1>2, <2>1 DEF Steps
    <3> QED
      BY <3>1, <1>1
  <2> QED
    BY <2>1
<1>4. IsWalk(edges, [i \in 1..1 |-> node], 0, node, path)
  <2>1. 1..(0 + 1) = 1..1 /\ 1..0 = {}
    OBVIOUS
  <2> QED
    BY <2>1 DEF IsWalk
<1>5. 0 \in Steps(edges, node, path)
  BY <1>4 DEF Steps
<1> QED
  BY <1>3, <1>5

\* The first step of a walk leads to a walk that avoids where it began.
LEMMA StepsFrom ==
    ASSUME NEW edges, Pairs(edges), NEW node \in Nodes(edges), NEW path,
           NEW n \in Steps(edges, node, path), n # 0
    PROVE  /\ node \notin path
           /\ \E next \in BlockedBy(edges, node) : n - 1 \in Steps(edges, next, path \cup {node})
<1>1. n \in Nat /\ n - 1 \in Nat /\ 1 \in 1..n
  BY DEF Steps
<1>2. PICK w : IsWalk(edges, w, n, node, path)
  BY DEF Steps
<1>3. /\ w \in [1..(n + 1) -> Nodes(edges)] /\ w[1] = node
      /\ \A i \in 1..n : <<w[i], w[i + 1]>> \in edges /\ w[i] \notin path
      /\ \A i, j \in 1..n : w[i] = w[j] => i = j
  BY <1>2 DEF IsWalk
<1> DEFINE k == n - 1
           rest == [i \in 1..(k + 1) |-> w[i + 1]]
<1>4. w[2] \in BlockedBy(edges, node) /\ node \notin path
  <2>1. <<w[1], w[1 + 1]>> \in edges /\ w[1] \notin path
    BY <1>1, <1>3
  <2>2. <<node, w[2]>> \in edges
    BY <2>1, <1>3
  <2>3. <<node, w[2]>>[1] = node /\ <<node, w[2]>>[2] = w[2]
    OBVIOUS
  <2> QED
    BY <2>1, <2>2, <2>3, <1>3 DEF BlockedBy
<1>5. IsWalk(edges, rest, k, w[2], path \cup {node})
  <2>1. k \in Nat /\ k + 1 = n /\ 1 \in 1..(k + 1)
    BY <1>1
  <2>2. \A i \in 1..(k + 1) : i + 1 \in 1..(n + 1) /\ rest[i] = w[i + 1]
    BY <2>1
  <2>3. rest \in [1..(k + 1) -> Nodes(edges)]
    BY <2>2, <1>3
  <2>4. rest[1] = w[2]
    BY <2>1
  <2> HIDE DEF rest, k
  <2>5. ASSUME NEW i \in 1..k
        PROVE  <<rest[i], rest[i + 1]>> \in edges /\ rest[i] \notin path \cup {node}
    <3>1. /\ i \in 1..(k + 1) /\ i + 1 \in 1..(k + 1) /\ i + 1 \in 1..n /\ 1 \in 1..n
          /\ 1 # i + 1
      BY <2>1
    <3>2. rest[i] = w[i + 1] /\ rest[i + 1] = w[(i + 1) + 1]
      BY <2>2, <3>1
    <3>3. w[i + 1] # w[1]
      BY <1>3, <3>1
    <3> QED
      BY <1>3, <3>1, <3>2, <3>3
  <2>6. ASSUME NEW i \in 1..k, NEW j \in 1..k, rest[i] = rest[j] PROVE i = j
    <3>1. /\ i \in 1..(k + 1) /\ j \in 1..(k + 1) /\ i + 1 \in 1..n /\ j + 1 \in 1..n
      BY <2>1
    <3>2. w[i + 1] = w[j + 1]
      BY <2>2, <3>1, <2>6
    <3>3. i + 1 = j + 1
      BY <1>3, <3>1, <3>2
    <3> QED
      BY <3>3
  <2> QED
    BY <2>3, <2>4, <2>5, <2>6 DEF IsWalk
<1>6. n - 1 \in Steps(edges, w[2], path \cup {node})
  BY <1>1, <1>5 DEF Steps
<1> QED
  BY <1>4, <1>6

\* A step to a walk that avoids its beginning is a walk.
LEMMA StepsTo ==
    ASSUME NEW edges, Pairs(edges), NEW node \in Nodes(edges), NEW path, node \notin path,
           NEW next \in BlockedBy(edges, node), NEW n \in Steps(edges, next, path \cup {node})
    PROVE  1 + n \in Steps(edges, node, path)
<1>1. n \in Nat
  BY DEF Steps
<1>2. PICK w : IsWalk(edges, w, n, next, path \cup {node})
  BY DEF Steps
<1>3. /\ w \in [1..(n + 1) -> Nodes(edges)] /\ w[1] = next
      /\ \A i \in 1..n : <<w[i], w[i + 1]>> \in edges /\ w[i] \notin path \cup {node}
      /\ \A i, j \in 1..n : w[i] = w[j] => i = j
  BY <1>2 DEF IsWalk
<1>4. <<node, next>> \in edges
  <2>1. PICK e \in edges : e[1] = node /\ e[2] = next
    BY DEF BlockedBy
  <2>2. PICK a, b : e = <<a, b>>
    BY <2>1 DEF Pairs
  <2> QED
    BY <2>1, <2>2
<1> DEFINE k == n + 1
           whole == [i \in 1..(k + 1) |-> IF i = 1 THEN node ELSE w[i - 1]]
<1>5. k \in Nat /\ k = n + 1
  BY <1>1
<1>6. whole[1] = node /\ \A i \in 2..(k + 1) : whole[i] = w[i - 1] /\ i - 1 \in 1..(n + 1)
  <2>1. 1 \in 1..(k + 1)
    BY <1>5
  <2>2. \A i \in 2..(k + 1) : i \in 1..(k + 1) /\ i # 1 /\ i - 1 \in 1..(n + 1)
    BY <1>5
  <2> QED
    BY <2>1, <2>2
<1>7. whole \in [1..(k + 1) -> Nodes(edges)]
  <2>1. \A i \in 1..(k + 1) : i = 1 \/ i \in 2..(k + 1)
    BY <1>5
  <2>2. \A i \in 1..(k + 1) : whole[i] \in Nodes(edges)
    BY <2>1, <1>3, <1>6
  <2> QED
    BY <2>2
<1> HIDE DEF whole, k
<1>8. ASSUME NEW i \in 1..k
      PROVE  <<whole[i], whole[i + 1]>> \in edges /\ whole[i] \notin path
  <2>1. CASE i = 1
    <3>1. i + 1 = 2 /\ 2 \in 2..(k + 1) /\ 2 - 1 = 1
      BY <1>5, <2>1
    <3>2. whole[i + 1] = w[1]
      BY <1>6, <3>1
    <3> QED
      BY <2>1, <3>2, <1>3, <1>4, <1>6
  <2>2. CASE i # 1
    <3>1. i \in 2..(k + 1) /\ i + 1 \in 2..(k + 1) /\ i - 1 \in 1..n /\ (i + 1) - 1 = (i - 1) + 1
      BY <1>5, <1>1, <2>2
    <3>2. whole[i] = w[i - 1] /\ whole[i + 1] = w[(i - 1) + 1]
      BY <1>6, <3>1
    <3> QED
      BY <1>3, <3>1, <3>2
  <2> QED
    BY <2>1, <2>2
<1>9. \A i \in 1..k : i # 1 => whole[i] = w[i - 1] /\ i - 1 \in 1..n /\ whole[i] # node
  <2> TAKE i \in 1..k
  <2> SUFFICES ASSUME i # 1 PROVE whole[i] = w[i - 1] /\ i - 1 \in 1..n /\ whole[i] # node
    OBVIOUS
  <2>1. i \in 2..(k + 1) /\ i - 1 \in 1..n
    BY <1>5, <1>1
  <2>2. whole[i] = w[i - 1]
    BY <1>6, <2>1
  <2> QED
    BY <1>3, <2>1, <2>2
<1>10. ASSUME NEW i \in 1..k, NEW j \in 1..k, whole[i] = whole[j] PROVE i = j
  <2>1. CASE i = 1 \/ j = 1
    BY <2>1, <1>6, <1>9, <1>10
  <2>2. CASE i # 1 /\ j # 1
    <3>1. w[i - 1] = w[j - 1] /\ i - 1 \in 1..n /\ j - 1 \in 1..n
      BY <1>9, <1>10, <2>2
    <3>2. i - 1 = j - 1
      BY <1>3, <3>1
    <3>3. i \in Int /\ j \in Int
      BY <1>5
    <3> QED
      BY <3>2, <3>3
  <2> QED
    BY <2>1, <2>2
<1>11. IsWalk(edges, whole, k, node, path)
  BY <1>6, <1>7, <1>8, <1>10 DEF IsWalk
<1>12. 1 + n = k
  BY <1>1, <1>5
<1> QED
  BY <1>5, <1>11, <1>12 DEF Steps

\* The search, as an equation that a table of depths satisfies.
DepthBy(edges, depth, p) ==
    IF p[1] \in p[2] THEN 0
    ELSE Max({0} \cup {1 + depth[<<n, p[2] \cup {p[1]}>>] : n \in BlockedBy(edges, p[1])})
IsDepth(edges, depth) ==
    depth = [p \in Nodes(edges) \X SUBSET Nodes(edges) |-> DepthBy(edges, depth, p)]

Longest(edges, node, path) == Max(Steps(edges, node, path))

\* The most steps of a walk are so many as a walk has.
LEMMA LongestFacts ==
    ASSUME NEW edges, Pairs(edges), NEW node \in Nodes(edges), NEW path
    PROVE  /\ Longest(edges, node, path) \in Steps(edges, node, path)
           /\ Longest(edges, node, path) \in 0..Cardinality(Nodes(edges))
           /\ \A y \in Steps(edges, node, path) : Longest(edges, node, path) >= y
<1>1. Cardinality(Nodes(edges)) \in Nat
  BY NodesAreFinite
<1>2. Steps(edges, node, path) \in SUBSET (0..Cardinality(Nodes(edges))) /\ Steps(edges, node, path) # {}
  BY StepsAreBounded
<1> QED
  BY <1>1, <1>2, LargestOf DEF Longest

\* The most steps of a walk satisfy the equation of the search.
LEMMA LongestByStep ==
    ASSUME NEW edges, Pairs(edges), NEW node \in Nodes(edges), NEW path \in SUBSET Nodes(edges)
    PROVE  Longest(edges, node, path) =
              IF node \in path THEN 0
              ELSE Max({0} \cup {1 + Longest(edges, n, path \cup {node}) : n \in BlockedBy(edges, node)})
<1> DEFINE L == Longest(edges, node, path)
           T == {0} \cup {1 + Longest(edges, n, path \cup {node}) : n \in BlockedBy(edges, node)}
           C == Cardinality(Nodes(edges))
<1>1. L \in Steps(edges, node, path) /\ L \in 0..C /\ \A y \in Steps(edges, node, path) : L >= y
  BY LongestFacts
<1>2. C \in Nat
  BY NodesAreFinite
<1>3. ASSUME NEW n \in BlockedBy(edges, node) PROVE n \in Nodes(edges)
  <2>1. PICK e \in edges : e[2] = n
    BY <1>3 DEF BlockedBy
  <2>2. PICK a, b : e = <<a, b>>
    BY <2>1 DEF Pairs
  <2> QED
    BY <2>1, <2>2, NodesAreFinite
<1>4. CASE node \in path
  <2>1. L = 0
    BY <1>1, <1>4, StepsFrom
  <2> QED
    BY <1>4, <2>1
<1>5. CASE node \notin path
  <2>1. \A n \in BlockedBy(edges, node) :
           /\ Longest(edges, n, path \cup {node}) \in Steps(edges, n, path \cup {node})
           /\ Longest(edges, n, path \cup {node}) \in 0..C
           /\ \A y \in Steps(edges, n, path \cup {node}) : Longest(edges, n, path \cup {node}) >= y
    BY <1>3, LongestFacts
  <2>2. \A n \in BlockedBy(edges, node) :
           1 + Longest(edges, n, path \cup {node}) \in Steps(edges, node, path)
    BY <2>1, <1>5, StepsTo
  <2>3. 0 \in Steps(edges, node, path)
    BY StepsAreBounded
  <2>4. T \subseteq Steps(edges, node, path)
    BY <2>2, <2>3
  <2>5. L \in T
    <3>1. CASE L = 0
      BY <3>1
    <3>2. CASE L # 0
      <4>1. PICK n \in BlockedBy(edges, node) : L - 1 \in Steps(edges, n, path \cup {node})
        BY <1>1, <3>2, StepsFrom
      <4>2. Longest(edges, n, path \cup {node}) >= L - 1 /\ Longest(edges, n, path \cup {node}) \in 0..C
        BY <2>1, <4>1
      <4>3. L >= 1 + Longest(edges, n, path \cup {node})
        BY <1>1, <2>2
      <4> HIDE DEF L
      <4>4. L = 1 + Longest(edges, n, path \cup {node})
        BY <1>1, <1>2, <4>2, <4>3
      <4> QED
        BY <4>4
    <3> QED
      BY <3>1, <3>2
  <2>6. \A y \in T : L >= y
    BY <1>1, <2>4
  <2>7. T \in SUBSET (0..C) /\ T # {}
    BY <2>4, StepsAreBounded
  <2> HIDE DEF T, L, C
  <2>8. Max(T) = L
    BY <1>2, <2>5, <2>6, <2>7, LargestOf
  <2> QED
    BY <1>5, <2>8 DEF T, L
<1> QED
  BY <1>4, <1>5

\* The table of longest walks is the only one that the search can mean.
LEMMA DepthIsLongest ==
    ASSUME NEW edges, Pairs(edges), NEW start \in Nodes(edges)
    PROVE  BlockingDepth(edges, start) = Longest(edges, start, {})
<1> DEFINE N == Nodes(edges)
           places == N \X SUBSET N
           longest == [p \in places |-> Longest(edges, p[1], p[2])]
           depth == CHOOSE f : IsDepth(edges, f)
<1>1. ASSUME NEW p \in places, NEW n \in BlockedBy(edges, p[1])
      PROVE  <<n, p[2] \cup {p[1]}>> \in places
  <2>1. PICK e \in edges : e[2] = n
    BY <1>1 DEF BlockedBy
  <2>2. PICK a, b : e = <<a, b>>
    BY <2>1 DEF Pairs
  <2>3. n \in N
    BY <2>1, <2>2, NodesAreFinite
  <2> QED
    BY <2>3, <1>1
<1>2. IsDepth(edges, longest)
  <2>1. ASSUME NEW p \in places PROVE Longest(edges, p[1], p[2]) = DepthBy(edges, longest, p)
    <3>1. \A n \in BlockedBy(edges, p[1]) :
             longest[<<n, p[2] \cup {p[1]}>>] = Longest(edges, n, p[2] \cup {p[1]})
      BY <1>1, <2>1
    <3>2. p[1] \in N /\ p[2] \in SUBSET N
      BY <2>1
    <3> HIDE DEF longest
    <3>3. {1 + longest[<<n, p[2] \cup {p[1]}>>] : n \in BlockedBy(edges, p[1])} =
             {1 + Longest(edges, n, p[2] \cup {p[1]}) : n \in BlockedBy(edges, p[1])}
      BY <3>1
    <3>4. Longest(edges, p[1], p[2]) =
             IF p[1] \in p[2] THEN 0
             ELSE Max({0} \cup {1 + Longest(edges, n, p[2] \cup {p[1]}) : n \in BlockedBy(edges, p[1])})
      BY <3>2, LongestByStep
    <3> QED
      BY <3>3, <3>4 DEF DepthBy
  <2>2. longest = [p \in places |-> DepthBy(edges, longest, p)]
    <3>1. longest = [p \in places |-> Longest(edges, p[1], p[2])]
      OBVIOUS
    <3> HIDE DEF longest, places
    <3> QED
      BY <2>1, <3>1
  <2> QED
    BY <2>2 DEF IsDepth
<1>3. IsDepth(edges, depth)
  BY <1>2
<1>4. BlockingDepth(edges, start) = depth[<<start, {}>>]
  BY DEF BlockingDepth, IsDepth, DepthBy, Nodes
<1> HIDE DEF depth
<1>5. \A p \in places : depth[p] = DepthBy(edges, depth, p)
  BY <1>3 DEF IsDepth
<1>6. \A p \in places : longest[p] = DepthBy(edges, longest, p)
  BY <1>2 DEF IsDepth
<1> DEFINE differ == {p \in places : depth[p] # longest[p]}
           left == {Cardinality(N \ p[2]) : p \in differ}
<1>7. IsFiniteSet(N)
  BY NodesAreFinite
<1>8. ASSUME NEW p \in places PROVE IsFiniteSet(N \ p[2]) /\ Cardinality(N \ p[2]) \in Nat
  <2>1. N \ p[2] \in SUBSET N
    OBVIOUS
  <2> QED
    BY <1>7, <2>1, FS_Subset, FS_CardinalityType
<1> HIDE DEF longest
<1>9. ASSUME differ # {} PROVE FALSE
  <2>1. left \in SUBSET Nat /\ left # {}
    BY <1>8, <1>9
  <2>2. PICK m \in left : \A n \in left : m <= n
    BY <2>1, LeastOf
  <2>3. PICK p \in differ : m = Cardinality(N \ p[2])
    BY <2>2
  <2>4. p[1] \notin p[2]
    BY <2>3, <1>5, <1>6 DEF DepthBy
  <2>5. ASSUME NEW n \in BlockedBy(edges, p[1])
        PROVE  depth[<<n, p[2] \cup {p[1]}>>] = longest[<<n, p[2] \cup {p[1]}>>]
    <3> DEFINE q == <<n, p[2] \cup {p[1]}>>
    <3>1. q \in places
      BY <1>1, <2>3
    <3>2. q[2] = p[2] \cup {p[1]}
      OBVIOUS
    <3>3. N \ q[2] = (N \ p[2]) \ {p[1]} /\ p[1] \in N \ p[2]
      BY <2>3, <2>4, <3>2
    <3>4. Cardinality(N \ q[2]) = Cardinality(N \ p[2]) - 1
      <4> DEFINE R == N \ p[2]
      <4>1. IsFiniteSet(R)
        BY <1>8, <2>3
      <4>2. N \ q[2] = R \ {p[1]} /\ p[1] \in R
        BY <3>3
      <4> HIDE DEF R, q
      <4>3. Cardinality(R \ {p[1]}) = Cardinality(R) - 1
        BY <4>1, <4>2, FS_RemoveElement
      <4>4. Cardinality(N \ q[2]) = Cardinality(R) - 1
        BY <4>2, <4>3
      <4> QED
        BY <4>4 DEF R
    <3>5. Cardinality(N \ p[2]) \in Nat
      BY <1>8, <2>3
    <3>6. ~(m <= Cardinality(N \ q[2]))
      BY <3>4, <3>5, <2>3
    <3> HIDE DEF q
    <3>7. q \notin differ
      BY <3>6, <2>2
    <3> QED
      BY <3>1, <3>7 DEF q
  <2>6. {1 + depth[<<n, p[2] \cup {p[1]}>>] : n \in BlockedBy(edges, p[1])} =
           {1 + longest[<<n, p[2] \cup {p[1]}>>] : n \in BlockedBy(edges, p[1])}
    BY <2>5
  <2>7. DepthBy(edges, depth, p) = DepthBy(edges, longest, p)
    BY <2>6 DEF DepthBy
  <2> QED
    BY <2>3, <2>7, <1>5, <1>6
<1>10. <<start, {}>> \in places
  OBVIOUS
<1>11. depth[<<start, {}>>] = longest[<<start, {}>>]
  BY <1>9, <1>10
<1>12. longest[<<start, {}>>] = Longest(edges, start, {})
  BY <1>10 DEF longest
<1> QED
  BY <1>4, <1>11, <1>12

\* The waits of the evidence are finitely many pairs.
LEMMA EdgesArePairs ==
    ASSUME NEW list, Evidence(list)
    PROVE  Pairs(Edges(list))
<1> DEFINE key == "lock_wait.edge"
           saying == {i \in DOMAIN list : \E o \in list[i] : o.key = key}
           f == [i \in saying |-> (CHOOSE o \in list[i] : o.key = key).value]
<1>1. ASSUME NEW i \in DOMAIN list, NEW o \in list[i], o.key = key
      PROVE  i \in saying /\ f[i] = o.value
  <2>1. PICK r \in Rows : r.from # "deltas" /\ list[i] = ObservationsOf(r)
    BY <1>1 DEF Evidence
  <2>2. \A p \in list[i] : p.key = key => p = o
    BY <1>1, <2>1, ObservationFacts
  <2>3. (CHOOSE p \in list[i] : p.key = key) = o
    BY <1>1, <2>2
  <2> QED
    BY <1>1, <2>3
<1>2. \A i \in saying : \E o \in list[i] : o.key = key /\ f[i] = o.value
  BY <1>1
<1>3. Edges(list) = {o.value : o \in Of(list, key)}
  BY DEF Edges
<1>4. ASSUME NEW e \in Edges(list) PROVE \E i \in saying : f[i] = e
  <2>1. PICK o \in Of(list, key) : e = o.value
    BY <1>3, <1>4
  <2>2. PICK i \in DOMAIN list : o \in list[i] /\ o.key = key
    BY <2>1 DEF Of
  <2> QED
    BY <2>1, <2>2, <1>1
<1>5. ASSUME NEW i \in saying PROVE f[i] \in Edges(list)
  <2>1. PICK o \in list[i] : o.key = key /\ f[i] = o.value
    BY <1>2, <1>5
  <2>2. o \in Of(list, key)
    BY <2>1, <1>5 DEF Of
  <2> QED
    BY <1>3, <2>1, <2>2
<1>6. f \in [saying -> Edges(list)]
  BY <1>5
<1>7. f \in Surjection(saying, Edges(list))
  BY <1>4, <1>6 DEF Surjection
<1>8. IsFiniteSet(saying)
  BY FS_Subset DEF Evidence
<1>9. IsFiniteSet(Edges(list))
  BY <1>7, <1>8, FS_Surjection
<1>10. ASSUME NEW e \in Edges(list) PROVE \E a, b : e = <<a, b>>
  <2>1. PICK o \in Of(list, key) : e = o.value
    BY <1>3, <1>10
  <2>2. o.key = key /\ TypedObservation(o)
    BY <2>1, OfFacts
  <2> QED
    BY <2>1, <2>2 DEF TypedObservation
<1> QED
  BY <1>9, <1>10 DEF Pairs

\* The lengths of all walks.
AllSteps(edges) == {0} \cup UNION {Steps(edges, v, {}) : v \in Nodes(edges)}

\* No walk has more steps than there are nodes.
LEMMA AllStepsAreBounded ==
    ASSUME NEW edges, Pairs(edges)
    PROVE  /\ Cardinality(Nodes(edges)) \in Nat
           /\ AllSteps(edges) \in SUBSET (0..Cardinality(Nodes(edges))) /\ AllSteps(edges) # {}
<1>1. Cardinality(Nodes(edges)) \in Nat
  BY NodesAreFinite
<1>2. \A v \in Nodes(edges) : Steps(edges, v, {}) \in SUBSET (0..Cardinality(Nodes(edges)))
  BY StepsAreBounded
<1> QED
  BY <1>1, <1>2 DEF AllSteps

\* They are those of the walks of the reference definition.
LEMMA WalkLengths ==
    ASSUME NEW edges, Pairs(edges)
    PROVE  {Len(w) - 1 : w \in Walks(edges)} = UNION {Steps(edges, v, {}) : v \in Nodes(edges)}
<1> DEFINE N == Nodes(edges)
           C == Cardinality(Nodes(edges))
<1>1. C \in Nat
  BY NodesAreFinite
<1>2. \A w : w \in Walks(edges) <=>
               /\ \E n \in 1..(C + 1) : w \in [1..n -> N]
               /\ \A i \in 1..(Len(w) - 1) : <<w[i], w[i + 1]>> \in edges
               /\ \A i, j \in 1..(Len(w) - 1) : w[i] = w[j] => i = j
  BY DEF Walks, Nodes
<1>3. \A n \in Nat : \A w \in [1..n -> N] : Len(w) = n
  OBVIOUS
<1> HIDE DEF N, C
<1>4. ASSUME NEW w \in Walks(edges) PROVE \E v \in N : Len(w) - 1 \in Steps(edges, v, {})
  <2>1. PICK n \in 1..(C + 1) : w \in [1..n -> N]
    BY <1>2, <1>4
  <2> DEFINE k == n - 1
  <2>2. n \in Nat /\ k \in Nat /\ k + 1 = n /\ 1 \in 1..n
    BY <1>1, <2>1
  <2>3. Len(w) = n /\ w[1] \in N
    BY <1>3, <2>1, <2>2
  <2> HIDE DEF k
  <2>4. w \in [1..(k + 1) -> N]
    BY <2>1, <2>2
  <2>5. Len(w) - 1 = k
    BY <2>2, <2>3
  <2>6. /\ \A i \in 1..k : <<w[i], w[i + 1]>> \in edges
        /\ \A i, j \in 1..k : w[i] = w[j] => i = j
    BY <1>2, <1>4, <2>5
  <2>7. IsWalk(edges, w, k, w[1], {})
    BY <2>4, <2>6 DEF IsWalk, N
  <2>8. Len(w) - 1 \in Steps(edges, w[1], {})
    BY <2>2, <2>5, <2>7 DEF Steps
  <2> QED
    BY <2>3, <2>8
<1>5. ASSUME NEW v \in N, NEW n \in Steps(edges, v, {})
      PROVE  \E w \in Walks(edges) : n = Len(w) - 1
  <2>1. n \in Nat /\ n \in 0..C
    <3>1. v \in Nodes(edges)
      BY DEF N
    <3>2. Steps(edges, v, {}) \in SUBSET (0..C)
      BY <3>1, StepsAreBounded DEF C
    <3> QED
      BY <3>2, <1>5 DEF Steps
  <2>2. PICK w : IsWalk(edges, w, n, v, {})
    BY <1>5 DEF Steps
  <2>3. /\ w \in [1..(n + 1) -> N]
        /\ \A i \in 1..n : <<w[i], w[i + 1]>> \in edges
        /\ \A i, j \in 1..n : w[i] = w[j] => i = j
    BY <2>2 DEF IsWalk, N
  <2>4. n + 1 \in 1..(C + 1) /\ n + 1 \in Nat
    BY <1>1, <2>1
  <2>5. Len(w) = n + 1
    BY <1>3, <2>3, <2>4
  <2>6. Len(w) - 1 = n
    BY <2>1, <2>5
  <2>7. w \in Walks(edges)
    BY <1>2, <2>3, <2>4, <2>6
  <2> QED
    BY <2>6, <2>7
<1>6. {Len(w) - 1 : w \in Walks(edges)} = UNION {Steps(edges, v, {}) : v \in N}
  BY <1>4, <1>5
<1> QED
  BY <1>6 DEF N

\* The search over all that wait finds the most steps of any walk.
LEMMA ChainBySteps ==
    ASSUME NEW list, Evidence(list)
    PROVE  LongestChain(list) = Max(AllSteps(Edges(list)))
<1> DEFINE E == Edges(list)
           C == Cardinality(Nodes(E))
           D == {0} \cup {BlockingDepth(E, e[1]) : e \in E}
           M == Max(AllSteps(E))
<1>1. Pairs(E)
  BY EdgesArePairs
<1>2. LongestChain(list) = Max(D)
  BY DEF LongestChain
<1> HIDE DEF E
<1>3. C \in Nat /\ AllSteps(E) \in SUBSET (0..C) /\ AllSteps(E) # {}
  BY <1>1, AllStepsAreBounded
<1>4. M \in AllSteps(E) /\ \A y \in AllSteps(E) : M >= y
  BY <1>3, LargestOf
<1>5. ASSUME NEW e \in E
      PROVE  /\ e[1] \in Nodes(E) /\ BlockingDepth(E, e[1]) \in Steps(E, e[1], {})
             /\ \A y \in Steps(E, e[1], {}) : BlockingDepth(E, e[1]) >= y
  <2>1. PICK a, b : e = <<a, b>>
    BY <1>1 DEF Pairs
  <2>2. e[1] \in Nodes(E)
    BY <1>1, <2>1, NodesAreFinite
  <2> QED
    BY <1>1, <2>2, DepthIsLongest, LongestFacts
<1>6. D \subseteq AllSteps(E)
  BY <1>5 DEF AllSteps
<1>7. M \in D
  <2>1. CASE M = 0
    BY <2>1
  <2>2. CASE M # 0
    <3>1. PICK v \in Nodes(E) : M \in Steps(E, v, {})
      BY <1>4, <2>2 DEF AllSteps
    <3>2. PICK next \in BlockedBy(E, v) : M - 1 \in Steps(E, next, {} \cup {v})
      BY <1>1, <3>1, <2>2, StepsFrom
    <3>3. PICK e \in E : e[1] = v
      BY <3>2 DEF BlockedBy
    <3>4. BlockingDepth(E, e[1]) >= M /\ BlockingDepth(E, e[1]) \in AllSteps(E)
      BY <3>1, <3>3, <1>5 DEF AllSteps
    <3>5. M >= BlockingDepth(E, e[1])
      BY <1>4, <3>4
    <3>6. \A y \in AllSteps(E) : y \in Int
      BY <1>3
    <3>7. M \in Int /\ BlockingDepth(E, e[1]) \in Int
      BY <1>4, <3>4, <3>6
    <3> HIDE DEF M
    <3>8. M = BlockingDepth(E, e[1])
      BY <3>4, <3>5, <3>7
    <3> QED
      BY <3>8
  <2> QED
    BY <2>1, <2>2
<1>8. D \in SUBSET (0..C) /\ D # {} /\ \A y \in D : M >= y
  BY <1>3, <1>4, <1>6
<1> HIDE DEF D, M, C
<1>9. Max(D) = M
  BY <1>3, <1>7, <1>8, LargestOf
<1> QED
  BY <1>2, <1>9 DEF M, E

\* The chain is the longest walk.
LEMMA ChainFromRows ==
    ASSUME RowsInv
    PROVE  ChainIsLongestWalk
<1> DEFINE list == Current(rows)
<1>1. Evidence(list)
  BY CurrentIsEvidence DEF RowsInv
<1>2. Pairs(Edges(list))
  BY <1>1, EdgesArePairs
<1>3. LongestChain(list) = Max(AllSteps(Edges(list)))
  BY <1>1, ChainBySteps
<1>4. AllSteps(Edges(list)) = {0} \cup {Len(w) - 1 : w \in Walks(Edges(list))}
  BY <1>2, WalkLengths DEF AllSteps
<1> QED
  BY <1>3, <1>4 DEF ChainIsLongestWalk

\* The depth-first search of the blocking-chain rule, which keeps the path it is
\* on, finds the longest chain of waits of any graph, with cycles or without.
THEOREM SearchFindsLongestChain == CollectorsSpec => []ChainIsLongestWalk
<1>1. RowsInv => ChainIsLongestWalk
  BY ChainFromRows
<1> QED
  BY <1>1, RowsArePlausible, PTL

-----------------------------------------------------------------------------
(* More evidence, or worse *)

Ratio == "auto_increment.utilization_ratio"
Rising ==
    {"transaction.age_seconds", "transaction.lock_wait_seconds", "connections.used",
     "replication.active_apply_lag_seconds", "innodb.history_list_length"}

\* Of the same object and key, and not better.
Worsens(o, p) ==
    /\ p.key = o.key /\ p.object = o.object
    /\ o.key \in Rising => p.value >= o.value
    /\ o.key = Ratio => p.value[1] >= o.value[1] /\ p.value[2] = o.value[2]
    /\ o.key \notin Rising \cup {Ratio} => p.value = o.value

\* At every place what was said still is, or something worse.
Grows(list, more) ==
    /\ Evidence(list) /\ Evidence(more) /\ DOMAIN list \subseteq DOMAIN more
    /\ \A i \in DOMAIN list : \A o \in list[i] : \E p \in more[i] : Worsens(o, p)

\* Under each key as well.
LEMMA GrowsOf ==
    ASSUME NEW list, NEW more, Grows(list, more), NEW key, NEW o \in Of(list, key)
    PROVE  \E p \in Of(more, key) : Worsens(o, p)
<1>1. PICK i \in DOMAIN list : o \in list[i] /\ o.key = key
  BY DEF Of
<1>2. PICK p \in more[i] : Worsens(o, p)
  BY <1>1 DEF Grows
<1>3. p \in Of(more, key)
  BY <1>1, <1>2 DEF Of, Worsens, Grows
<1> QED
  BY <1>2, <1>3

\* What is said under a key that does not rise stays.
LEMMA GrowsSaid ==
    ASSUME NEW list, NEW more, Grows(list, more), NEW object, NEW value, value # None,
           NEW key, key \notin LockKeys \cup Rising \cup {Ratio}
    PROVE  /\ Said(list, object, key) = value => Said(more, object, key) = value
           /\ FirstNumber(list, object, key) = value => FirstNumber(more, object, key) = value
<1>1. Evidence(list) /\ Evidence(more)
  BY DEF Grows
<1>2. ASSUME NEW o \in Of(list, key), o.object = object, o.value = value
      PROVE  \E p \in Of(more, key) : p.object = object /\ p.value = value
  <2>1. PICK p \in Of(more, key) : Worsens(o, p)
    BY <1>2, GrowsOf
  <2>2. o.key = key
    BY <1>1, <1>2, OfFacts
  <2> QED
    BY <2>1, <2>2, <1>2 DEF Worsens
<1>3. key \notin LockKeys
  OBVIOUS
<1>4. /\ Said(list, object, key) = value
           <=> \E o \in Of(list, key) : o.object = object /\ o.value = value
      /\ FirstNumber(list, object, key) = value
           <=> \E o \in Of(list, key) : o.object = object /\ o.value = value
  BY <1>1, <1>3, SaidIsObserved
<1>5. /\ Said(more, object, key) = value
           <=> \E o \in Of(more, key) : o.object = object /\ o.value = value
      /\ FirstNumber(more, object, key) = value
           <=> \E o \in Of(more, key) : o.object = object /\ o.value = value
  BY <1>1, <1>3, SaidIsObserved
<1> QED
  BY <1>2, <1>4, <1>5

\* What is kept is kept among more.
LEMMA KeepsAmong ==
    ASSUME NEW found, NEW more, NEW all, Keeps(found, more), more \subseteq all
    PROVE  Keeps(found, all)
BY DEF Keeps

\* A finding that is still there is kept.
LEMMA KeepsItself ==
    ASSUME NEW found, NEW more, found \subseteq more,
           \A f \in found : f.severity \in {"info", "warn", "critical"}
    PROVE  Keeps(found, more)
<1>1. ASSUME NEW f \in found
      PROVE  f \in more /\ f.id = f.id /\ f.object = f.object /\ Rank[f.severity] >= Rank[f.severity]
  <2>1. Rank[f.severity] \in Int
    BY <1>1 DEF Rank
  <2> QED
    BY <2>1, <1>1
<1> QED
  BY <1>1 DEF Keeps

\* A larger value is graded no milder.
LEMMA GradeKeeps ==
    ASSUME NEW id, NEW object, NEW v \in Int, NEW u \in Int, v <= u, NEW warn \in Int, NEW critical \in Int
    PROVE  Keeps(Grade(id, object, v, warn, critical), Grade(id, object, u, warn, critical))
<1> DEFINE C == Finding(id, object, "critical")
           W == Finding(id, object, "warn")
<1>1. /\ C.id = id /\ C.object = object /\ Rank[C.severity] = 3
      /\ W.id = id /\ W.object = object /\ Rank[W.severity] = 2
  BY DEF Finding, Rank
<1>2. \A x \in Int : Grade(id, object, x, warn, critical) =
                        IF x >= critical THEN {C} ELSE IF x >= warn THEN {W} ELSE {}
  BY DEF Grade
<1> HIDE DEF C, W
<1>3. CASE v >= critical
  <2>1. /\ Grade(id, object, v, warn, critical) = {C}
        /\ Grade(id, object, u, warn, critical) = {C}
    BY <1>2, <1>3
  <2> QED
    BY <1>1, <2>1 DEF Keeps
<1>4. CASE ~(v >= critical) /\ v >= warn
  <2>1. /\ Grade(id, object, v, warn, critical) = {W}
        /\ Grade(id, object, u, warn, critical) \in {{C}, {W}}
    BY <1>2, <1>4
  <2> QED
    BY <1>1, <2>1 DEF Keeps
<1>5. CASE ~(v >= critical) /\ ~(v >= warn)
  <2>1. Grade(id, object, v, warn, critical) = {}
    BY <1>2, <1>5
  <2> QED
    BY <2>1 DEF Keeps
<1> QED
  BY <1>3, <1>4, <1>5

\* The values under a key that rises.
LEMMA RisingValues ==
    ASSUME NEW list, NEW more, Grows(list, more), NEW key \in Rising, NEW o \in Of(list, key)
    PROVE  \E p \in Of(more, key) :
              p.object = o.object /\ o.value \in Int /\ p.value \in Int /\ o.value <= p.value
<1>1. PICK p \in Of(more, key) : Worsens(o, p)
  BY GrowsOf
<1>2. /\ o.key = key /\ TypedObservation(o)
      /\ p.key = key /\ TypedObservation(p)
  BY OfFacts DEF Grows
<1>3. key \in Numbers
  BY DEF Rising, Numbers, TransactionKeys, StatusKeys
<1>4. o.value \in Int /\ p.value \in Int
  BY <1>2, <1>3 DEF TypedObservation
<1>5. p.object = o.object /\ p.value >= o.value
  BY <1>1, <1>2 DEF Worsens
<1> QED
  BY <1>4, <1>5

\* Rules that grade each value.
LEMMA EachKeeps ==
    ASSUME NEW list, NEW more, Grows(list, more), NEW key \in Rising, NEW id,
           NEW warn \in Int, NEW critical \in Int
    PROVE  Keeps(Each(list, key, id, warn, critical), Each(more, key, id, warn, critical))
<1>1. ASSUME NEW f \in Each(list, key, id, warn, critical)
      PROVE  \E g \in Each(more, key, id, warn, critical) :
                g.id = f.id /\ g.object = f.object /\ Rank[g.severity] >= Rank[f.severity]
  <2>1. PICK o \in Of(list, key) : f \in Grade(id, o.object, o.value, warn, critical)
    BY <1>1 DEF Each
  <2>2. PICK p \in Of(more, key) :
          p.object = o.object /\ o.value \in Int /\ p.value \in Int /\ o.value <= p.value
    BY RisingValues
  <2>3. Keeps(Grade(id, o.object, o.value, warn, critical), Grade(id, o.object, p.value, warn, critical))
    BY <2>2, GradeKeeps
  <2>4. Grade(id, o.object, p.value, warn, critical) \subseteq Each(more, key, id, warn, critical)
    BY <2>2 DEF Each
  <2> QED
    BY <2>1, <2>3, <2>4 DEF Keeps
<1> QED
  BY <1>1 DEF Keeps

\* Rules that grade each value, all for one object.
AllOfOne(list, key, id, object, warn, critical) ==
    UNION {Grade(id, object, o.value, warn, critical) : o \in Of(list, key)}

\* They keep their findings too.
LEMMA AllOfOneKeeps ==
    ASSUME NEW list, NEW more, Grows(list, more), NEW key \in Rising, NEW id, NEW object,
           NEW warn \in Int, NEW critical \in Int
    PROVE  Keeps(AllOfOne(list, key, id, object, warn, critical),
                 AllOfOne(more, key, id, object, warn, critical))
<1>1. ASSUME NEW f \in AllOfOne(list, key, id, object, warn, critical)
      PROVE  \E g \in AllOfOne(more, key, id, object, warn, critical) :
                g.id = f.id /\ g.object = f.object /\ Rank[g.severity] >= Rank[f.severity]
  <2>1. PICK o \in Of(list, key) : f \in Grade(id, object, o.value, warn, critical)
    BY <1>1 DEF AllOfOne
  <2>2. PICK p \in Of(more, key) : o.value \in Int /\ p.value \in Int /\ o.value <= p.value
    BY RisingValues
  <2>3. Keeps(Grade(id, object, o.value, warn, critical), Grade(id, object, p.value, warn, critical))
    BY <2>2, GradeKeeps
  <2>4. Grade(id, object, p.value, warn, critical) \subseteq AllOfOne(more, key, id, object, warn, critical)
    BY <2>2 DEF AllOfOne
  <2> QED
    BY <2>1, <2>3, <2>4 DEF Keeps
<1> QED
  BY <1>1 DEF Keeps

\* The four rules that are of these kinds.
LEMMA GradedRulesKeep ==
    ASSUME NEW list, NEW more, Grows(list, more)
    PROVE  /\ Keeps(LongTransaction(list), LongTransaction(more))
           /\ Keeps(LockWaitLong(list), LockWaitLong(more))
           /\ Keeps(PurgeLag(list), PurgeLag(more))
           /\ Keeps(ReplicationApplyLag(list), ReplicationApplyLag(more))
<1>1. /\ "transaction.age_seconds" \in Rising /\ "transaction.lock_wait_seconds" \in Rising
      /\ "innodb.history_list_length" \in Rising /\ "replication.active_apply_lag_seconds" \in Rising
  BY DEF Rising
<1>2. Keeps(LongTransaction(list), LongTransaction(more))
  <2> DEFINE Long(l) == AllOfOne(l, "transaction.age_seconds", "long_transaction",
                                 <<"transaction_class", "long-running">>, 300, 1800)
  <2>1. LongTransaction(list) = Long(list) /\ LongTransaction(more) = Long(more)
    BY DEF LongTransaction, AllOfOne
  <2>2. Keeps(Long(list), Long(more))
    BY <1>1, AllOfOneKeeps
  <2> QED
    BY <2>1, <2>2
<1>3. Keeps(LockWaitLong(list), LockWaitLong(more))
  <2> DEFINE Long(l) == AllOfOne(l, "transaction.lock_wait_seconds", "lock_wait_long",
                                 <<"transaction_class", "long-lock-wait">>, 30, 50)
  <2>1. LockWaitLong(list) = Long(list) /\ LockWaitLong(more) = Long(more)
    BY DEF LockWaitLong, AllOfOne
  <2>2. Keeps(Long(list), Long(more))
    BY <1>1, AllOfOneKeeps
  <2> QED
    BY <2>1, <2>2
<1>4. Keeps(PurgeLag(list), PurgeLag(more))
  BY <1>1, EachKeeps DEF PurgeLag
<1>5. Keeps(ReplicationApplyLag(list), ReplicationApplyLag(more))
  BY <1>1, EachKeeps DEF ReplicationApplyLag
<1> QED
  BY <1>2, <1>3, <1>4, <1>5

\* An error is still an error, a missing key still missing.
LEMMA NamedRulesKeep ==
    ASSUME NEW list, NEW more, Grows(list, more)
    PROVE  /\ Keeps(ReplicationError(list), ReplicationError(more))
           /\ Keeps(MissingPrimaryKey(list), MissingPrimaryKey(more))
<1>1. ASSUME NEW key, key \notin Rising \cup {Ratio}, NEW o \in Of(list, key)
      PROVE  \E p \in Of(more, key) : p.object = o.object /\ p.value = o.value
  <2>1. PICK p \in Of(more, key) : Worsens(o, p)
    BY GrowsOf
  <2>2. o.key = key
    BY OfFacts DEF Grows
  <2> QED
    BY <2>1, <2>2, <1>1 DEF Worsens
<1>2. Keeps(ReplicationError(list), ReplicationError(more))
  <2>1. "replication.error_code" \notin Rising \cup {Ratio}
    BY DEF Rising, Ratio
  <2>2. ReplicationError(list) \subseteq ReplicationError(more)
    <3>1. ASSUME NEW f \in ReplicationError(list) PROVE f \in ReplicationError(more)
      <4>1. PICK o \in Of(list, "replication.error_code") :
              o.value # 0 /\ f = Finding("replication_error", o.object, "critical")
        BY <3>1 DEF ReplicationError
      <4>2. PICK p \in Of(more, "replication.error_code") : p.object = o.object /\ p.value = o.value
        BY <1>1, <2>1
      <4> QED
        BY <4>1, <4>2 DEF ReplicationError
    <3> QED
      BY <3>1
  <2>3. \A f \in ReplicationError(list) : f.severity = "critical"
    BY DEF ReplicationError, Finding
  <2> QED
    BY <2>2, <2>3, KeepsItself
<1>3. Keeps(MissingPrimaryKey(list), MissingPrimaryKey(more))
  <2>1. "table.primary_key_present" \notin Rising \cup {Ratio}
    BY DEF Rising, Ratio
  <2>2. MissingPrimaryKey(list) \subseteq MissingPrimaryKey(more)
    <3>1. ASSUME NEW f \in MissingPrimaryKey(list) PROVE f \in MissingPrimaryKey(more)
      <4>1. PICK o \in Of(list, "table.primary_key_present") :
              ~o.value /\ f = Finding("missing_primary_key", o.object, "warn")
        BY <3>1 DEF MissingPrimaryKey
      <4>2. PICK p \in Of(more, "table.primary_key_present") : p.object = o.object /\ p.value = o.value
        BY <1>1, <2>1
      <4> QED
        BY <4>1, <4>2 DEF MissingPrimaryKey
    <3> QED
      BY <3>1
  <2>3. \A f \in MissingPrimaryKey(list) : f.severity = "warn"
    BY DEF MissingPrimaryKey, Finding
  <2> QED
    BY <2>2, <2>3, KeepsItself
<1> QED
  BY <1>2, <1>3

\* A column's next value rises towards a bound that stays.
LEMMA AutoIncrementKeeps ==
    ASSUME NEW list, NEW more, Grows(list, more)
    PROVE  Keeps(AutoIncrementExhaustion(list), AutoIncrementExhaustion(more))
<1> DEFINE id == "auto_increment_exhaustion"
<1>1. ASSUME NEW f \in AutoIncrementExhaustion(list)
      PROVE  \E g \in AutoIncrementExhaustion(more) :
                g.id = f.id /\ g.object = f.object /\ Rank[g.severity] >= Rank[f.severity]
  <2>1. PICK o \in Of(list, Ratio) :
          f \in Grade(id, o.object, 100 * o.value[1], 80 * o.value[2], 95 * o.value[2])
    BY <1>1 DEF AutoIncrementExhaustion, Ratio
  <2>2. PICK p \in Of(more, Ratio) : Worsens(o, p)
    BY GrowsOf
  <2>3. o.key = Ratio /\ TypedObservation(o) /\ p.key = Ratio /\ TypedObservation(p)
    BY OfFacts DEF Grows
  <2>4. o.value[1] \in Int /\ o.value[2] \in Int /\ p.value[1] \in Int /\ p.value[2] \in Int
    BY <2>3 DEF TypedObservation, Ratio
  <2>5. p.object = o.object /\ o.value[1] <= p.value[1] /\ p.value[2] = o.value[2]
    BY <2>2, <2>3, <2>4 DEF Worsens
  <2>6. /\ 100 * o.value[1] \in Int /\ 100 * p.value[1] \in Int
        /\ 100 * o.value[1] <= 100 * p.value[1]
        /\ 80 * o.value[2] \in Int /\ 95 * o.value[2] \in Int
    BY <2>4, <2>5
  <2>7. Keeps(Grade(id, o.object, 100 * o.value[1], 80 * o.value[2], 95 * o.value[2]),
              Grade(id, o.object, 100 * p.value[1], 80 * o.value[2], 95 * o.value[2]))
    BY <2>6, GradeKeeps
  <2>8. Grade(id, p.object, 100 * p.value[1], 80 * p.value[2], 95 * p.value[2])
          \subseteq AutoIncrementExhaustion(more)
    BY DEF AutoIncrementExhaustion, Ratio
  <2>9. Grade(id, o.object, 100 * p.value[1], 80 * o.value[2], 95 * o.value[2])
          \subseteq AutoIncrementExhaustion(more)
    BY <2>5, <2>8
  <2> QED
    BY <2>1, <2>7, <2>9 DEF Keeps
<1> QED
  BY <1>1 DEF Keeps

\* More connections of the same limit.
LEMMA ConnectionsKeep ==
    ASSUME NEW list, NEW more, Grows(list, more)
    PROVE  Keeps(ConnectionSaturation(list), ConnectionSaturation(more))
<1> DEFINE id == "connection_saturation"
           used == Said(list, Instance, "connections.used")
           limit == Said(list, Instance, "connections.limit")
           usedMore == Said(more, Instance, "connections.used")
           limitMore == Said(more, Instance, "connections.limit")
<1> SUFFICES ASSUME ConnectionSaturation(list) # {}
             PROVE  Keeps(ConnectionSaturation(list), ConnectionSaturation(more))
  BY DEF Keeps
<1>1. /\ used # None /\ limit # None /\ ~(limit <= 0 \/ used < 0)
      /\ ConnectionSaturation(list) = Grade(id, Instance, 100 * used, 85 * limit, 95 * limit)
  BY DEF ConnectionSaturation
<1>2. "connections.limit" \notin LockKeys \cup Rising \cup {Ratio} /\ "connections.used" \notin LockKeys
  BY DEF LockKeys, Rising, Ratio
<1>3. limitMore = limit
  BY <1>1, <1>2, GrowsSaid
<1>4. PICK o \in Of(list, "connections.used") : o.object = Instance /\ o.value = used
  BY <1>1, <1>2, SaidIsObserved DEF Grows
<1>5. PICK p \in Of(more, "connections.used") :
        p.object = o.object /\ o.value \in Int /\ p.value \in Int /\ o.value <= p.value
  BY RisingValues DEF Rising
<1>6. usedMore = p.value
  BY <1>2, <1>4, <1>5, SaidOnce DEF Grows
<1>7. limit \in Int
  <2>1. PICK q \in Of(list, "connections.limit") : q.object = Instance /\ q.value = limit
    BY <1>1, <1>2, SaidIsObserved DEF Grows
  <2>2. q.key = "connections.limit" /\ TypedObservation(q)
    BY <2>1, OfFacts DEF Grows
  <2> QED
    BY <2>1, <2>2 DEF TypedObservation, Numbers, StatusKeys
<1>8. used \in Int /\ usedMore \in Int /\ used <= usedMore
  BY <1>4, <1>5, <1>6
<1>9. None \notin Int
  BY CollectorsAssumption
<1>10. ConnectionSaturation(more) =
         IF usedMore = None \/ limitMore = None THEN {}
         ELSE IF limitMore <= 0 \/ usedMore < 0 THEN {}
         ELSE Grade(id, Instance, 100 * usedMore, 85 * limitMore, 95 * limitMore)
  BY DEF ConnectionSaturation
<1> HIDE DEF used, limit, usedMore, limitMore
<1>11. ConnectionSaturation(more) = Grade(id, Instance, 100 * usedMore, 85 * limit, 95 * limit)
  <2>1. usedMore # None /\ limitMore # None
    BY <1>3, <1>7, <1>8, <1>9
  <2>2. ~(limitMore <= 0 \/ usedMore < 0)
    BY <1>1, <1>3, <1>7, <1>8
  <2> QED
    BY <1>3, <1>10, <2>1, <2>2
<1>12. /\ 100 * used \in Int /\ 100 * usedMore \in Int /\ 100 * used <= 100 * usedMore
       /\ 85 * limit \in Int /\ 95 * limit \in Int
  BY <1>7, <1>8
<1>13. Keeps(Grade(id, Instance, 100 * used, 85 * limit, 95 * limit),
             Grade(id, Instance, 100 * usedMore, 85 * limit, 95 * limit))
  BY <1>12, GradeKeeps
<1> QED
  BY <1>1, <1>11, <1>13

\* There are no fewer waits for a table.
LEMMA WaitsGrow ==
    ASSUME NEW list, NEW more, Grows(list, more), NEW object
    PROVE  /\ Cardinality(Places(list, object, "lock_wait.count")) \in Nat
           /\ Cardinality(Places(more, object, "lock_wait.count")) \in Nat
           /\ Cardinality(Places(list, object, "lock_wait.count"))
                <= Cardinality(Places(more, object, "lock_wait.count"))
<1> DEFINE S == Places(list, object, "lock_wait.count")
           T == Places(more, object, "lock_wait.count")
<1>1. S \subseteq T
  <2>1. ASSUME NEW i \in S PROVE i \in T
    <3>1. PICK o \in list[i] : o.object = object /\ o.key = "lock_wait.count"
      BY <2>1 DEF Places
    <3>2. i \in DOMAIN list /\ i \in DOMAIN more
      BY <2>1 DEF Places, Grows
    <3>3. PICK p \in more[i] : Worsens(o, p)
      BY <3>2 DEF Grows
    <3> QED
      BY <3>1, <3>2, <3>3 DEF Places, Worsens
  <2> QED
    BY <2>1
<1>2. T \in SUBSET DOMAIN more /\ IsFiniteSet(DOMAIN more)
  BY DEF Places, Grows, Evidence
<1>3. IsFiniteSet(T)
  BY <1>2, FS_Subset
<1> HIDE DEF S, T
<1>4. IsFiniteSet(S) /\ Cardinality(S) <= Cardinality(T)
  BY <1>1, <1>3, FS_Subset
<1>5. Cardinality(S) \in Nat /\ Cardinality(T) \in Nat
  BY <1>3, <1>4, FS_CardinalityType
<1> QED
  BY <1>4, <1>5 DEF S, T

\* More waits for the same table.
LEMMA ContentionKeeps ==
    ASSUME NEW list, NEW more, Grows(list, more)
    PROVE  Keeps(LockContention(list), LockContention(more))
<1> DEFINE id == "lock_wait_contention"
           Waits(l, t) == Cardinality(Places(l, t, "lock_wait.count"))
           Tables(l) == {o.object : o \in Of(l, "lock_wait.count")} \ {Instance}
<1>1. /\ LockContention(list) = UNION {Grade(id, t, Waits(list, t), 3, 10) : t \in Tables(list)}
      /\ LockContention(more) = UNION {Grade(id, t, Waits(more, t), 3, 10) : t \in Tables(more)}
  BY DEF LockContention
<1>2. \A t : Waits(list, t) \in Int /\ Waits(more, t) \in Int /\ Waits(list, t) <= Waits(more, t)
  BY WaitsGrow
<1>3. Tables(list) \subseteq Tables(more)
  <2>1. \A o \in Of(list, "lock_wait.count") : \E p \in Of(more, "lock_wait.count") : p.object = o.object
    BY GrowsOf DEF Worsens
  <2> QED
    BY <2>1
<1> HIDE DEF Waits, Tables
<1>4. ASSUME NEW f \in LockContention(list)
      PROVE  \E g \in LockContention(more) :
                g.id = f.id /\ g.object = f.object /\ Rank[g.severity] >= Rank[f.severity]
  <2>1. PICK t \in Tables(list) : f \in Grade(id, t, Waits(list, t), 3, 10)
    BY <1>1, <1>4
  <2>2. Keeps(Grade(id, t, Waits(list, t), 3, 10), Grade(id, t, Waits(more, t), 3, 10))
    BY <1>2, GradeKeeps
  <2>3. Grade(id, t, Waits(more, t), 3, 10) \subseteq LockContention(more)
    BY <1>1, <1>3
  <2> QED
    BY <2>1, <2>2, <2>3 DEF Keeps
<1> QED
  BY <1>4 DEF Keeps

\* With more waits a chain is no shorter.
LEMMA ChainKeeps ==
    ASSUME NEW list, NEW more, Grows(list, more)
    PROVE  Keeps(BlockingChain(list), BlockingChain(more))
<1> DEFINE E == Edges(list)
           F == Edges(more)
<1>1. E \subseteq F
  <2>1. ASSUME NEW o \in Of(list, "lock_wait.edge")
        PROVE  \E p \in Of(more, "lock_wait.edge") : p.value = o.value
    <3>1. PICK p \in Of(more, "lock_wait.edge") : Worsens(o, p)
      BY GrowsOf
    <3>2. o.key = "lock_wait.edge"
      BY OfFacts DEF Grows
    <3> QED
      BY <3>1, <3>2 DEF Worsens, Rising, Ratio
  <2> QED
    BY <2>1 DEF Edges
<1>2. /\ Pairs(E) /\ LongestChain(list) = Max(AllSteps(E))
      /\ Pairs(F) /\ LongestChain(more) = Max(AllSteps(F))
  BY EdgesArePairs, ChainBySteps DEF Grows
<1> HIDE DEF E, F
<1>3. Nodes(E) \subseteq Nodes(F)
  BY <1>1 DEF Nodes
<1>4. AllSteps(E) \subseteq AllSteps(F)
  <2>1. ASSUME NEW v \in Nodes(E), NEW n \in Steps(E, v, {}) PROVE n \in Steps(F, v, {})
    <3>1. n \in Nat
      BY <2>1 DEF Steps
    <3>2. PICK w : IsWalk(E, w, n, v, {})
      BY <2>1 DEF Steps
    <3>3. /\ w \in [1..(n + 1) -> Nodes(E)] /\ w[1] = v
          /\ \A i \in 1..n : <<w[i], w[i + 1]>> \in E
          /\ \A i, j \in 1..n : w[i] = w[j] => i = j
      BY <3>2 DEF IsWalk
    <3>4. w \in [1..(n + 1) -> Nodes(F)]
      BY <3>3, <1>3
    <3>5. IsWalk(F, w, n, v, {})
      BY <3>3, <3>4, <1>1 DEF IsWalk
    <3> QED
      BY <3>1, <3>5 DEF Steps
  <2> QED
    BY <2>1, <1>3 DEF AllSteps
<1> DEFINE v == Max(AllSteps(E))
           u == Max(AllSteps(F))
           m == Cardinality(Nodes(E))
           n == Cardinality(Nodes(F))
<1>5. /\ m \in Nat /\ AllSteps(E) \in SUBSET (0..m) /\ AllSteps(E) # {}
      /\ n \in Nat /\ AllSteps(F) \in SUBSET (0..n) /\ AllSteps(F) # {}
  BY <1>2, AllStepsAreBounded
<1>6. /\ v \in AllSteps(E)
      /\ u \in AllSteps(F) /\ \A y \in AllSteps(F) : u >= y
  BY <1>5, LargestOf
<1> HIDE DEF v, u, m, n
<1>7. v \in Int /\ u \in Int /\ v <= u
  <2>1. v \in 0..m /\ u \in 0..n
    BY <1>5, <1>6
  <2>2. u >= v
    BY <1>4, <1>6
  <2> QED
    BY <2>1, <2>2, <1>5
<1>8. Keeps(Grade("blocking_chain", <<"lock_graph", "blocking-chain">>, v, 2, 3),
            Grade("blocking_chain", <<"lock_graph", "blocking-chain">>, u, 2, 3))
  BY <1>7, GradeKeeps
<1>9. LongestChain(list) = v /\ LongestChain(more) = u
  BY <1>2 DEF v, u
<1> QED
  BY <1>8, <1>9 DEF BlockingChain

\* What is said of an index stays.
LEMMA IndexGrows ==
    ASSUME NEW list, NEW more, Grows(list, more), NEW x \in Indexes(list)
    PROVE  /\ x \in Indexes(more)
           /\ \A key \in IndexKeys : Said(more, x, key) = Said(list, x, key)
<1>1. \A key \in IndexKeys : key \notin LockKeys \cup Rising \cup {Ratio}
  BY DEF IndexKeys, LockKeys, Rising, Ratio
<1>2. ASSUME NEW key \in IndexKeys
      PROVE  \E o \in Of(list, key), p \in Of(more, key) :
                o.object = x /\ p.object = x /\ p.value = o.value
  <2>1. PICK o \in Of(list, key) : o.object = x
    BY IndexFacts DEF Grows
  <2>2. PICK p \in Of(more, key) : Worsens(o, p)
    BY <2>1, GrowsOf
  <2>3. o.key = key
    BY <2>1, OfFacts DEF Grows
  <2> QED
    BY <2>1, <2>2, <2>3, <1>1 DEF Worsens
<1>3. ASSUME NEW key \in IndexKeys PROVE Said(more, x, key) = Said(list, x, key)
  <2>1. PICK o \in Of(list, key), p \in Of(more, key) :
                o.object = x /\ p.object = x /\ p.value = o.value
    BY <1>2
  <2>2. Said(list, x, key) = o.value
    BY <2>1, <1>1, SaidOnce DEF Grows
  <2>3. Said(more, x, key) = p.value
    BY <2>1, <1>1, SaidOnce DEF Grows
  <2> QED
    BY <2>1, <2>2, <2>3
<1>4. x \in Indexes(more)
  BY <1>2 DEF Indexes, IndexKeys
<1> QED
  BY <1>3, <1>4

\* An index that is unused, or redundant, still is.
LEMMA IndexRulesKeep ==
    ASSUME NEW list, NEW more, Grows(list, more)
    PROVE  /\ Keeps(UnusedIndex(list), UnusedIndex(more))
           /\ Keeps(RedundantIndex(list), RedundantIndex(more))
<1>1. ASSUME NEW x \in Indexes(list)
      PROVE  /\ x \in Indexes(more)
             /\ Said(more, x, "index.reads") = Said(list, x, "index.reads")
             /\ Said(more, x, "index.table") = Said(list, x, "index.table")
             /\ Said(more, x, "index.signature") = Said(list, x, "index.signature")
             /\ Secondary(list, x) => Secondary(more, x)
  <2>1. /\ x \in Indexes(more)
        /\ \A key \in IndexKeys : Said(more, x, key) = Said(list, x, key)
    BY IndexGrows
  <2>2. {"index.reads", "index.table", "index.signature", "index.unique", "index.primary"} \subseteq IndexKeys
    BY DEF IndexKeys
  <2> QED
    BY <2>1, <2>2 DEF Secondary
<1>2. RedundantIndex(list) \subseteq RedundantIndex(more)
  <2>1. ASSUME NEW f \in RedundantIndex(list) PROVE f \in RedundantIndex(more)
    <3>1. PICK j \in Indexes(list) : /\ f = Finding("redundant_index", j, "info")
                                     /\ Secondary(list, j)
                                     /\ \E k \in Indexes(list) \ {j} : Covers(list, k, j)
      BY <2>1 DEF RedundantIndex
    <3>2. PICK k \in Indexes(list) \ {j} : Covers(list, k, j)
      BY <3>1
    <3>3. Covers(more, k, j)
      BY <3>2, <1>1 DEF Covers
    <3>4. j \in Indexes(more) /\ k \in Indexes(more) \ {j} /\ Secondary(more, j)
      BY <3>1, <3>2, <1>1
    <3> QED
      BY <3>1, <3>3, <3>4 DEF RedundantIndex
  <2> QED
    BY <2>1
<1>3. UnusedIndex(list) \subseteq UnusedIndex(more)
  <2> DEFINE uptime == FirstNumber(list, Instance, "server.uptime_seconds")
  <2>1. ASSUME NEW f \in UnusedIndex(list) PROVE f \in UnusedIndex(more)
    <3>1. uptime # None
      BY <2>1 DEF UnusedIndex
    <3>2. PICK j \in Indexes(list) : /\ f = Finding("unused_index", j, "info")
                                     /\ uptime >= 3600
                                     /\ Said(list, j, "index.reads") = 0
                                     /\ Secondary(list, j)
      BY <2>1, <3>1 DEF UnusedIndex
    <3>3. "server.uptime_seconds" \notin LockKeys \cup Rising \cup {Ratio}
      BY DEF LockKeys, Rising, Ratio
    <3>4. FirstNumber(more, Instance, "server.uptime_seconds") = uptime
      BY <3>1, <3>3, GrowsSaid
    <3>5. j \in Indexes(more) /\ Said(more, j, "index.reads") = 0 /\ Secondary(more, j)
      BY <3>2, <1>1
    <3> HIDE DEF uptime
    <3> QED
      BY <3>1, <3>2, <3>4, <3>5 DEF UnusedIndex
  <2> QED
    BY <2>1
<1>4. /\ \A f \in RedundantIndex(list) : f.severity = "info"
      /\ \A f \in UnusedIndex(list) : f.severity = "info"
  BY DEF RedundantIndex, UnusedIndex, Finding
<1> QED
  BY <1>2, <1>3, <1>4, KeepsItself

\* A channel that is stopped still is, as long as nothing else is said of
\* channels.
LEMMA StoppedKeeps ==
    ASSUME NEW list, NEW more, Evidence(list), Evidence(more),
           Of(more, "replication.receiver_state") = Of(list, "replication.receiver_state"),
           Of(more, "replication.applier_state") = Of(list, "replication.applier_state")
    PROVE  ReplicationStopped(more) = ReplicationStopped(list)
<1> DEFINE Stopped(l) == {d \in ChannelsOf(l) : ~(/\ Runs(l, d, "replication.receiver_state")
                                                  /\ Runs(l, d, "replication.applier_state"))}
<1>1. \A l : ReplicationStopped(l) = {Finding("replication_stopped", c, "critical") : c \in Stopped(l)}
  BY DEF ReplicationStopped, Runs, ChannelsOf
<1>2. ChannelsOf(more) = ChannelsOf(list)
  BY DEF ChannelsOf
<1>3. /\ "replication.receiver_state" \notin LockKeys
      /\ "replication.applier_state" \notin LockKeys
  BY DEF LockKeys
<1>4. \A d : /\ Said(more, d, "replication.receiver_state") = Said(list, d, "replication.receiver_state")
             /\ Said(more, d, "replication.applier_state") = Said(list, d, "replication.applier_state")
  BY <1>3, SaidSame
<1>5. \A d : /\ Runs(more, d, "replication.receiver_state") <=> Runs(list, d, "replication.receiver_state")
             /\ Runs(more, d, "replication.applier_state") <=> Runs(list, d, "replication.applier_state")
  BY <1>4 DEF Runs
<1>6. Stopped(more) = Stopped(list)
  BY <1>2, <1>5 DEF Runs
<1> HIDE DEF Stopped
<1> QED
  BY <1>1, <1>6

-----------------------------------------------------------------------------
(* Larger deltas *)

\* Deltas that Worse leaves as they are: what bad ones are a share of.
Shared == {"query.calls", "query.rows_sent", "buffer_pool.read_requests"}

DeltaEvidence(deltas) ==
    /\ DOMAIN deltas \subseteq Nat
    /\ \A i \in DOMAIN deltas : deltas[i].delta \in Int /\ deltas[i].window \in Int
    /\ \A i, j \in DOMAIN deltas :
          deltas[i].key = deltas[j].key /\ deltas[i].object = deltas[j].object => i = j

DeltasGrow(deltas, more) ==
    /\ DeltaEvidence(deltas) /\ DeltaEvidence(more) /\ DOMAIN deltas \subseteq DOMAIN more
    /\ \A i \in DOMAIN deltas :
          /\ more[i].key = deltas[i].key /\ more[i].object = deltas[i].object
          /\ more[i].window = deltas[i].window /\ deltas[i].delta <= more[i].delta
          /\ deltas[i].key \in Shared => more[i].delta = deltas[i].delta

\* The deltas of plausible rows are evidence.
LEMMA DeltasAreEvidence ==
    ASSUME NEW list, Plausible(list)
    PROVE  DeltaEvidence(Deltas(list))
<1> DEFINE places == RowsOf(list, "deltas")
<1>1. list \in Seq(Rows)
  BY DEF Plausible
<1>2. DOMAIN Deltas(list) = places /\ \A i \in places : Deltas(list)[i] = list[i]
  BY DEF Deltas
<1>3. places \subseteq Nat
  BY <1>1, RowsOfFacts
<1>4. ASSUME NEW i \in places
      PROVE  /\ i \in DOMAIN list /\ list[i].from = "deltas" /\ list[i] \in Rows
             /\ list[i].delta \in Int /\ list[i].window \in Int
  <2>1. i \in DOMAIN list /\ list[i].from = "deltas"
    BY <1>4 DEF RowsOf
  <2>2. list[i] \in Rows
    BY <1>1, <2>1
  <2> QED
    BY <2>1, <2>2, RowKinds
<1> HIDE DEF places
<1>5. ASSUME NEW i \in places, NEW j \in places, list[i].key = list[j].key,
             list[i].object = list[j].object, i # j
      PROVE  FALSE
  <2>1. AreAboutDifferentObjects(list[i], list[j])
    BY <1>4, <1>5 DEF Plausible
  <2> QED
    BY <1>4, <1>5, <2>1 DEF AreAboutDifferentObjects
<1> QED
  BY <1>2, <1>3, <1>4, <1>5 DEF DeltaEvidence

\* A delta is that of its row, for no two rows are of one key and object.
LEMMA DeltaOnce ==
    ASSUME NEW deltas, DeltaEvidence(deltas), NEW i \in DOMAIN deltas
    PROVE  Delta(deltas, deltas[i].object, deltas[i].key) = deltas[i].delta
<1>1. Counts(deltas, deltas[i].object, deltas[i].key) = {i}
  BY DEF Counts, DeltaEvidence
<1>2. Max({i}) = i
  <2>1. i \in Nat
    BY DEF DeltaEvidence
  <2> QED
    BY <2>1 DEF Max
<1>3. {i} # {}
  OBVIOUS
<1> QED
  BY <1>1, <1>2, <1>3 DEF Delta

\* A delta that is there is that of some row.
LEMMA DeltaIsThere ==
    ASSUME NEW deltas, DeltaEvidence(deltas), NEW object, NEW key, Delta(deltas, object, key) # None
    PROVE  \E i \in DOMAIN deltas :
              /\ deltas[i].object = object /\ deltas[i].key = key
              /\ Delta(deltas, object, key) = deltas[i].delta
<1>1. Counts(deltas, object, key) # {}
  BY DEF Delta
<1>2. PICK i \in DOMAIN deltas : deltas[i].object = object /\ deltas[i].key = key
  BY <1>1 DEF Counts
<1> QED
  BY <1>2, DeltaOnce

\* It is still there, and no smaller.
LEMMA DeltaGrows ==
    ASSUME NEW deltas, NEW more, DeltasGrow(deltas, more), NEW object, NEW key,
           Delta(deltas, object, key) # None
    PROVE  /\ Delta(deltas, object, key) \in Int /\ Delta(more, object, key) \in Int
           /\ Delta(more, object, key) # None
           /\ Delta(deltas, object, key) <= Delta(more, object, key)
           /\ key \in Shared => Delta(more, object, key) = Delta(deltas, object, key)
<1>1. DeltaEvidence(deltas) /\ DeltaEvidence(more)
  BY DEF DeltasGrow
<1>2. PICK i \in DOMAIN deltas :
        /\ deltas[i].object = object /\ deltas[i].key = key
        /\ Delta(deltas, object, key) = deltas[i].delta
  BY <1>1, DeltaIsThere
<1>3. /\ i \in DOMAIN more /\ more[i].object = object /\ more[i].key = key
      /\ deltas[i].delta <= more[i].delta
      /\ key \in Shared => more[i].delta = deltas[i].delta
  BY <1>2 DEF DeltasGrow
<1>4. Delta(more, object, key) = more[i].delta
  BY <1>1, <1>3, DeltaOnce
<1>5. deltas[i].delta \in Int /\ more[i].delta \in Int
  BY <1>1, <1>2, <1>3 DEF DeltaEvidence
<1>6. None \notin Int
  BY CollectorsAssumption
<1> QED
  BY <1>2, <1>3, <1>4, <1>5, <1>6

\* The objects that have deltas.
LEMMA GroupsGrow ==
    ASSUME NEW deltas, NEW more, DeltasGrow(deltas, more)
    PROVE  Grouped(deltas) \subseteq Grouped(more)
<1>1. \A i \in DOMAIN deltas : i \in DOMAIN more /\ more[i].object = deltas[i].object
  BY DEF DeltasGrow
<1> QED
  BY <1>1 DEF Grouped

\* Rules that count.
LEMMA CountedKeeps ==
    ASSUME NEW deltas, NEW more, DeltasGrow(deltas, more), NEW key, NEW id,
           NEW warn \in Int, NEW critical \in Int
    PROVE  Keeps(Counted(deltas, key, id, warn, critical), Counted(more, key, id, warn, critical))
<1> DEFINE Body(d, g) == IF Delta(d, g, key) = None THEN {}
                         ELSE Grade(id, g, Delta(d, g, key), warn, critical)
<1>1. \A d : Counted(d, key, id, warn, critical) = UNION {Body(d, g) : g \in Grouped(d)}
  BY DEF Counted
<1>2. Grouped(deltas) \subseteq Grouped(more)
  BY GroupsGrow
<1>3. ASSUME NEW g, NEW f \in Body(deltas, g)
      PROVE  \E h \in Body(more, g) :
                h.id = f.id /\ h.object = f.object /\ Rank[h.severity] >= Rank[f.severity]
  <2>1. Delta(deltas, g, key) # None /\ f \in Grade(id, g, Delta(deltas, g, key), warn, critical)
    BY <1>3
  <2>2. /\ Delta(deltas, g, key) \in Int /\ Delta(more, g, key) \in Int
        /\ Delta(more, g, key) # None /\ Delta(deltas, g, key) <= Delta(more, g, key)
    BY <2>1, DeltaGrows
  <2>3. Keeps(Grade(id, g, Delta(deltas, g, key), warn, critical),
              Grade(id, g, Delta(more, g, key), warn, critical))
    BY <2>2, GradeKeeps
  <2>4. Body(more, g) = Grade(id, g, Delta(more, g, key), warn, critical)
    BY <2>2
  <2> HIDE DEF Body
  <2> QED
    BY <2>1, <2>3, <2>4 DEF Keeps
<1> HIDE DEF Body
<1>4. ASSUME NEW f \in UNION {Body(deltas, g) : g \in Grouped(deltas)}
      PROVE  \E h \in UNION {Body(more, g) : g \in Grouped(more)} :
                h.id = f.id /\ h.object = f.object /\ Rank[h.severity] >= Rank[f.severity]
  <2>1. PICK g \in Grouped(deltas) : f \in Body(deltas, g)
    BY <1>4
  <2>2. PICK h \in Body(more, g) : h.id = f.id /\ h.object = f.object /\ Rank[h.severity] >= Rank[f.severity]
    BY <1>3, <2>1
  <2> QED
    BY <2>1, <2>2, <1>2
<1>5. Keeps(UNION {Body(deltas, g) : g \in Grouped(deltas)}, UNION {Body(more, g) : g \in Grouped(more)})
  BY <1>4 DEF Keeps
<1> QED
  BY <1>1, <1>5

\* Rules over a share of a query's calls.
LEMMA OfCallsKeeps ==
    ASSUME NEW deltas, NEW more, DeltasGrow(deltas, more), NEW key, NEW id,
           NEW least \in Int, NEW warn \in Int, NEW critical \in Int
    PROVE  Keeps(OfCalls(deltas, key, id, least, warn, critical),
                 OfCalls(more, key, id, least, warn, critical))
<1> DEFINE Calls(d, g) == Delta(d, g, "query.calls")
           Bad(d, g) == Delta(d, g, key)
           Graded(d, g) == Grade(id, g, 100 * Bad(d, g), warn * Calls(d, g), critical * Calls(d, g))
           Body(d, g) == IF Calls(d, g) = None \/ Bad(d, g) = None THEN {}
                         ELSE IF Calls(d, g) < 10 \/ Bad(d, g) < least THEN {}
                         ELSE Graded(d, g)
<1>1. \A d : OfCalls(d, key, id, least, warn, critical) = UNION {Body(d, g) : g \in Grouped(d)}
  BY DEF OfCalls
<1>2. Grouped(deltas) \subseteq Grouped(more)
  BY GroupsGrow
<1>3. ASSUME NEW g, NEW f \in Body(deltas, g)
      PROVE  \E h \in Body(more, g) :
                h.id = f.id /\ h.object = f.object /\ Rank[h.severity] >= Rank[f.severity]
  <2>1. /\ Calls(deltas, g) # None /\ Bad(deltas, g) # None
        /\ ~(Calls(deltas, g) < 10 \/ Bad(deltas, g) < least)
        /\ f \in Graded(deltas, g)
    BY <1>3
  <2>2. /\ Calls(deltas, g) \in Int /\ Calls(more, g) # None /\ Calls(more, g) = Calls(deltas, g)
    BY <2>1, DeltaGrows DEF Shared
  <2>3. /\ Bad(deltas, g) \in Int /\ Bad(more, g) \in Int /\ Bad(more, g) # None
        /\ Bad(deltas, g) <= Bad(more, g)
    BY <2>1, DeltaGrows
  <2> HIDE DEF Calls, Bad
  <2>4. Body(more, g) = Graded(more, g)
    BY <2>1, <2>2, <2>3
  <2> DEFINE c == Calls(deltas, g)
             w == warn * c
             k == critical * c
  <2>5. w \in Int /\ k \in Int
    BY <2>2
  <2>6. /\ 100 * Bad(deltas, g) \in Int /\ 100 * Bad(more, g) \in Int
        /\ 100 * Bad(deltas, g) <= 100 * Bad(more, g)
    BY <2>3
  <2>7. /\ Graded(deltas, g) = Grade(id, g, 100 * Bad(deltas, g), w, k)
        /\ Graded(more, g) = Grade(id, g, 100 * Bad(more, g), w, k)
    BY <2>2
  <2> HIDE DEF w, k, c, Graded, Body
  <2>8. Keeps(Graded(deltas, g), Graded(more, g))
    BY <2>5, <2>6, <2>7, GradeKeeps
  <2> QED
    BY <2>1, <2>4, <2>8 DEF Keeps
<1> HIDE DEF Body
<1>4. ASSUME NEW f \in UNION {Body(deltas, g) : g \in Grouped(deltas)}
      PROVE  \E h \in UNION {Body(more, g) : g \in Grouped(more)} :
                h.id = f.id /\ h.object = f.object /\ Rank[h.severity] >= Rank[f.severity]
  <2>1. PICK g \in Grouped(deltas) : f \in Body(deltas, g)
    BY <1>4
  <2>2. PICK h \in Body(more, g) : h.id = f.id /\ h.object = f.object /\ Rank[h.severity] >= Rank[f.severity]
    BY <1>3, <2>1
  <2> QED
    BY <2>1, <2>2, <1>2
<1>5. Keeps(UNION {Body(deltas, g) : g \in Grouped(deltas)}, UNION {Body(more, g) : g \in Grouped(more)})
  BY <1>4 DEF Keeps
<1> QED
  BY <1>1, <1>5

\* Any share that is found is a warning.
LEMMA FullScanKeeps ==
    ASSUME NEW deltas, NEW more, DeltasGrow(deltas, more)
    PROVE  Keeps(QueryFullScan(deltas), QueryFullScan(more))
<1> DEFINE Found(d) == OfCalls(d, "query.no_index_used", "query_full_scan_heavy", 5, 50, 50)
<1>1. \A d : QueryFullScan(d) = {Finding("query_full_scan_heavy", f.object, "warn") : f \in Found(d)}
  BY DEF QueryFullScan
<1>2. Keeps(Found(deltas), Found(more))
  BY OfCallsKeeps
<1> HIDE DEF Found
<1>3. \A f \in Found(deltas) : \E g \in Found(more) : g.object = f.object
  BY <1>2 DEF Keeps
<1>4. QueryFullScan(deltas) \subseteq QueryFullScan(more)
  BY <1>1, <1>3
<1>5. \A f \in QueryFullScan(deltas) : f.severity = "warn"
  BY <1>1 DEF Finding
<1> QED
  BY <1>4, <1>5, KeepsItself

\* The larger of two numbers is a number.
LEMMA LargerOfTwo ==
    ASSUME NEW a \in Int, NEW b \in Int
    PROVE  Max({a, b}) \in Int
<1>1. \E x \in {a, b} : \A y \in {a, b} : x >= y
  OBVIOUS
<1>2. Max({a, b}) \in {a, b}
  BY <1>1 DEF Max
<1> QED
  BY <1>2

\* More rows examined for as many rows sent.
LEMMA AmplificationKeeps ==
    ASSUME NEW deltas, NEW more, DeltasGrow(deltas, more)
    PROVE  Keeps(QueryAmplification(deltas), QueryAmplification(more))
<1> DEFINE id == "query_rows_examined_amplification"
           Examined(d, g) == Delta(d, g, "query.rows_examined")
           Sent(d, g) == Delta(d, g, "query.rows_sent")
           Graded(d, g) == Grade(id, g, Examined(d, g), 100 * Max({Sent(d, g), 1}), 1000 * Max({Sent(d, g), 1}))
           Body(d, g) == IF Examined(d, g) = None \/ Sent(d, g) = None THEN {}
                         ELSE IF Examined(d, g) < 10000 THEN {}
                         ELSE Graded(d, g)
<1>1. \A d : QueryAmplification(d) = UNION {Body(d, g) : g \in Grouped(d)}
  BY DEF QueryAmplification
<1>2. Grouped(deltas) \subseteq Grouped(more)
  BY GroupsGrow
<1>3. ASSUME NEW g, NEW f \in Body(deltas, g)
      PROVE  \E h \in Body(more, g) :
                h.id = f.id /\ h.object = f.object /\ Rank[h.severity] >= Rank[f.severity]
  <2>1. /\ Examined(deltas, g) # None /\ Sent(deltas, g) # None
        /\ ~(Examined(deltas, g) < 10000) /\ f \in Graded(deltas, g)
    BY <1>3
  <2>2. Sent(deltas, g) \in Int /\ Sent(more, g) # None /\ Sent(more, g) = Sent(deltas, g)
    BY <2>1, DeltaGrows DEF Shared
  <2>3. /\ Examined(deltas, g) \in Int /\ Examined(more, g) \in Int /\ Examined(more, g) # None
        /\ Examined(deltas, g) <= Examined(more, g)
    BY <2>1, DeltaGrows
  <2> HIDE DEF Examined, Sent
  <2>4. Body(more, g) = Graded(more, g)
    BY <2>1, <2>2, <2>3
  <2> DEFINE m == Max({Sent(deltas, g), 1})
             w == 100 * m
             k == 1000 * m
  <2>5. m \in Int
    BY <2>2, LargerOfTwo
  <2>6. /\ Graded(deltas, g) = Grade(id, g, Examined(deltas, g), w, k)
        /\ Graded(more, g) = Grade(id, g, Examined(more, g), w, k)
    BY <2>2
  <2> HIDE DEF m
  <2>7. w \in Int /\ k \in Int
    BY <2>5
  <2> HIDE DEF w, k, Graded, Body
  <2>8. Keeps(Graded(deltas, g), Graded(more, g))
    BY <2>3, <2>6, <2>7, GradeKeeps
  <2> QED
    BY <2>1, <2>4, <2>8 DEF Keeps
<1> HIDE DEF Body
<1>4. ASSUME NEW f \in UNION {Body(deltas, g) : g \in Grouped(deltas)}
      PROVE  \E h \in UNION {Body(more, g) : g \in Grouped(more)} :
                h.id = f.id /\ h.object = f.object /\ Rank[h.severity] >= Rank[f.severity]
  <2>1. PICK g \in Grouped(deltas) : f \in Body(deltas, g)
    BY <1>4
  <2>2. PICK h \in Body(more, g) : h.id = f.id /\ h.object = f.object /\ Rank[h.severity] >= Rank[f.severity]
    BY <1>3, <2>1
  <2> QED
    BY <2>1, <2>2, <1>2
<1>5. Keeps(UNION {Body(deltas, g) : g \in Grouped(deltas)}, UNION {Body(more, g) : g \in Grouped(more)})
  BY <1>4 DEF Keeps
<1> QED
  BY <1>1, <1>5

\* More reads for as many requests.
LEMMA BufferPoolKeeps ==
    ASSUME NEW deltas, NEW more, DeltasGrow(deltas, more)
    PROVE  Keeps(BufferPoolHit(deltas), BufferPoolHit(more))
<1> DEFINE id == "buffer_pool_hit_low"
           Requests(d, g) == Delta(d, g, "buffer_pool.read_requests")
           Reads(d, g) == Delta(d, g, "buffer_pool.reads")
           Graded(d, g) == Grade(id, g, 20 * Reads(d, g), Requests(d, g) + 1, 6 * Requests(d, g) + 1)
           Body(d, g) == IF Requests(d, g) = None \/ Reads(d, g) = None THEN {}
                         ELSE IF Requests(d, g) < 1000 THEN {}
                         ELSE Graded(d, g)
<1>1. \A d : BufferPoolHit(d) = UNION {Body(d, g) : g \in Grouped(d)}
  BY DEF BufferPoolHit
<1>2. Grouped(deltas) \subseteq Grouped(more)
  BY GroupsGrow
<1>3. ASSUME NEW g, NEW f \in Body(deltas, g)
      PROVE  \E h \in Body(more, g) :
                h.id = f.id /\ h.object = f.object /\ Rank[h.severity] >= Rank[f.severity]
  <2>1. /\ Requests(deltas, g) # None /\ Reads(deltas, g) # None
        /\ ~(Requests(deltas, g) < 1000) /\ f \in Graded(deltas, g)
    BY <1>3
  <2>2. Requests(deltas, g) \in Int /\ Requests(more, g) # None /\ Requests(more, g) = Requests(deltas, g)
    BY <2>1, DeltaGrows DEF Shared
  <2>3. /\ Reads(deltas, g) \in Int /\ Reads(more, g) \in Int /\ Reads(more, g) # None
        /\ Reads(deltas, g) <= Reads(more, g)
    BY <2>1, DeltaGrows
  <2> HIDE DEF Requests, Reads
  <2>4. Body(more, g) = Graded(more, g)
    BY <2>1, <2>2, <2>3
  <2> DEFINE w == Requests(deltas, g) + 1
             k == 6 * Requests(deltas, g) + 1
  <2>5. w \in Int /\ k \in Int
    BY <2>2
  <2>6. /\ 20 * Reads(deltas, g) \in Int /\ 20 * Reads(more, g) \in Int
        /\ 20 * Reads(deltas, g) <= 20 * Reads(more, g)
    BY <2>3
  <2>7. /\ Graded(deltas, g) = Grade(id, g, 20 * Reads(deltas, g), w, k)
        /\ Graded(more, g) = Grade(id, g, 20 * Reads(more, g), w, k)
    BY <2>2
  <2> HIDE DEF w, k, Graded, Body
  <2>8. Keeps(Graded(deltas, g), Graded(more, g))
    BY <2>5, <2>6, <2>7, GradeKeeps
  <2> QED
    BY <2>1, <2>4, <2>8 DEF Keeps
<1> HIDE DEF Body
<1>4. ASSUME NEW f \in UNION {Body(deltas, g) : g \in Grouped(deltas)}
      PROVE  \E h \in UNION {Body(more, g) : g \in Grouped(more)} :
                h.id = f.id /\ h.object = f.object /\ Rank[h.severity] >= Rank[f.severity]
  <2>1. PICK g \in Grouped(deltas) : f \in Body(deltas, g)
    BY <1>4
  <2>2. PICK h \in Body(more, g) : h.id = f.id /\ h.object = f.object /\ Rank[h.severity] >= Rank[f.severity]
    BY <1>3, <2>1
  <2> QED
    BY <2>1, <2>2, <1>2
<1>5. Keeps(UNION {Body(deltas, g) : g \in Grouped(deltas)}, UNION {Body(more, g) : g \in Grouped(more)})
  BY <1>4 DEF Keeps
<1> QED
  BY <1>1, <1>5

\* More time for as many calls and in as long a window.
LEMMA TotalTimeKeeps ==
    ASSUME NEW deltas, NEW more, DeltasGrow(deltas, more)
    PROVE  Keeps(QueryHighTotalTime(deltas), QueryHighTotalTime(more))
<1> DEFINE id == "query_high_total_time"
           Calls(d, i) == Delta(d, d[i].object, "query.calls")
           Graded(d, i) == Grade(id, d[i].object, 2 * d[i].delta, 1000 * d[i].window, 4000 * d[i].window)
           Body(d, i) ==
               IF d[i].key # "query.total_latency_ms" \/ d[i].window <= 0 \/ d[i].delta < 1000 THEN {}
               ELSE IF Calls(d, i) = None THEN {}
               ELSE IF Calls(d, i) < 5 THEN {}
               ELSE Graded(d, i)
<1>1. \A d : QueryHighTotalTime(d) = UNION {Body(d, i) : i \in DOMAIN d}
  BY DEF QueryHighTotalTime
<1>2. ASSUME NEW i \in DOMAIN deltas, NEW f \in Body(deltas, i)
      PROVE  \E h \in Body(more, i) :
                h.id = f.id /\ h.object = f.object /\ Rank[h.severity] >= Rank[f.severity]
  <2>1. /\ deltas[i].key = "query.total_latency_ms" /\ ~(deltas[i].window <= 0)
        /\ ~(deltas[i].delta < 1000) /\ Calls(deltas, i) # None
        /\ ~(Calls(deltas, i) < 5) /\ f \in Graded(deltas, i)
    BY <1>2
  <2>2. /\ i \in DOMAIN more
        /\ more[i].key = deltas[i].key /\ more[i].object = deltas[i].object
        /\ more[i].window = deltas[i].window /\ deltas[i].delta <= more[i].delta
    BY <1>2 DEF DeltasGrow
  <2>3. deltas[i].delta \in Int /\ more[i].delta \in Int /\ deltas[i].window \in Int
    BY <1>2, <2>2 DEF DeltasGrow, DeltaEvidence
  <2>4. Calls(more, i) # None /\ Calls(more, i) = Calls(deltas, i)
    <3>1. /\ Delta(more, deltas[i].object, "query.calls") # None
          /\ Delta(more, deltas[i].object, "query.calls") = Delta(deltas, deltas[i].object, "query.calls")
      BY <2>1, DeltaGrows DEF Shared
    <3> QED
      BY <2>2, <3>1
  <2> HIDE DEF Calls
  <2>5. Body(more, i) = Graded(more, i)
    BY <2>1, <2>2, <2>3, <2>4
  <2> DEFINE w == 1000 * deltas[i].window
             k == 4000 * deltas[i].window
  <2>6. w \in Int /\ k \in Int
    BY <2>3
  <2>7. /\ 2 * deltas[i].delta \in Int /\ 2 * more[i].delta \in Int
        /\ 2 * deltas[i].delta <= 2 * more[i].delta
    BY <2>2, <2>3
  <2>8. /\ Graded(deltas, i) = Grade(id, deltas[i].object, 2 * deltas[i].delta, w, k)
        /\ Graded(more, i) = Grade(id, deltas[i].object, 2 * more[i].delta, w, k)
    BY <2>2
  <2> HIDE DEF w, k, Graded, Body
  <2>9. Keeps(Graded(deltas, i), Graded(more, i))
    BY <2>6, <2>7, <2>8, GradeKeeps
  <2> QED
    BY <2>1, <2>5, <2>9 DEF Keeps
<1> HIDE DEF Body
<1>3. DOMAIN deltas \subseteq DOMAIN more
  BY DEF DeltasGrow
<1>4. ASSUME NEW f \in UNION {Body(deltas, i) : i \in DOMAIN deltas}
      PROVE  \E h \in UNION {Body(more, i) : i \in DOMAIN more} :
                h.id = f.id /\ h.object = f.object /\ Rank[h.severity] >= Rank[f.severity]
  <2>1. PICK i \in DOMAIN deltas : f \in Body(deltas, i)
    BY <1>4
  <2>2. PICK h \in Body(more, i) : h.id = f.id /\ h.object = f.object /\ Rank[h.severity] >= Rank[f.severity]
    BY <1>2, <2>1
  <2> QED
    BY <2>1, <2>2, <1>3
<1>5. Keeps(UNION {Body(deltas, i) : i \in DOMAIN deltas}, UNION {Body(more, i) : i \in DOMAIN more})
  BY <1>4 DEF Keeps
<1> QED
  BY <1>1, <1>5

\* More rows scanned of a table of the same size.
LEMMA FullScanTableKeeps ==
    ASSUME NEW deltas, NEW more, DeltasGrow(deltas, more), NEW list, NEW longer, Grows(list, longer)
    PROVE  Keeps(FullScanHeavyTable(list, deltas), FullScanHeavyTable(longer, more))
<1> DEFINE Found(d) == Counted(d, "table.full_scan_rows", "full_scan_heavy_table", 100000, 1000000)
           Large(l, x) == IF FirstNumber(l, x, "table.estimated_rows") = None THEN FALSE
                          ELSE FirstNumber(l, x, "table.estimated_rows") >= 1000
<1>1. \A l, d : FullScanHeavyTable(l, d) = {f \in Found(d) : Large(l, f.object)}
  BY DEF FullScanHeavyTable
<1>2. Keeps(Found(deltas), Found(more))
  BY CountedKeeps
<1>3. ASSUME NEW x, Large(list, x) PROVE Large(longer, x)
  <2> DEFINE estimate == FirstNumber(list, x, "table.estimated_rows")
  <2>1. estimate # None /\ estimate >= 1000
    BY <1>3
  <2>2. "table.estimated_rows" \notin LockKeys \cup Rising \cup {Ratio}
    BY DEF LockKeys, Rising, Ratio
  <2>3. FirstNumber(longer, x, "table.estimated_rows") = estimate
    BY <2>1, <2>2, GrowsSaid
  <2> QED
    BY <2>1, <2>3
<1> HIDE DEF Found, Large
<1>4. ASSUME NEW f \in FullScanHeavyTable(list, deltas)
      PROVE  \E g \in FullScanHeavyTable(longer, more) :
                g.id = f.id /\ g.object = f.object /\ Rank[g.severity] >= Rank[f.severity]
  <2>1. f \in Found(deltas) /\ Large(list, f.object)
    BY <1>1, <1>4
  <2>2. PICK g \in Found(more) :
          g.id = f.id /\ g.object = f.object /\ Rank[g.severity] >= Rank[f.severity]
    BY <1>2, <2>1 DEF Keeps
  <2>3. Large(longer, g.object)
    BY <1>3, <2>1, <2>2
  <2> QED
    BY <1>1, <2>2, <2>3
<1> QED
  BY <1>4 DEF Keeps

-----------------------------------------------------------------------------
(* All rules together *)

\* All rules but the one for stopped channels.
Others(list, deltas) ==
    UNION {ConnectionSaturation(list),
           LongTransaction(list), QueryFullScan(deltas), QueryAmplification(deltas),
           UnusedIndex(list), RedundantIndex(list), BufferPoolHit(deltas),
           ReplicationError(list), LockContention(list),
           MissingPrimaryKey(list), AutoIncrementExhaustion(list), NoGoodIndex(deltas),
           DiskTempTable(deltas), RedoPressure(deltas), DeadlockRate(deltas),
           FullScanHeavyTable(list, deltas), QueryHighTotalTime(deltas),
           LockWaitLong(list), BlockingChain(list),
           ReplicationApplyLag(list), PurgeLag(list)}

\* The findings are theirs and those of stopped channels.
LEMMA FindingsAreOthers ==
    ASSUME NEW list
    PROVE  FindingsOf(list) =
               Others(Current(list), Deltas(list)) \cup ReplicationStopped(Current(list))
BY DEF FindingsOf, Others

\* What keeps some findings and keeps others keeps both.
LEMMA KeepsBoth ==
    ASSUME NEW A, NEW B, NEW C, NEW D, Keeps(A, C), Keeps(B, D)
    PROVE  Keeps(A \cup B, C \cup D)
BY DEF Keeps

\* The other rules keep what they found.
LEMMA OthersKeep ==
    ASSUME NEW list, NEW more, Grows(list, more), NEW deltas, NEW larger, DeltasGrow(deltas, larger)
    PROVE  Keeps(Others(list, deltas), Others(more, larger))
<1> DEFINE After == Others(more, larger)
<1>1. /\ ConnectionSaturation(more) \subseteq After /\ LongTransaction(more) \subseteq After
      /\ QueryFullScan(larger) \subseteq After /\ QueryAmplification(larger) \subseteq After
      /\ UnusedIndex(more) \subseteq After /\ RedundantIndex(more) \subseteq After
      /\ BufferPoolHit(larger) \subseteq After /\ ReplicationError(more) \subseteq After
      /\ LockContention(more) \subseteq After /\ MissingPrimaryKey(more) \subseteq After
      /\ AutoIncrementExhaustion(more) \subseteq After /\ NoGoodIndex(larger) \subseteq After
      /\ DiskTempTable(larger) \subseteq After /\ RedoPressure(larger) \subseteq After
      /\ DeadlockRate(larger) \subseteq After /\ FullScanHeavyTable(more, larger) \subseteq After
      /\ QueryHighTotalTime(larger) \subseteq After /\ LockWaitLong(more) \subseteq After
      /\ BlockingChain(more) \subseteq After /\ ReplicationApplyLag(more) \subseteq After
      /\ PurgeLag(more) \subseteq After
  BY DEF Others
<1> HIDE DEF After
<1>2. /\ Keeps(ConnectionSaturation(list), After) /\ Keeps(LockContention(list), After)
      /\ Keeps(AutoIncrementExhaustion(list), After) /\ Keeps(BlockingChain(list), After)
  BY <1>1, ConnectionsKeep, ContentionKeeps, AutoIncrementKeeps, ChainKeeps, KeepsAmong
<1>3. /\ Keeps(LongTransaction(list), After) /\ Keeps(LockWaitLong(list), After)
      /\ Keeps(PurgeLag(list), After) /\ Keeps(ReplicationApplyLag(list), After)
  BY <1>1, GradedRulesKeep, KeepsAmong
<1>4. /\ Keeps(ReplicationError(list), After) /\ Keeps(MissingPrimaryKey(list), After)
      /\ Keeps(UnusedIndex(list), After) /\ Keeps(RedundantIndex(list), After)
  BY <1>1, NamedRulesKeep, IndexRulesKeep, KeepsAmong
<1>5. /\ Keeps(QueryFullScan(deltas), After) /\ Keeps(QueryAmplification(deltas), After)
      /\ Keeps(BufferPoolHit(deltas), After) /\ Keeps(QueryHighTotalTime(deltas), After)
      /\ Keeps(FullScanHeavyTable(list, deltas), After)
  BY <1>1, FullScanKeeps, AmplificationKeeps, BufferPoolKeeps, TotalTimeKeeps, FullScanTableKeeps,
     KeepsAmong
<1>6. Keeps(NoGoodIndex(deltas), After) /\ Keeps(DiskTempTable(deltas), After)
  <2>1. Keeps(NoGoodIndex(deltas), NoGoodIndex(larger))
    BY OfCallsKeeps DEF NoGoodIndex
  <2>2. Keeps(DiskTempTable(deltas), DiskTempTable(larger))
    BY OfCallsKeeps DEF DiskTempTable
  <2> QED
    BY <1>1, <2>1, <2>2, KeepsAmong
<1>7. Keeps(RedoPressure(deltas), After) /\ Keeps(DeadlockRate(deltas), After)
  <2>1. Keeps(RedoPressure(deltas), RedoPressure(larger))
    BY CountedKeeps DEF RedoPressure
  <2>2. Keeps(DeadlockRate(deltas), DeadlockRate(larger))
    BY CountedKeeps DEF DeadlockRate
  <2> QED
    BY <1>1, <2>1, <2>2, KeepsAmong
<1>8. ASSUME NEW f \in Others(list, deltas)
      PROVE  \E g \in After : g.id = f.id /\ g.object = f.object /\ Rank[g.severity] >= Rank[f.severity]
  <2>1. \E set : f \in set /\ Keeps(set, After)
    BY <1>2, <1>3, <1>4, <1>5, <1>6, <1>7, <1>8 DEF Others
  <2> QED
    BY <2>1 DEF Keeps
<1> QED
  BY <1>8 DEF Keeps, After

\* An observation is not better than itself.
LEMMA WorsensItself ==
    ASSUME NEW o, TypedObservation(o)
    PROVE  Worsens(o, o)
<1>1. Rising \subseteq Numbers
  BY DEF Rising, Numbers, TransactionKeys, StatusKeys
<1>2. o.key \in Rising => o.value >= o.value
  BY <1>1 DEF TypedObservation
<1>3. o.key = Ratio => o.value[1] >= o.value[1]
  BY DEF TypedObservation, Ratio
<1> QED
  BY <1>2, <1>3 DEF Worsens

\* The first places stay the first when later ones are added.
LEMMA FirstGrows ==
    ASSUME NEW S \in SUBSET Nat, NEW n \in Nat, \A i \in S : i < n, NEW k
    PROVE  First(S, k) \subseteq First(S \cup {n}, k)
<1>1. ASSUME NEW i \in S PROVE {j \in S \cup {n} : j <= i} = {j \in S : j <= i}
  <2>1. i < n /\ i \in Nat
    BY <1>1
  <2>2. ~(n <= i)
    BY <2>1
  <2> QED
    BY <2>2
<1>2. ASSUME NEW i \in First(S, k) PROVE i \in First(S \cup {n}, k)
  <2>1. i \in S /\ Cardinality({j \in S : j <= i}) <= k
    BY <1>2 DEF First
  <2>2. {j \in S \cup {n} : j <= i} = {j \in S : j <= i}
    BY <1>1, <2>1
  <2>3. Cardinality({j \in S \cup {n} : j <= i}) <= k
    BY <2>1, <2>2
  <2> QED
    BY <2>1, <2>3 DEF First
<1> QED
  BY <1>2

\* A row more adds to the evidence.
LEMMA OneMoreRowGrows ==
    ASSUME NEW list, Plausible(list), NEW r \in Rows, Plausible(Append(list, r))
    PROVE  /\ Grows(Current(list), Current(Append(list, r)))
           /\ DeltasGrow(Deltas(list), Deltas(Append(list, r)))
<1> DEFINE more == Append(list, r)
           n == Len(list) + 1
<1>1. list \in Seq(Rows) /\ more \in Seq(Rows)
  BY DEF Plausible
<1>2. /\ n \in Nat /\ DOMAIN more = DOMAIN list \cup {n}
      /\ \A i \in DOMAIN list : i \in Nat /\ i < n /\ more[i] = list[i]
  BY <1>1
<1> HIDE DEF more, n
<1>3. ASSUME NEW c PROVE RowsOf(list, c) \subseteq RowsOf(more, c)
  BY <1>2 DEF RowsOf
<1>4. ASSUME NEW c \in Snapshots PROVE Kept(list, c) \subseteq Kept(more, c)
  <2> DEFINE S == RowsOf(list, c)
             T == RowsOf(more, c)
  <2>1. S \in SUBSET Nat /\ \A i \in S : i < n
    BY <1>2 DEF RowsOf
  <2>2. T = S \/ T = S \cup {n}
    BY <1>2 DEF RowsOf
  <2>3. Kept(list, c) = First(S, Limits[c]) /\ Kept(more, c) = First(T, Limits[c])
    BY <1>1, KeptFacts
  <2> HIDE DEF S, T
  <2>4. First(S, Limits[c]) \subseteq First(S \cup {n}, Limits[c])
    BY <1>2, <2>1, FirstGrows
  <2> QED
    BY <2>2, <2>3, <2>4
<1>5. ASSUME NEW i \in DOMAIN Current(list)
      PROVE  i \in DOMAIN Current(more) /\ Current(more)[i] = Current(list)[i]
  <2>1. /\ i \in DOMAIN list /\ list[i].from \in Snapshots /\ i \in Kept(list, list[i].from)
        /\ Current(list)[i] = ObservationsOf(list[i])
    BY <1>1, CurrentPlaces
  <2>2. i \in DOMAIN more /\ more[i] = list[i] /\ i \in Kept(more, more[i].from)
    BY <2>1, <1>2, <1>4
  <2>3. i \in DOMAIN Current(more)
    BY <1>1, <2>1, <2>2, CurrentPlaces
  <2>4. Current(more)[i] = ObservationsOf(more[i])
    BY <1>1, <2>3, CurrentPlaces
  <2> QED
    BY <2>1, <2>2, <2>3, <2>4
<1>6. Evidence(Current(list)) /\ Evidence(Current(more))
  BY CurrentIsEvidence DEF more
<1>7. ASSUME NEW i \in DOMAIN Current(list), NEW o \in Current(list)[i]
      PROVE  o \in Current(more)[i] /\ Worsens(o, o)
  <2>1. o \in Of(Current(list), o.key)
    BY <1>7 DEF Of
  <2>2. TypedObservation(o)
    BY <1>6, <2>1, OfFacts
  <2> QED
    BY <2>2, <1>5, <1>7, WorsensItself
<1>8. Grows(Current(list), Current(more))
  BY <1>5, <1>6, <1>7 DEF Grows
<1>9. DeltasGrow(Deltas(list), Deltas(more))
  <2>1. DeltaEvidence(Deltas(list)) /\ DeltaEvidence(Deltas(more))
    BY DeltasAreEvidence DEF more
  <2>2. /\ DOMAIN Deltas(list) = RowsOf(list, "deltas")
        /\ DOMAIN Deltas(more) = RowsOf(more, "deltas")
    BY DEF Deltas
  <2>3. ASSUME NEW i \in DOMAIN Deltas(list)
        PROVE  i \in DOMAIN Deltas(more) /\ Deltas(more)[i] = Deltas(list)[i] /\ Deltas(list)[i].delta \in Int
    <3>1. i \in RowsOf(list, "deltas") /\ i \in RowsOf(more, "deltas") /\ i \in DOMAIN list
      BY <1>3, <2>2, <2>3 DEF RowsOf
    <3>2. Deltas(more)[i] = more[i] /\ Deltas(list)[i] = list[i]
      BY <3>1 DEF Deltas
    <3>3. Deltas(list)[i].delta \in Int
      BY <2>1, <2>3 DEF DeltaEvidence
    <3> QED
      BY <1>2, <2>2, <3>1, <3>2, <3>3
  <2>4. \A i \in DOMAIN Deltas(list) : Deltas(list)[i].delta <= Deltas(more)[i].delta
    BY <2>3
  <2> QED
    BY <2>1, <2>3, <2>4 DEF DeltasGrow
<1> QED
  BY <1>8, <1>9 DEF more

\* One more row keeps every finding but those of stopped channels.
LEMMA SurvivesOneMoreRow ==
    ASSUME RowsInv, RowsInv', NEW r \in server.rows, OneMoreRow(r)
    PROVE  Keeps({f \in FindingsOf(rows) : f.id # "replication_stopped"}, FindingsOf(rows'))
<1>1. rows' = Append(rows, r) /\ Plausible(rows) /\ Plausible(rows')
  BY DEF OneMoreRow, RowsInv
<1>2. r \in Rows
  BY CollectorsAssumption DEF RowsInv
<1>3. /\ Grows(Current(rows), Current(Append(rows, r)))
      /\ DeltasGrow(Deltas(rows), Deltas(Append(rows, r)))
  BY <1>1, <1>2, OneMoreRowGrows
<1>4. Keeps(Others(Current(rows), Deltas(rows)),
            Others(Current(Append(rows, r)), Deltas(Append(rows, r))))
  BY <1>3, OthersKeep
<1>5. \A f \in ReplicationStopped(Current(rows)) : f.id = "replication_stopped"
  BY DEF ReplicationStopped, Finding
<1>6. {f \in FindingsOf(rows) : f.id # "replication_stopped"} \subseteq Others(Current(rows), Deltas(rows))
  BY <1>5, FindingsAreOthers
<1>7. Others(Current(Append(rows, r)), Deltas(Append(rows, r))) \subseteq FindingsOf(Append(rows, r))
  BY FindingsAreOthers
<1> QED
  BY <1>1, <1>4, <1>6, <1>7 DEF Keeps

\* With one more row or delta no rule loses a finding or makes it milder, but the
\* one for replication, which takes a state that was not seen for a stopped one.
THEOREM FindingsSurvive == CollectorsSpec => FindingsSurviveMoreEvidence
<1>1. RowsInv /\ RowsInv' /\ [CollectorsNext]_collectorsVars
        => [Keeps({f \in FindingsOf(rows) : f.id # "replication_stopped"}, FindingsOf(rows'))]_collectorsVars
  BY SurvivesOneMoreRow DEF CollectorsNext
<1> QED
  BY <1>1, RowsArePlausible, PTL DEF CollectorsSpec, FindingsSurviveMoreEvidence

-----------------------------------------------------------------------------
(* Worse rows *)

\* What a worse row says, in place of the other.
WorseRow(r, w) ==
    /\ w \in Rows /\ w.from = r.from /\ r.from \notin {"locks", "replication"}
    /\ r.from = "deltas" =>
          /\ w.key = r.key /\ w.object = r.object /\ w.window = r.window
          /\ r.delta <= w.delta /\ r.key \notin Shared
    /\ r.from # "deltas" =>
          /\ \A o \in ObservationsOf(r) : \E p \in ObservationsOf(w) : Worsens(o, p)
          /\ \A p \in ObservationsOf(w) : \E o \in ObservationsOf(r) : Worsens(o, p)

\* Observations that differ in a value that rises.
LEMMA RisingWorsens ==
    ASSUME NEW key \in Rising, NEW object, NEW v \in Int, NEW u \in Int, v <= u
    PROVE  Worsens(Observation(key, object, v), Observation(key, object, u))
<1>1. key # Ratio
  BY DEF Rising, Ratio
<1> QED
  BY <1>1 DEF Worsens, Observation

\* The rows that Worse makes, Older among them.
Later(r, n) == [r EXCEPT !.lag = @ + n]
Longer(r, n) == [r EXCEPT !.length = @ + n]
Fuller(r, n) == [r EXCEPT !.next = @ + n]
Busier(r, n) == [r EXCEPT !.value = @ + n]
More(r, n) == [r EXCEPT !.delta = @ + n]

\* A transaction that is older and waits longer.
LEMMA WorseTransaction ==
    ASSUME NEW r \in Rows, r.from = "transactions", NEW n \in Nat
    PROVE  WorseRow(r, Older(r, n))
<1> DEFINE w == Older(r, n)
<1>1. r \in [from : {"transactions"}, transaction : STRING, age : Int, waiting : BOOLEAN, wait : Int]
  BY DEF Rows
<1>2. /\ w \in [from : {"transactions"}, transaction : STRING, age : Int, waiting : BOOLEAN, wait : Int]
      /\ w.from = "transactions" /\ w.transaction = r.transaction /\ w.waiting = r.waiting
      /\ w.age = r.age + n /\ w.wait = r.wait + n
  <2> DEFINE v == [r EXCEPT !.age = @ + n]
  <2>1. r.age \in Int /\ r.wait \in Int /\ r.age + n \in Int /\ r.wait + n \in Int
    BY <1>1
  <2>2. /\ v \in [from : {"transactions"}, transaction : STRING, age : Int, waiting : BOOLEAN, wait : Int]
        /\ v.from = "transactions" /\ v.transaction = r.transaction /\ v.waiting = r.waiting
        /\ v.age = r.age + n /\ v.wait = r.wait
    BY <1>1, <2>1
  <2>3. w = [v EXCEPT !.wait = r.wait + n]
    BY DEF Older
  <2> HIDE DEF v, w
  <2> QED
    BY <2>1, <2>2, <2>3
<1> HIDE DEF w
<1>3. w \in Rows
  BY <1>2 DEF Rows
<1> DEFINE ref == <<"transaction", r.transaction>>
           a == Observation("transaction.age_seconds", ref, r.age)
           b == Observation("transaction.lock_wait_seconds", ref, r.wait)
           c == Observation("transaction.age_seconds", ref, w.age)
           d == Observation("transaction.lock_wait_seconds", ref, w.wait)
<1>4. ObservationsOf(r) = {a} \cup (IF r.waiting THEN {b} ELSE {})
  BY DEF ObservationsOf, TransactionObservations
<1>5. ObservationsOf(w) = {c} \cup (IF r.waiting THEN {d} ELSE {})
  BY <1>2 DEF ObservationsOf, TransactionObservations
<1>6. Worsens(a, c) /\ Worsens(b, d)
  <2>1. /\ r.age \in Int /\ w.age \in Int /\ r.age <= w.age
        /\ r.wait \in Int /\ w.wait \in Int /\ r.wait <= w.wait
    BY <1>1, <1>2
  <2>2. "transaction.age_seconds" \in Rising /\ "transaction.lock_wait_seconds" \in Rising
    BY DEF Rising
  <2> QED
    BY <2>1, <2>2, RisingWorsens
<1> HIDE DEF a, b, c, d
<1>7. /\ \A o \in ObservationsOf(r) : \E p \in ObservationsOf(w) : Worsens(o, p)
      /\ \A p \in ObservationsOf(w) : \E o \in ObservationsOf(r) : Worsens(o, p)
  BY <1>4, <1>5, <1>6
<1>8. WorseRow(r, w)
  BY <1>2, <1>3, <1>7 DEF WorseRow
<1> QED
  BY <1>8 DEF w

\* A longer lag, a longer history list.
LEMMA WorseLagOrPurge ==
    ASSUME NEW r \in Rows, NEW n \in Nat
    PROVE  /\ r.from = "lag" => WorseRow(r, Later(r, n))
           /\ r.from = "purge" => WorseRow(r, Longer(r, n))
<1>1. ASSUME r.from = "lag" PROVE WorseRow(r, Later(r, n))
  <2> DEFINE w == Later(r, n)
  <2>1. r \in [from : {"lag"}, channel : STRING \cup {None}, lag : Int]
    BY <1>1 DEF Rows
  <2>2. /\ w \in [from : {"lag"}, channel : STRING \cup {None}, lag : Int]
        /\ w.from = "lag" /\ w.channel = r.channel /\ w.lag = r.lag + n
    BY <2>1 DEF Later
  <2> HIDE DEF w
  <2>3. w \in Rows
    BY <2>2 DEF Rows
  <2> DEFINE ref == <<"replication_channel", IF r.channel = None THEN "default" ELSE r.channel>>
             o == Observation("replication.active_apply_lag_seconds", ref, r.lag)
             p == Observation("replication.active_apply_lag_seconds", ref, w.lag)
  <2>4. ObservationsOf(r) = {o}
    BY <1>1 DEF ObservationsOf, LagObservations
  <2>5. ObservationsOf(w) = {p}
    BY <2>2 DEF ObservationsOf, LagObservations
  <2>6. Worsens(o, p)
    <3>1. r.lag \in Int /\ w.lag \in Int /\ r.lag <= w.lag
      BY <2>1, <2>2
    <3>2. "replication.active_apply_lag_seconds" \in Rising
      BY DEF Rising
    <3> QED
      BY <3>1, <3>2, RisingWorsens
  <2> HIDE DEF o, p
  <2>7. WorseRow(r, w)
    BY <1>1, <2>2, <2>3, <2>4, <2>5, <2>6 DEF WorseRow
  <2> QED
    BY <2>7 DEF w
<1>2. ASSUME r.from = "purge" PROVE WorseRow(r, Longer(r, n))
  <2> DEFINE w == Longer(r, n)
  <2>1. r \in [from : {"purge"}, length : Int]
    BY <1>2 DEF Rows
  <2>2. /\ w \in [from : {"purge"}, length : Int]
        /\ w.from = "purge" /\ w.length = r.length + n
    BY <2>1 DEF Longer
  <2> HIDE DEF w
  <2>3. w \in Rows
    BY <2>2 DEF Rows
  <2> DEFINE o == Observation("innodb.history_list_length", Instance, r.length)
             p == Observation("innodb.history_list_length", Instance, w.length)
  <2>4. ObservationsOf(r) = {o}
    BY <1>2 DEF ObservationsOf, PurgeObservations
  <2>5. ObservationsOf(w) = {p}
    BY <2>2 DEF ObservationsOf, PurgeObservations
  <2>6. Worsens(o, p)
    <3>1. r.length \in Int /\ w.length \in Int /\ r.length <= w.length
      BY <2>1, <2>2
    <3>2. "innodb.history_list_length" \in Rising
      BY DEF Rising
    <3> QED
      BY <3>1, <3>2, RisingWorsens
  <2> HIDE DEF o, p
  <2>7. WorseRow(r, w)
    BY <1>2, <2>2, <2>3, <2>4, <2>5, <2>6 DEF WorseRow
  <2> QED
    BY <2>7 DEF w
<1> QED
  BY <1>1, <1>2

\* A column that is nearer to its end.
LEMMA WorseColumn ==
    ASSUME NEW r \in Rows, r.from = "auto_increment", NEW n \in Nat
    PROVE  WorseRow(r, Fuller(r, n))
<1> DEFINE w == Fuller(r, n)
           Kind == [from : {"auto_increment"}, column : STRING, type : STRING, unsigned : BOOLEAN, next : Int]
<1>1. r \in Kind
  BY DEF Rows
<1>2. /\ w \in Kind /\ w.from = "auto_increment" /\ w.column = r.column /\ w.type = r.type
      /\ w.unsigned = r.unsigned /\ w.next = r.next + n
  BY <1>1 DEF Fuller
<1> HIDE DEF w
<1>3. w \in Rows
  BY <1>2 DEF Rows
<1>4. AutoIncrementMax(w) = AutoIncrementMax(r)
  BY <1>2 DEF AutoIncrementMax
<1> DEFINE o == Observation(Ratio, <<"column", r.column>>, <<r.next, AutoIncrementMax(r)>>)
           p == Observation(Ratio, <<"column", r.column>>, <<w.next, AutoIncrementMax(r)>>)
<1>5. ObservationsOf(r) = IF r.type \in DOMAIN Largest THEN {o} ELSE {}
  BY DEF ObservationsOf, AutoIncrementObservations, Ratio
<1>6. ObservationsOf(w) = IF r.type \in DOMAIN Largest THEN {p} ELSE {}
  BY <1>2, <1>4 DEF ObservationsOf, AutoIncrementObservations, Ratio
<1>7. Worsens(o, p)
  <2>1. r.next \in Int /\ w.next \in Int /\ w.next >= r.next
    BY <1>1, <1>2
  <2>2. Ratio \notin Rising
    BY DEF Ratio, Rising
  <2>3. /\ o.key = Ratio /\ o.object = <<"column", r.column>>
        /\ o.value[1] = r.next /\ o.value[2] = AutoIncrementMax(r)
        /\ p.key = Ratio /\ p.object = <<"column", r.column>>
        /\ p.value[1] = w.next /\ p.value[2] = AutoIncrementMax(r)
    BY DEF Observation
  <2> HIDE DEF o, p
  <2> QED
    BY <2>1, <2>2, <2>3 DEF Worsens
<1> HIDE DEF o, p
<1>8. WorseRow(r, w)
  BY <1>2, <1>3, <1>5, <1>6, <1>7 DEF WorseRow
<1> QED
  BY <1>8 DEF w

\* More connections.
LEMMA WorseStatus ==
    ASSUME NEW r \in Rows, r.from = "status", r.status = "connections.used", NEW n \in Nat
    PROVE  WorseRow(r, Busier(r, n))
<1> DEFINE w == Busier(r, n)
           Kind == [from : {"status"}, value : Int,
                    status : {"connections.used", "connections.limit", "server.uptime_seconds"}]
<1>1. r \in Kind
  BY DEF Rows
<1>2. /\ w \in Kind /\ w.from = "status" /\ w.status = "connections.used"
      /\ w.value = r.value + n
  BY <1>1 DEF Busier
<1> HIDE DEF w
<1>3. w \in Rows
  BY <1>2 DEF Rows
<1> DEFINE o == Observation("connections.used", Instance, r.value)
           p == Observation("connections.used", Instance, w.value)
<1>4. ObservationsOf(r) = {o}
  BY DEF ObservationsOf, StatusObservations
<1>5. ObservationsOf(w) = {p}
  BY <1>2 DEF ObservationsOf, StatusObservations
<1>6. Worsens(o, p)
  <2>1. r.value \in Int /\ w.value \in Int /\ r.value <= w.value
    BY <1>1, <1>2
  <2>2. "connections.used" \in Rising
    BY DEF Rising
  <2> QED
    BY <2>1, <2>2, RisingWorsens
<1> HIDE DEF o, p
<1>7. WorseRow(r, w)
  BY <1>2, <1>3, <1>4, <1>5, <1>6 DEF WorseRow
<1> QED
  BY <1>7 DEF w

\* A larger delta of what is bad.
LEMMA WorseDelta ==
    ASSUME NEW r \in Rows, r.from = "deltas", r.key \notin Shared, NEW n \in Nat
    PROVE  WorseRow(r, More(r, n))
<1> DEFINE w == More(r, n)
           Kind == [from : {"deltas"}, key : STRING, object : STRING \X STRING, delta : Int, window : Int]
<1>1. r \in Kind
  BY DEF Rows
<1>2. /\ w \in Kind /\ w.from = "deltas" /\ w.key = r.key /\ w.object = r.object
      /\ w.window = r.window /\ w.delta = r.delta + n /\ r.delta \in Int
  BY <1>1 DEF More
<1> HIDE DEF w
<1>3. w \in Rows
  BY <1>2 DEF Rows
<1>4. r.delta <= w.delta
  BY <1>2
<1>5. WorseRow(r, w)
  BY <1>2, <1>3, <1>4 DEF WorseRow
<1> QED
  BY <1>5 DEF w

\* Every row of Worse is one.
LEMMA WorseRows ==
    ASSUME NEW r \in Rows, NEW w \in Worse(r)
    PROVE  WorseRow(r, w)
<1>1. CASE r.from = "deltas"
  <2>1. r.key \notin Shared
    BY SMT, <1>1 DEF Worse, Shared
  <2>2. \E n \in Nat : w = More(r, n)
    BY SMT, <1>1, <2>1 DEF Worse, Shared, More
  <2> QED
    BY <1>1, <2>1, <2>2, WorseDelta
<1>2. CASE r.from = "transactions"
  <2>1. \E n \in Nat : w = Older(r, n)
    BY SMT, <1>2 DEF Worse
  <2> QED
    BY <1>2, <2>1, WorseTransaction
<1>3. CASE r.from = "lag"
  <2>1. \E n \in Nat : w = Later(r, n)
    BY SMT, <1>3 DEF Worse, Later
  <2> QED
    BY <1>3, <2>1, WorseLagOrPurge
<1>4. CASE r.from = "purge"
  <2>1. \E n \in Nat : w = Longer(r, n)
    BY SMT, <1>4 DEF Worse, Longer
  <2> QED
    BY <1>4, <2>1, WorseLagOrPurge
<1>5. CASE r.from = "auto_increment"
  <2>1. \E n \in Nat : w = Fuller(r, n)
    BY SMT, <1>5 DEF Worse, Fuller
  <2> QED
    BY <1>5, <2>1, WorseColumn
<1>6. CASE r.from = "status"
  <2>1. r.status = "connections.used" /\ \E n \in Nat : w = Busier(r, n)
    BY SMT, <1>6 DEF Worse, Busier
  <2> QED
    BY <1>6, <2>1, WorseStatus
<1>7. CASE r.from \notin {"deltas", "transactions", "lag", "purge", "auto_increment", "status"}
  BY SMT, <1>7 DEF Worse
<1> QED
  BY <1>1, <1>2, <1>3, <1>4, <1>5, <1>6, <1>7

\* A worse row is about the same object.
LEMMA WorseIsPlausible ==
    ASSUME NEW list, Plausible(list), NEW i \in DOMAIN list, NEW w, WorseRow(list[i], w)
    PROVE  Plausible([list EXCEPT ![i] = w])
<1> DEFINE more == [list EXCEPT ![i] = w]
<1>1. list \in Seq(Rows) /\ w \in Rows /\ w.from = list[i].from
  BY DEF Plausible, WorseRow
<1>2. /\ more \in Seq(Rows) /\ DOMAIN more = DOMAIN list /\ more[i] = w
      /\ \A j \in DOMAIN list : j # i => more[j] = list[j]
  BY <1>1
<1> HIDE DEF more
<1>3. ASSUME NEW j \in DOMAIN list, j # i, list[j].from = list[i].from, list[j].from # "locks"
      PROVE  AreAboutDifferentObjects(w, list[j]) /\ AreAboutDifferentObjects(list[j], w)
  <2>1. AreAboutDifferentObjects(list[i], list[j])
    BY <1>3 DEF Plausible
  <2>2. AreAboutDifferentObjects(w, list[j])
    <3>1. CASE list[i].from = "deltas"
      <4>1. list[i].key # list[j].key \/ list[i].object # list[j].object
        BY <2>1, <3>1 DEF AreAboutDifferentObjects
      <4>2. w.key = list[i].key /\ w.object = list[i].object /\ w.from = "deltas"
        BY <3>1, <1>1 DEF WorseRow
      <4> QED
        BY <4>1, <4>2 DEF AreAboutDifferentObjects
    <3>2. CASE list[i].from # "deltas"
      <4>1. \A o \in ObservationsOf(list[i]), p \in ObservationsOf(list[j]) :
               o.key # p.key \/ o.object # p.object
        BY <2>1, <3>2 DEF AreAboutDifferentObjects
      <4>2. \A q \in ObservationsOf(w) : \E o \in ObservationsOf(list[i]) : q.key = o.key /\ q.object = o.object
        BY <3>2 DEF WorseRow, Worsens
      <4>3. \A q \in ObservationsOf(w), p \in ObservationsOf(list[j]) : q.key # p.key \/ q.object # p.object
        BY <4>1, <4>2
      <4> QED
        BY <4>3, <3>2, <1>1 DEF AreAboutDifferentObjects
    <3> QED
      BY <3>1, <3>2
  <2>3. AreAboutDifferentObjects(list[j], w)
    BY <2>2, <1>1, <1>3, DifferentBothWays
  <2> QED
    BY <2>2, <2>3
<1>4. ASSUME NEW j \in DOMAIN more, NEW k \in DOMAIN more, j # k,
             more[j].from = more[k].from, more[j].from # "locks"
      PROVE  AreAboutDifferentObjects(more[j], more[k])
  <2>1. CASE j # i /\ k # i
    <3>1. more[j] = list[j] /\ more[k] = list[k]
      BY <1>2, <1>4, <2>1
    <3>2. AreAboutDifferentObjects(list[j], list[k])
      BY <3>1, <1>2, <1>4 DEF Plausible
    <3> QED
      BY <3>1, <3>2
  <2>2. CASE j = i
    <3>1. more[j] = w /\ more[k] = list[k] /\ k # i /\ k \in DOMAIN list
      BY <1>2, <1>4, <2>2
    <3>2. AreAboutDifferentObjects(w, list[k])
      BY <3>1, <1>1, <1>3, <1>4
    <3> QED
      BY <3>1, <3>2
  <2>3. CASE k = i
    <3>1. more[k] = w /\ more[j] = list[j] /\ j # i /\ j \in DOMAIN list
      BY <1>2, <1>4, <2>3
    <3>2. AreAboutDifferentObjects(list[j], w)
      BY <3>1, <1>1, <1>3, <1>4
    <3> QED
      BY <3>1, <3>2
  <2> QED
    BY <2>1, <2>2, <2>3
<1>5. Plausible(more)
  BY <1>2, <1>4 DEF Plausible
<1> QED
  BY <1>5 DEF more

\* In its place it makes the evidence worse, and says nothing of channels.
LEMMA WorseGrows ==
    ASSUME NEW list, Plausible(list), NEW i \in DOMAIN list, NEW w, WorseRow(list[i], w)
    PROVE  LET more == [list EXCEPT ![i] = w]
           IN  /\ Grows(Current(list), Current(more))
               /\ DeltasGrow(Deltas(list), Deltas(more))
               /\ ReplicationStopped(Current(more)) = ReplicationStopped(Current(list))
<1> DEFINE more == [list EXCEPT ![i] = w]
<1>1. list \in Seq(Rows) /\ w \in Rows /\ w.from = list[i].from
  BY DEF Plausible, WorseRow
<1>2. /\ more \in Seq(Rows) /\ DOMAIN more = DOMAIN list /\ more[i] = w
      /\ \A j \in DOMAIN list : j # i => more[j] = list[j]
  BY <1>1
<1>3. Plausible(more)
  BY WorseIsPlausible
<1> HIDE DEF more
<1>4. \A j \in DOMAIN list : more[j].from = list[j].from
  BY <1>1, <1>2
<1>5. \A c : RowsOf(more, c) = RowsOf(list, c)
  BY <1>2, <1>4 DEF RowsOf
<1>6. \A c \in Snapshots : Kept(more, c) = Kept(list, c)
  BY <1>5 DEF Kept, Returned
<1>7. Evidence(Current(list)) /\ Evidence(Current(more))
  BY <1>3, CurrentIsEvidence
<1>8. DOMAIN Current(more) = DOMAIN Current(list)
  <2>1. UNION {Kept(more, c) : c \in Snapshots} = UNION {Kept(list, c) : c \in Snapshots}
    BY <1>6
  <2> QED
    BY <2>1 DEF Current
<1>9. ASSUME NEW j \in DOMAIN Current(list)
      PROVE  /\ j \in DOMAIN list /\ list[j] \in Rows /\ list[j].from # "deltas"
             /\ Current(list)[j] = ObservationsOf(list[j])
             /\ Current(more)[j] = ObservationsOf(more[j])
  <2>1. "deltas" \notin Snapshots
    BY DEF Snapshots
  <2> QED
    BY <2>1, <1>1, <1>2, <1>8, CurrentPlaces
<1>10. ASSUME NEW j \in DOMAIN Current(list), NEW o \in Current(list)[j]
       PROVE  \E p \in Current(more)[j] : Worsens(o, p)
  <2>1. CASE j = i
    BY <2>1, <1>2, <1>9, <1>10 DEF WorseRow
  <2>2. CASE j # i
    <3>1. o \in Current(more)[j]
      BY <2>2, <1>2, <1>9, <1>10
    <3>2. TypedObservation(o)
      BY <1>9, <1>10, ObservationFacts
    <3> QED
      BY <3>1, <3>2, WorsensItself
  <2> QED
    BY <2>1, <2>2
<1>11. Grows(Current(list), Current(more))
  BY <1>7, <1>8, <1>10 DEF Grows
<1>12. DeltasGrow(Deltas(list), Deltas(more))
  <2>1. DeltaEvidence(Deltas(list)) /\ DeltaEvidence(Deltas(more))
    BY <1>3, DeltasAreEvidence
  <2>2. /\ DOMAIN Deltas(list) = RowsOf(list, "deltas")
        /\ DOMAIN Deltas(more) = RowsOf(list, "deltas")
        /\ \A j \in RowsOf(list, "deltas") : Deltas(list)[j] = list[j] /\ Deltas(more)[j] = more[j]
    BY <1>5 DEF Deltas
  <2>3. ASSUME NEW j \in RowsOf(list, "deltas")
        PROVE  /\ more[j].key = list[j].key /\ more[j].object = list[j].object
               /\ more[j].window = list[j].window /\ list[j].delta <= more[j].delta
               /\ list[j].key \in Shared => more[j].delta = list[j].delta
    <3>1. j \in DOMAIN list /\ list[j].from = "deltas"
      BY <2>3 DEF RowsOf
    <3>2. CASE j = i
      BY <3>1, <3>2, <1>2 DEF WorseRow
    <3>3. CASE j # i
      <4>1. list[j].delta \in Int
        BY <2>1, <2>2, <2>3 DEF DeltaEvidence
      <4>2. more[j] = list[j]
        BY <3>1, <3>3, <1>2
      <4> QED
        BY <4>1, <4>2
    <3> QED
      BY <3>2, <3>3
  <2> QED
    BY <2>1, <2>2, <2>3 DEF DeltasGrow
<1>13. ASSUME NEW key \in {"replication.receiver_state", "replication.applier_state"}
       PROVE  Of(Current(more), key) = Of(Current(list), key)
  <2>1. Source(key) = "replication"
    BY DEF Source, LockKeys, TransactionKeys, IndexKeys, StateKeys
  <2>2. list[i].from # "replication" /\ more[i].from # "replication" /\ more[i] \in Rows
    BY <1>1, <1>2 DEF WorseRow
  <2>3. ASSUME NEW j \in DOMAIN Current(list)
        PROVE  {o \in Current(more)[j] : o.key = key} = {o \in Current(list)[j] : o.key = key}
    <3>1. CASE j = i
      <4>1. \A o \in Current(list)[j] : Source(o.key) = list[i].from
        BY <3>1, <1>9, ObservationFacts
      <4>2. more[i].from # "deltas"
        BY <3>1, <1>4, <1>9
      <4>3. \A o \in Current(more)[j] : Source(o.key) = more[i].from
        BY <3>1, <4>2, <2>2, <1>9, ObservationFacts
      <4>4. \A o \in Current(list)[j] : o.key # key
        BY <4>1, <2>1, <2>2
      <4>5. \A o \in Current(more)[j] : o.key # key
        BY <4>3, <2>1, <2>2
      <4> QED
        BY <4>4, <4>5
    <3>2. CASE j # i
      BY <3>2, <1>2, <1>9
    <3> QED
      BY <3>1, <3>2
  <2> QED
    BY <2>3, <1>8 DEF Of
<1>14. ReplicationStopped(Current(more)) = ReplicationStopped(Current(list))
  BY <1>7, <1>13, StoppedKeeps
<1> QED
  BY <1>11, <1>12, <1>14 DEF more

\* With a worse row in its place every finding is still there.
LEMMA WorseFromRows ==
    ASSUME RowsInv
    PROVE  WorseIsNeverMilder
<1> SUFFICES ASSUME NEW i \in DOMAIN rows, NEW w \in Worse(rows[i])
             PROVE  Keeps(FindingsOf(rows), FindingsOf([rows EXCEPT ![i] = w]))
  BY DEF WorseIsNeverMilder
<1> DEFINE more == [rows EXCEPT ![i] = w]
<1>1. Plausible(rows) /\ rows[i] \in Rows
  BY DEF RowsInv, Plausible
<1>2. WorseRow(rows[i], w)
  BY <1>1, WorseRows
<1>3. /\ Grows(Current(rows), Current(more))
      /\ DeltasGrow(Deltas(rows), Deltas(more))
      /\ ReplicationStopped(Current(more)) = ReplicationStopped(Current(rows))
  BY <1>1, <1>2, WorseGrows
<1> HIDE DEF more
<1>4. Keeps(Others(Current(rows), Deltas(rows)), Others(Current(more), Deltas(more)))
  BY <1>3, OthersKeep
<1>5. Keeps(ReplicationStopped(Current(rows)), ReplicationStopped(Current(more)))
  <2>1. \A f \in ReplicationStopped(Current(rows)) : f.severity = "critical"
    BY DEF ReplicationStopped, Finding
  <2> QED
    BY <2>1, <1>3, KeepsItself
<1>6. Keeps(FindingsOf(rows), FindingsOf(more))
  BY <1>4, <1>5, FindingsAreOthers, KeepsBoth
<1> QED
  BY <1>6 DEF more

\* Thresholds of all rules are on the right side: what is worse for the server
\* never loses a finding or makes it milder.
THEOREM WorseFindsNoLess == CollectorsSpec => []WorseIsNeverMilder
<1>1. RowsInv => WorseIsNeverMilder
  BY WorseFromRows
<1> QED
  BY <1>1, RowsArePlausible, PTL

-----------------------------------------------------------------------------
(* Rows in another order *)

\* What stands at a place of more stands at place p of list.
Reorders(p, list, more) ==
    /\ p \in [DOMAIN more -> DOMAIN list]
    /\ \A i, j \in DOMAIN more : p[i] = p[j] => i = j
    /\ \A i \in DOMAIN list : \E j \in DOMAIN more : p[j] = i
    /\ \A j \in DOMAIN more : more[j] = list[p[j]]

\* Places that are mapped one to one are as many.
LEMMA AsMany ==
    ASSUME NEW S, NEW T, IsFiniteSet(S), NEW p, \A i \in S : p[i] \in T,
           \A i, j \in S : p[i] = p[j] => i = j, \A k \in T : \E i \in S : p[i] = k
    PROVE  IsFiniteSet(T) /\ Cardinality(T) = Cardinality(S)
<1> DEFINE f == [i \in S |-> p[i]]
<1>1. f \in [S -> T] /\ \A i \in S : f[i] = p[i]
  OBVIOUS
<1> HIDE DEF f
<1>2. DOMAIN f = S
  BY <1>1
<1>3. IsInjective(f)
  BY <1>1, <1>2 DEF IsInjective
<1>4. f \in Bijection(S, T)
  BY <1>1, <1>3 DEF Bijection, Injection, Surjection
<1>5. ExistsBijection(S, T)
  BY <1>4 DEF ExistsBijection
<1> QED
  BY <1>5, FS_Bijection

\* In another order the rows are as many, of every kind, and as plausible.
LEMMA ReorderedRows ==
    ASSUME NEW list, Plausible(list), NEW more \in Seq(Rows), NEW p, Reorders(p, list, more)
    PROVE  /\ Plausible(more)
           /\ \A c : Cardinality(RowsOf(more, c)) = Cardinality(RowsOf(list, c))
<1>1. list \in Seq(Rows)
  BY DEF Plausible
<1>2. \A j \in DOMAIN more : p[j] \in DOMAIN list /\ more[j] = list[p[j]]
  BY DEF Reorders
<1>3. ASSUME NEW i \in DOMAIN more, NEW j \in DOMAIN more, i # j,
             more[i].from = more[j].from, more[i].from # "locks"
      PROVE  AreAboutDifferentObjects(more[i], more[j])
  <2>1. p[i] # p[j]
    BY <1>3 DEF Reorders
  <2>2. AreAboutDifferentObjects(list[p[i]], list[p[j]])
    BY <1>2, <1>3, <2>1 DEF Plausible
  <2> QED
    BY <1>2, <2>2
<1>4. Plausible(more)
  BY <1>3 DEF Plausible
<1>5. ASSUME NEW c
      PROVE  Cardinality(RowsOf(more, c)) = Cardinality(RowsOf(list, c))
  <2> DEFINE S == RowsOf(more, c)
             T == RowsOf(list, c)
  <2>1. IsFiniteSet(S)
    BY RowsOfFacts
  <2>2. \A i \in S : p[i] \in T
    BY <1>2 DEF RowsOf
  <2>3. \A i, j \in S : p[i] = p[j] => i = j
    BY DEF RowsOf, Reorders
  <2>4. \A k \in T : \E i \in S : p[i] = k
    BY <1>2 DEF RowsOf, Reorders
  <2> HIDE DEF S, T
  <2>5. Cardinality(T) = Cardinality(S)
    BY <2>1, <2>2, <2>3, <2>4, AsMany
  <2> QED
    BY <2>5 DEF S, T
<1> QED
  BY <1>4, <1>5

\* As long as no list is cut, so is what the collectors make of them.
LEMMA ReorderedEvidence ==
    ASSUME NEW list, Plausible(list), NEW more \in Seq(Rows), NEW p, Reorders(p, list, more),
           \A c \in Snapshots : Cardinality(RowsOf(list, c)) <= Limits[c]
    PROVE  /\ Evidence(Current(list)) /\ Evidence(Current(more))
           /\ \E q : Reorders(q, Current(list), Current(more))
           /\ DeltaEvidence(Deltas(list)) /\ DeltaEvidence(Deltas(more))
           /\ \E q : Reorders(q, Deltas(list), Deltas(more))
<1>1. list \in Seq(Rows) /\ Plausible(more)
  BY ReorderedRows DEF Plausible
<1>2. \A c \in Snapshots : Cardinality(RowsOf(more, c)) <= Limits[c]
  BY ReorderedRows
<1>3. \A c \in Snapshots : Kept(list, c) = RowsOf(list, c) /\ Kept(more, c) = RowsOf(more, c)
  BY <1>1, <1>2, KeptFacts
<1>4. \A j \in DOMAIN more : p[j] \in DOMAIN list /\ more[j] = list[p[j]]
  BY DEF Reorders
<1> DEFINE S == DOMAIN Current(more)
           T == DOMAIN Current(list)
<1>5. /\ T = {i \in DOMAIN list : list[i].from \in Snapshots}
      /\ S = {i \in DOMAIN more : more[i].from \in Snapshots}
  <2>1. /\ T = UNION {RowsOf(list, c) : c \in Snapshots}
        /\ S = UNION {RowsOf(more, c) : c \in Snapshots}
    <3>1. /\ {Kept(list, c) : c \in Snapshots} = {RowsOf(list, c) : c \in Snapshots}
          /\ {Kept(more, c) : c \in Snapshots} = {RowsOf(more, c) : c \in Snapshots}
      BY <1>3
    <3> QED
      BY <3>1 DEF Current
  <2> HIDE DEF S, T
  <2> QED
    BY <2>1 DEF RowsOf
<1>6. /\ \A i \in T : Current(list)[i] = ObservationsOf(list[i])
      /\ \A i \in S : Current(more)[i] = ObservationsOf(more[i])
  BY <1>1, CurrentPlaces
<1> HIDE DEF S, T
<1>7. \E q : Reorders(q, Current(list), Current(more))
  <2> DEFINE q == [j \in S |-> p[j]]
  <2>1. q \in [S -> T] /\ \A j \in S : q[j] = p[j] /\ q[j] \in T
    BY <1>4, <1>5
  <2> HIDE DEF q
  <2>2. \A i, j \in S : q[i] = q[j] => i = j
    BY <2>1, <1>5 DEF Reorders
  <2>3. \A i \in T : \E j \in S : q[j] = i
    <3>1. ASSUME NEW i \in T PROVE \E j \in S : q[j] = i
      <4>1. i \in DOMAIN list /\ list[i].from \in Snapshots
        BY <1>5
      <4>2. PICK j \in DOMAIN more : p[j] = i
        BY <4>1 DEF Reorders
      <4>3. j \in S
        BY <1>4, <1>5, <4>1, <4>2
      <4> QED
        BY <2>1, <4>2, <4>3
    <3> QED
      BY <3>1
  <2>4. \A j \in S : Current(more)[j] = Current(list)[q[j]]
    BY <1>4, <1>5, <1>6, <2>1
  <2>5. Reorders(q, Current(list), Current(more))
    BY <2>1, <2>2, <2>3, <2>4 DEF Reorders, S, T
  <2> QED
    BY <2>5
<1>8. \E q : Reorders(q, Deltas(list), Deltas(more))
  <2> DEFINE X == RowsOf(more, "deltas")
             Y == RowsOf(list, "deltas")
             q == [j \in X |-> p[j]]
  <2>1. /\ Y = {i \in DOMAIN list : list[i].from = "deltas"}
        /\ X = {i \in DOMAIN more : more[i].from = "deltas"}
    BY DEF RowsOf
  <2>2. /\ DOMAIN Deltas(list) = Y /\ \A i \in Y : Deltas(list)[i] = list[i]
        /\ DOMAIN Deltas(more) = X /\ \A i \in X : Deltas(more)[i] = more[i]
    BY DEF Deltas
  <2> HIDE DEF X, Y
  <2>3. q \in [X -> Y] /\ \A j \in X : q[j] = p[j] /\ q[j] \in Y
    BY <1>4, <2>1
  <2> HIDE DEF q
  <2>4. \A i, j \in X : q[i] = q[j] => i = j
    BY <2>1, <2>3 DEF Reorders
  <2>5. \A i \in Y : \E j \in X : q[j] = i
    <3>1. ASSUME NEW i \in Y PROVE \E j \in X : q[j] = i
      <4>1. i \in DOMAIN list /\ list[i].from = "deltas"
        BY <2>1
      <4>2. PICK j \in DOMAIN more : p[j] = i
        BY <4>1 DEF Reorders
      <4>3. j \in X
        BY <1>4, <2>1, <4>1, <4>2
      <4> QED
        BY <2>3, <4>2, <4>3
    <3> QED
      BY <3>1
  <2>6. \A j \in X : Deltas(more)[j] = Deltas(list)[q[j]]
    BY <1>4, <2>1, <2>2, <2>3
  <2>7. Reorders(q, Deltas(list), Deltas(more))
    BY <2>2, <2>3, <2>4, <2>5, <2>6 DEF Reorders
  <2> QED
    BY <2>7
<1> QED
  BY <1>1, <1>7, <1>8, CurrentIsEvidence, DeltasAreEvidence

\* What the rules ask of the observations, and the same answers to it.
SaysTheSame(list, more) ==
    /\ \A key : Of(more, key) = Of(list, key)
    /\ \A object, key : key \notin LockKeys =>
          /\ Said(more, object, key) = Said(list, object, key)
          /\ FirstNumber(more, object, key) = FirstNumber(list, object, key)
    /\ \A object : Cardinality(Places(more, object, "lock_wait.count"))
                     = Cardinality(Places(list, object, "lock_wait.count"))

\* The same of the deltas.
CountsTheSame(deltas, more) ==
    /\ {more[i] : i \in DOMAIN more} = {deltas[i] : i \in DOMAIN deltas}
    /\ Grouped(more) = Grouped(deltas)
    /\ \A object, key : Delta(more, object, key) = Delta(deltas, object, key)

\* Evidence says the same in another order.
LEMMA ReorderedSays ==
    ASSUME NEW list, NEW more, Evidence(list), Evidence(more), NEW p, Reorders(p, list, more)
    PROVE  SaysTheSame(list, more)
<1>1. \A j \in DOMAIN more : p[j] \in DOMAIN list /\ more[j] = list[p[j]]
  BY DEF Reorders
<1>2. \A i \in DOMAIN list : \E j \in DOMAIN more : p[j] = i /\ more[j] = list[i]
  BY <1>1 DEF Reorders
<1>3. ASSUME NEW key PROVE Of(more, key) = Of(list, key)
  <2>1. ASSUME NEW o PROVE o \in Of(more, key) <=> \E j \in DOMAIN more : o \in more[j] /\ o.key = key
    BY DEF Of
  <2>2. ASSUME NEW o PROVE o \in Of(list, key) <=> \E i \in DOMAIN list : o \in list[i] /\ o.key = key
    BY DEF Of
  <2>3. \A o : o \in Of(more, key) <=> o \in Of(list, key)
    BY <1>1, <1>2, <2>1, <2>2
  <2> QED
    BY <2>3
<1>4. ASSUME NEW object
      PROVE  Cardinality(Places(more, object, "lock_wait.count"))
               = Cardinality(Places(list, object, "lock_wait.count"))
  <2> DEFINE S == Places(more, object, "lock_wait.count")
             T == Places(list, object, "lock_wait.count")
  <2>1. S \subseteq DOMAIN more /\ IsFiniteSet(DOMAIN more)
    BY DEF Places, Evidence
  <2>2. IsFiniteSet(S)
    BY <2>1, FS_Subset
  <2>3. \A i \in S : p[i] \in T
    BY <1>1 DEF Places
  <2>4. \A i, j \in S : p[i] = p[j] => i = j
    BY <2>1 DEF Reorders
  <2>5. \A k \in T : \E i \in S : p[i] = k
    BY <1>2 DEF Places
  <2> HIDE DEF S, T
  <2>6. Cardinality(T) = Cardinality(S)
    BY <2>2, <2>3, <2>4, <2>5, AsMany
  <2> QED
    BY <2>6 DEF S, T
<1> QED
  BY <1>3, <1>4, SaidSame DEF SaysTheSame

\* Deltas count the same in another order.
LEMMA ReorderedCounts ==
    ASSUME NEW deltas, NEW more, DeltaEvidence(deltas), DeltaEvidence(more),
           NEW p, Reorders(p, deltas, more)
    PROVE  CountsTheSame(deltas, more)
<1>1. \A j \in DOMAIN more : p[j] \in DOMAIN deltas /\ more[j] = deltas[p[j]]
  BY DEF Reorders
<1>2. \A i \in DOMAIN deltas : \E j \in DOMAIN more : more[j] = deltas[i]
  BY <1>1 DEF Reorders
<1>3. {more[i] : i \in DOMAIN more} = {deltas[i] : i \in DOMAIN deltas}
  BY <1>1, <1>2
<1>4. Grouped(more) = Grouped(deltas)
  BY <1>1, <1>2 DEF Grouped
<1>5. ASSUME NEW object, NEW key
      PROVE  Delta(more, object, key) = Delta(deltas, object, key)
  <2>1. CASE \E i \in DOMAIN deltas : deltas[i].object = object /\ deltas[i].key = key
    <3>1. PICK i \in DOMAIN deltas : deltas[i].object = object /\ deltas[i].key = key
      BY <2>1
    <3>2. PICK j \in DOMAIN more : more[j] = deltas[i]
      BY <1>2
    <3>3. Delta(deltas, object, key) = deltas[i].delta
      BY <3>1, DeltaOnce
    <3>4. Delta(more, object, key) = more[j].delta
      BY <3>1, <3>2, DeltaOnce
    <3> QED
      BY <3>2, <3>3, <3>4
  <2>2. CASE ~\E i \in DOMAIN deltas : deltas[i].object = object /\ deltas[i].key = key
    <3>1. Counts(deltas, object, key) = {} /\ Counts(more, object, key) = {}
      BY <1>1, <2>2 DEF Counts
    <3> QED
      BY <3>1 DEF Delta
  <2> QED
    BY <2>1, <2>2
<1> QED
  BY <1>3, <1>4, <1>5 DEF CountsTheSame

\* From evidence that says the same the rules find the same.
LEMMA SameOfObservations ==
    ASSUME NEW list, NEW more, SaysTheSame(list, more)
    PROVE  /\ LongTransaction(more) = LongTransaction(list)
           /\ LockWaitLong(more) = LockWaitLong(list)
           /\ PurgeLag(more) = PurgeLag(list)
           /\ ReplicationApplyLag(more) = ReplicationApplyLag(list)
           /\ ReplicationError(more) = ReplicationError(list)
           /\ MissingPrimaryKey(more) = MissingPrimaryKey(list)
           /\ AutoIncrementExhaustion(more) = AutoIncrementExhaustion(list)
           /\ BlockingChain(more) = BlockingChain(list)
<1>1. \A key : Of(more, key) = Of(list, key)
  BY DEF SaysTheSame
<1>2. \A key, id, warn, critical : Each(more, key, id, warn, critical) = Each(list, key, id, warn, critical)
  BY <1>1 DEF Each
<1>3. PurgeLag(more) = PurgeLag(list) /\ ReplicationApplyLag(more) = ReplicationApplyLag(list)
  BY <1>2 DEF PurgeLag, ReplicationApplyLag
<1>4. LongTransaction(more) = LongTransaction(list) /\ LockWaitLong(more) = LockWaitLong(list)
  BY <1>1 DEF LongTransaction, LockWaitLong
<1>5. ReplicationError(more) = ReplicationError(list) /\ MissingPrimaryKey(more) = MissingPrimaryKey(list)
  BY <1>1 DEF ReplicationError, MissingPrimaryKey
<1>6. AutoIncrementExhaustion(more) = AutoIncrementExhaustion(list)
  BY <1>1 DEF AutoIncrementExhaustion
<1>7. BlockingChain(more) = BlockingChain(list)
  <2>1. Edges(more) = Edges(list)
    BY <1>1 DEF Edges
  <2>2. LongestChain(more) = LongestChain(list)
    BY <2>1 DEF LongestChain
  <2> QED
    BY <2>2 DEF BlockingChain
<1> QED
  BY <1>3, <1>4, <1>5, <1>6, <1>7

\* And those that ask for what was said of an object.
LEMMA SameOfSaid ==
    ASSUME NEW list, NEW more, SaysTheSame(list, more)
    PROVE  /\ ConnectionSaturation(more) = ConnectionSaturation(list)
           /\ LockContention(more) = LockContention(list)
           /\ UnusedIndex(more) = UnusedIndex(list)
           /\ RedundantIndex(more) = RedundantIndex(list)
<1>1. \A key : Of(more, key) = Of(list, key)
  BY DEF SaysTheSame
<1>2. \A key \in IndexKeys \cup StatusKeys : key \notin LockKeys
  BY DEF IndexKeys, StatusKeys, LockKeys
<1>3. \A object : \A key \in IndexKeys \cup StatusKeys :
         /\ Said(more, object, key) = Said(list, object, key)
         /\ FirstNumber(more, object, key) = FirstNumber(list, object, key)
  BY <1>2 DEF SaysTheSame
<1>4. ConnectionSaturation(more) = ConnectionSaturation(list)
  <2>1. /\ Said(more, Instance, "connections.used") = Said(list, Instance, "connections.used")
        /\ Said(more, Instance, "connections.limit") = Said(list, Instance, "connections.limit")
    BY <1>3 DEF StatusKeys
  <2> QED
    BY <2>1 DEF ConnectionSaturation
<1>5. LockContention(more) = LockContention(list)
  <2> DEFINE Waits(l, t) == Cardinality(Places(l, t, "lock_wait.count"))
             Tables(l) == {o.object : o \in Of(l, "lock_wait.count")} \ {Instance}
             Body(l, t) == Grade("lock_wait_contention", t, Waits(l, t), 3, 10)
  <2>1. \A l : LockContention(l) = UNION {Body(l, t) : t \in Tables(l)}
    BY DEF LockContention
  <2>2. Tables(more) = Tables(list)
    BY <1>1
  <2>3. \A t : Waits(more, t) = Waits(list, t)
    BY DEF SaysTheSame
  <2> HIDE DEF Waits, Tables
  <2>4. \A t : Body(more, t) = Body(list, t)
    BY <2>3
  <2> HIDE DEF Body
  <2> QED
    BY <2>1, <2>2, <2>4
<1>6. Indexes(more) = Indexes(list)
  BY <1>1 DEF Indexes
<1>7. \A x : /\ Said(more, x, "index.primary") = Said(list, x, "index.primary")
             /\ Said(more, x, "index.unique") = Said(list, x, "index.unique")
             /\ Said(more, x, "index.reads") = Said(list, x, "index.reads")
             /\ Said(more, x, "index.table") = Said(list, x, "index.table")
             /\ Said(more, x, "index.signature") = Said(list, x, "index.signature")
  BY <1>3 DEF IndexKeys
<1>8. \A x : Secondary(more, x) <=> Secondary(list, x)
  BY <1>7 DEF Secondary
<1>9. \A x, y : Covers(more, x, y) <=> Covers(list, x, y)
  BY <1>7, <1>8 DEF Covers
<1>10. UnusedIndex(more) = UnusedIndex(list)
  <2> DEFINE Uptime(l) == FirstNumber(l, Instance, "server.uptime_seconds")
             Unread(l) == {j \in Indexes(l) : /\ Uptime(l) >= 3600
                                              /\ Said(l, j, "index.reads") = 0
                                              /\ Secondary(l, j)}
  <2>1. \A l : UnusedIndex(l) = IF Uptime(l) = None THEN {}
                                ELSE {Finding("unused_index", i, "info") : i \in Unread(l)}
    BY DEF UnusedIndex
  <2>2. Uptime(more) = Uptime(list)
    BY <1>3 DEF StatusKeys
  <2> HIDE DEF Uptime
  <2>3. Unread(more) = Unread(list)
    BY <1>6, <1>7, <1>8, <2>2
  <2> HIDE DEF Unread
  <2> QED
    BY <2>1, <2>2, <2>3
<1>11. RedundantIndex(more) = RedundantIndex(list)
  <2> DEFINE Redundant(l) == {j \in Indexes(l) : Secondary(l, j) /\ \E k \in Indexes(l) \ {j} : Covers(l, k, j)}
  <2>1. \A l : RedundantIndex(l) = {Finding("redundant_index", i, "info") : i \in Redundant(l)}
    BY DEF RedundantIndex
  <2>2. Redundant(more) = Redundant(list)
    BY <1>6, <1>8, <1>9
  <2> HIDE DEF Redundant
  <2> QED
    BY <2>1, <2>2
<1> QED
  BY <1>4, <1>5, <1>10, <1>11

\* From deltas that count the same the rules find the same.
LEMMA SameOfDeltas ==
    ASSUME NEW deltas, NEW more, CountsTheSame(deltas, more)
    PROVE  /\ NoGoodIndex(more) = NoGoodIndex(deltas)
           /\ DiskTempTable(more) = DiskTempTable(deltas)
           /\ QueryFullScan(more) = QueryFullScan(deltas)
           /\ QueryAmplification(more) = QueryAmplification(deltas)
           /\ QueryHighTotalTime(more) = QueryHighTotalTime(deltas)
           /\ BufferPoolHit(more) = BufferPoolHit(deltas)
           /\ RedoPressure(more) = RedoPressure(deltas)
           /\ DeadlockRate(more) = DeadlockRate(deltas)
<1>1. /\ \A object, key : Delta(more, object, key) = Delta(deltas, object, key)
      /\ Grouped(more) = Grouped(deltas)
  BY DEF CountsTheSame
<1>2. ASSUME NEW key, NEW id, NEW least, NEW warn, NEW critical
      PROVE  OfCalls(more, key, id, least, warn, critical) = OfCalls(deltas, key, id, least, warn, critical)
  <2> DEFINE Body(d, g) == LET calls == Delta(d, g, "query.calls")
                               bad   == Delta(d, g, key)
                           IN  IF calls = None \/ bad = None THEN {}
                               ELSE IF calls < 10 \/ bad < least THEN {}
                               ELSE Grade(id, g, 100 * bad, warn * calls, critical * calls)
  <2>1. \A d : OfCalls(d, key, id, least, warn, critical) = UNION {Body(d, g) : g \in Grouped(d)}
    BY DEF OfCalls
  <2>2. \A g : Body(more, g) = Body(deltas, g)
    BY <1>1
  <2> HIDE DEF Body
  <2> QED
    BY <1>1, <2>1, <2>2
<1>3. /\ NoGoodIndex(more) = NoGoodIndex(deltas)
      /\ DiskTempTable(more) = DiskTempTable(deltas)
      /\ QueryFullScan(more) = QueryFullScan(deltas)
  BY <1>2 DEF NoGoodIndex, DiskTempTable, QueryFullScan
<1>4. ASSUME NEW key, NEW id, NEW warn, NEW critical
      PROVE  Counted(more, key, id, warn, critical) = Counted(deltas, key, id, warn, critical)
  <2> DEFINE Body(d, g) == LET n == Delta(d, g, key)
                           IN  IF n = None THEN {} ELSE Grade(id, g, n, warn, critical)
  <2>1. \A d : Counted(d, key, id, warn, critical) = UNION {Body(d, g) : g \in Grouped(d)}
    BY DEF Counted
  <2>2. \A g : Body(more, g) = Body(deltas, g)
    BY <1>1
  <2> HIDE DEF Body
  <2> QED
    BY <1>1, <2>1, <2>2
<1>5. RedoPressure(more) = RedoPressure(deltas) /\ DeadlockRate(more) = DeadlockRate(deltas)
  BY <1>4 DEF RedoPressure, DeadlockRate
<1>6. QueryAmplification(more) = QueryAmplification(deltas)
  <2> DEFINE Body(d, g) == LET examined == Delta(d, g, "query.rows_examined")
                               sent     == Delta(d, g, "query.rows_sent")
                           IN  IF examined = None \/ sent = None THEN {}
                               ELSE IF examined < 10000 THEN {}
                               ELSE Grade("query_rows_examined_amplification", g, examined,
                                          100 * Max({sent, 1}), 1000 * Max({sent, 1}))
  <2>1. \A d : QueryAmplification(d) = UNION {Body(d, g) : g \in Grouped(d)}
    BY DEF QueryAmplification
  <2>2. \A g : Body(more, g) = Body(deltas, g)
    BY <1>1
  <2> HIDE DEF Body
  <2> QED
    BY <1>1, <2>1, <2>2
<1>7. BufferPoolHit(more) = BufferPoolHit(deltas)
  <2> DEFINE Body(d, g) == LET requests == Delta(d, g, "buffer_pool.read_requests")
                               reads    == Delta(d, g, "buffer_pool.reads")
                           IN  IF requests = None \/ reads = None THEN {}
                               ELSE IF requests < 1000 THEN {}
                               ELSE Grade("buffer_pool_hit_low", g, 20 * reads, requests + 1, 6 * requests + 1)
  <2>1. \A d : BufferPoolHit(d) = UNION {Body(d, g) : g \in Grouped(d)}
    BY DEF BufferPoolHit
  <2>2. \A g : Body(more, g) = Body(deltas, g)
    BY <1>1
  <2> HIDE DEF Body
  <2> QED
    BY <1>1, <2>1, <2>2
<1>8. QueryHighTotalTime(more) = QueryHighTotalTime(deltas)
  <2> DEFINE Body(d, c) == LET calls == Delta(d, c.object, "query.calls")
                           IN  IF c.key # "query.total_latency_ms" \/ c.window <= 0 \/ c.delta < 1000 THEN {}
                               ELSE IF calls = None THEN {}
                               ELSE IF calls < 5 THEN {}
                               ELSE Grade("query_high_total_time", c.object,
                                          2 * c.delta, 1000 * c.window, 4000 * c.window)
             Listed(d) == {d[i] : i \in DOMAIN d}
  <2>1. \A d : QueryHighTotalTime(d) = UNION {Body(d, d[i]) : i \in DOMAIN d}
    BY DEF QueryHighTotalTime
  <2>2. \A c : Body(more, c) = Body(deltas, c)
    BY <1>1
  <2>3. Listed(more) = Listed(deltas)
    BY DEF CountsTheSame
  <2> HIDE DEF Body
  <2>4. \A d : UNION {Body(d, d[i]) : i \in DOMAIN d} = UNION {Body(d, c) : c \in Listed(d)}
    OBVIOUS
  <2>5. /\ QueryHighTotalTime(more) = UNION {Body(more, c) : c \in Listed(more)}
        /\ QueryHighTotalTime(deltas) = UNION {Body(deltas, c) : c \in Listed(deltas)}
    BY <2>1, <2>4
  <2> HIDE DEF Listed
  <2> QED
    BY <2>2, <2>3, <2>5
<1> QED
  BY <1>3, <1>5, <1>6, <1>7, <1>8

\* So do all rules together.
LEMMA SameFindings ==
    ASSUME NEW list, NEW other, Evidence(Current(list)), Evidence(Current(other)),
           SaysTheSame(Current(list), Current(other)), CountsTheSame(Deltas(list), Deltas(other))
    PROVE  FindingsOf(other) = FindingsOf(list)
<1> DEFINE now == Current(list)
           then == Current(other)
           deltas == Deltas(list)
           more == Deltas(other)
<1>1. ReplicationStopped(then) = ReplicationStopped(now)
  BY StoppedKeeps DEF SaysTheSame
<1>2. FullScanHeavyTable(then, more) = FullScanHeavyTable(now, deltas)
  <2> DEFINE Scanned(d) == Counted(d, "table.full_scan_rows", "full_scan_heavy_table", 100000, 1000000)
             Estimate(l, t) == FirstNumber(l, t, "table.estimated_rows")
  <2>1. Scanned(more) = Scanned(deltas)
    <3> DEFINE Body(d, g) == LET n == Delta(d, g, "table.full_scan_rows")
                             IN  IF n = None THEN {} ELSE Grade("full_scan_heavy_table", g, n, 100000, 1000000)
    <3>1. \A d : Scanned(d) = UNION {Body(d, g) : g \in Grouped(d)}
      BY DEF Counted
    <3>2. (\A g : Body(more, g) = Body(deltas, g)) /\ Grouped(more) = Grouped(deltas)
      BY DEF CountsTheSame
    <3> HIDE DEF Body, Scanned
    <3> QED
      BY <3>1, <3>2
  <2>2. \A t : Estimate(then, t) = Estimate(now, t)
    BY DEF SaysTheSame, LockKeys
  <2>3. \A l, d : FullScanHeavyTable(l, d) =
                    {f \in Scanned(d) : IF Estimate(l, f.object) = None THEN FALSE
                                        ELSE Estimate(l, f.object) >= 1000}
    BY DEF FullScanHeavyTable
  <2> HIDE DEF Scanned, Estimate
  <2> QED
    BY <2>1, <2>2, <2>3
<1> HIDE DEF now, then, deltas, more
<1>3. Others(then, more) = Others(now, deltas)
  <2>1. SaysTheSame(now, then) /\ CountsTheSame(deltas, more)
    BY DEF now, then, deltas, more
  <2> QED
    BY <1>2, <2>1, SameOfObservations, SameOfSaid, SameOfDeltas DEF Others
<1>4. /\ FindingsOf(list) = Others(now, deltas) \cup ReplicationStopped(now)
      /\ FindingsOf(other) = Others(then, more) \cup ReplicationStopped(then)
  BY FindingsAreOthers DEF now, then, deltas, more
<1> QED
  BY <1>1, <1>3, <1>4

\* An exchange of neighbours is another order.
LEMMA ExchangeReorders ==
    ASSUME NEW i \in 1..(Len(rows) - 1), rows \in Seq(Rows)
    PROVE  Exchanged(i) \in Seq(Rows) /\ \E p : Reorders(p, rows, Exchanged(i))
<1> DEFINE places == DOMAIN rows
           p == [j \in places |-> IF j = i THEN i + 1 ELSE IF j = i + 1 THEN i ELSE j]
           more == Exchanged(i)
<1>1. /\ places = 1..Len(rows) /\ Len(rows) \in Nat
      /\ i \in places /\ i + 1 \in places /\ i \in Int /\ i + 1 # i
  OBVIOUS
<1>2. /\ more \in Seq(Rows) /\ DOMAIN more = places
      /\ \A j \in places : more[j] = IF j = i THEN rows[i + 1] ELSE IF j = i + 1 THEN rows[i] ELSE rows[j]
  <2>1. rows[i] \in Rows /\ rows[i + 1] \in Rows
    BY <1>1
  <2> QED
    BY <1>1, <2>1 DEF Exchanged
<1> HIDE DEF places, more
<1>3. p \in [places -> places]
  BY <1>1
<1>4. \A j, k \in places : p[j] = p[k] => j = k
  BY <1>1
<1>5. \A k \in places : \E j \in places : p[j] = k
  <2>1. ASSUME NEW k \in places PROVE p[p[k]] = k
    BY <1>1
  <2> QED
    BY <2>1, <1>3
<1>6. \A j \in places : more[j] = rows[p[j]]
  BY <1>1, <1>2
<1> HIDE DEF p
<1>7. Reorders(p, rows, more)
  BY <1>2, <1>3, <1>4, <1>5, <1>6 DEF Reorders, places
<1> QED
  BY <1>2, <1>7 DEF more

\* So the findings stay the same after it.
LEMMA OrderFromRows ==
    ASSUME RowsInv
    PROVE  OrderDoesNotMatter
<1> SUFFICES ASSUME \A c \in Snapshots : Cardinality(RowsOf(rows, c)) <= Limits[c],
                    NEW i \in 1..(Len(rows) - 1)
             PROVE  FindingsOf(Exchanged(i)) = FindingsOf(rows)
  BY DEF OrderDoesNotMatter
<1> DEFINE more == Exchanged(i)
<1>1. Plausible(rows) /\ rows \in Seq(Rows)
  BY DEF RowsInv, Plausible
<1>2. more \in Seq(Rows) /\ \E p : Reorders(p, rows, more)
  BY <1>1, ExchangeReorders
<1> HIDE DEF more
<1>3. /\ Evidence(Current(rows)) /\ Evidence(Current(more))
      /\ \E q : Reorders(q, Current(rows), Current(more))
      /\ DeltaEvidence(Deltas(rows)) /\ DeltaEvidence(Deltas(more))
      /\ \E q : Reorders(q, Deltas(rows), Deltas(more))
  BY <1>1, <1>2, ReorderedEvidence
<1>4. SaysTheSame(Current(rows), Current(more)) /\ CountsTheSame(Deltas(rows), Deltas(more))
  BY <1>3, ReorderedSays, ReorderedCounts
<1>5. FindingsOf(more) = FindingsOf(rows)
  BY <1>3, <1>4, SameFindings
<1> QED
  BY <1>5 DEF more

\* When no list is cut, the order of a server's rows makes no difference to
\* the findings (the maps and loops of the MySQL rules).
THEOREM OrderMakesNoDifference == CollectorsSpec => []OrderDoesNotMatter
<1>1. RowsInv => OrderDoesNotMatter
  BY OrderFromRows
<1> QED
  BY <1>1, RowsArePlausible, PTL
=============================================================================
