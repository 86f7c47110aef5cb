---------------------------- MODULE PlannerProofs ----------------------------
(***************************************************************************)
(* Proofs about RunBatch for any number of jobs and any concurrency, and,  *)
(* from them, about Planner.Run for any collectors, window, answers and    *)
(* clock.                                                                  *)
(*                                                                         *)
(* BatchInv keeps the books of the jobs: the producer has handed out       *)
(* exactly the jobs before next, each is with one worker or in the buffer  *)
(* unless a cancelled worker dropped it, and a worker only ends on a       *)
(* closed channel or a cancelled context.  PlannerInv adds which collector *)
(* a job stands for, which phases are behind, under way or ahead, when     *)
(* each sample was taken and how the database's counter got from a         *)
(* sample's value to the present one.                                      *)
(***************************************************************************)
EXTENDS Planner, FiniteSetTheorems, TLAPS

-----------------------------------------------------------------------------
(* One batch *)

\* The pool has at least one worker for a batch with jobs and never more than
\* there are jobs or than maxConcurrency allows.
LEMMA LimitBounds ==
    ASSUME NEW n \in Nat
    PROVE  /\ Limit(n) \in 0..n
           /\ n >= 1 => Limit(n) >= 1
           /\ Limit(n) <= Concurrency /\ Concurrency \in Nat
BY BatchAssumption DEF Limit, Concurrency

\* As many numbers as there are.
LEMMA CountUpTo ==
    ASSUME NEW n \in Nat
    PROVE  IsFiniteSet(1..n) /\ Cardinality(1..n) = n
BY FS_Interval

\* The initial state has an idle batch, about which BatchInv says little.
LEMMA InitInv == Init => BatchInv
<1> SUFFICES ASSUME Init PROVE BatchInv
  OBVIOUS
<1> USE BatchAssumption
<1>1. TypeOK
  BY DEF Init, BatchIdle, TypeOK, Slots
<1>2. Workers = {} /\ Delivered = {}
  <2>1. Limit(0) = 0
    BY LimitBounds
  <2> QED
    BY <2>1 DEF Init, BatchIdle, Workers, Delivered
<1> QED
  BY <1>1, <1>2 DEF Init, BatchIdle, BatchInv, HeldWhileBusy, Busy, HandedOver, ProducerInOrder,
                    PoolOfWorkers, AtMostOnce, NoJobLost, ReturnedComplete, Returned

\* Buffering a result adds it to the delivered ones, at the end.
LEMMA AppendResult ==
    ASSUME TypeOK, NEW w \in Slots, resultCh' = Append(resultCh, held[w]), held[w] \in 1..jobs
    PROVE  /\ resultCh' \in Seq(1..jobs)
           /\ DOMAIN resultCh' = DOMAIN resultCh \cup {Len(resultCh) + 1}
           /\ Len(resultCh) + 1 \notin DOMAIN resultCh
           /\ \A i \in DOMAIN resultCh : resultCh'[i] = resultCh[i]
           /\ resultCh'[Len(resultCh) + 1] = held[w]
           /\ Delivered' = Delivered \cup {held[w]}
<1>1. resultCh \in Seq(1..jobs) /\ Len(resultCh) \in Nat /\ DOMAIN resultCh = 1..Len(resultCh)
  BY DEF TypeOK
<1>2. resultCh' \in Seq(1..jobs) /\ Len(resultCh') = Len(resultCh) + 1
  BY <1>1
<1>3. DOMAIN resultCh' = 1..(Len(resultCh) + 1)
  BY <1>1, <1>2
<1>4. DOMAIN resultCh' = DOMAIN resultCh \cup {Len(resultCh) + 1}
  BY <1>1, <1>3
<1>5. \A i \in DOMAIN resultCh : resultCh'[i] = resultCh[i]
  BY <1>1
<1>6. resultCh'[Len(resultCh) + 1] = held[w]
  BY <1>1
<1>7. Delivered' = Delivered \cup {held[w]}
  BY <1>1, <1>4, <1>5, <1>6 DEF Delivered
<1> QED
  BY <1>1, <1>2, <1>4, <1>5, <1>6, <1>7

-----------------------------------------------------------------------------
\* Starting a batch opens the books, whatever an earlier batch left in them:
\* nothing handed over, the workers of the pool waiting.
LEMMA StartInv ==
    ASSUME cancelled \in BOOLEAN, NEW n \in 0..MaxJobs, StartBatch(n)
    PROVE  BatchInv'
<1> USE BatchAssumption
<1>1. /\ Limit(n) \in 0..n
      /\ n = 0 => Limit(n) = 0
      /\ n >= 1 => Limit(n) >= 1
  BY LimitBounds
<1>2. /\ jobs' = n /\ n \in Nat /\ next' = 1 /\ resultCh' = <<>> /\ cancelled' = cancelled
      /\ held' = [w \in Slots |-> 0]
      /\ producer' = IF n = 0 THEN "off" ELSE "check"
      /\ batch' = IF n = 0 THEN "ok" ELSE "running"
  BY DEF StartBatch
<1>3. Delivered' = {}
  BY <1>2 DEF Delivered
<1>4. worker' = [w \in Slots |-> IF w \in 1..Limit(n) THEN "range" ELSE "off"]
  <2>1. CASE n = 0
    BY <1>1, <2>1 DEF StartBatch
  <2>2. CASE n # 0
    BY <2>2 DEF StartBatch
  <2> QED
    BY <2>1, <2>2
<1>5. Workers' = 1..Limit(n)
  BY <1>2 DEF Workers
<1>6. TypeOK'
  BY <1>2, <1>4 DEF TypeOK
<1>7. HeldWhileBusy'
  BY <1>2, <1>4 DEF HeldWhileBusy, Busy
<1>8. HandedOver'
  BY <1>2 DEF HandedOver
<1>9. ProducerInOrder'
  BY <1>2 DEF ProducerInOrder
<1>10. PoolOfWorkers'
  BY <1>2, <1>4, <1>5 DEF PoolOfWorkers
<1>11. AtMostOnce'
  BY <1>2, <1>3 DEF AtMostOnce
<1>12. NoJobLost'
  BY <1>2 DEF NoJobLost
<1>13. ReturnedComplete'
  BY <1>1, <1>2, <1>3, <1>4 DEF ReturnedComplete, Returned
<1> QED
  BY <1>6, <1>7, <1>8, <1>9, <1>10, <1>11, <1>12, <1>13 DEF BatchInv

\* The producer's own moves hand nothing over; the loop's test is what makes
\* it close the channel after the last job and not before.
LEMMA ProducerInv ==
    ASSUME BatchInv, ProducerCheck \/ ProducerStop
    PROVE  BatchInv'
<1>1. UNCHANGED <<cancelled, batch, jobs, next, worker, held, resultCh>>
  BY DEF ProducerCheck, ProducerStop
<1>2. UNCHANGED <<Delivered, Workers>>
  BY <1>1 DEF Delivered, Workers
<1>3. /\ producer' \in {"closed", "select"}
      /\ producer \in {"check", "select"}
      /\ producer' = "select" => next <= jobs
      /\ producer' = "closed" => cancelled \/ next > jobs
  BY DEF ProducerCheck, ProducerStop, BatchInv, TypeOK
<1>4. TypeOK'
  BY <1>1, <1>3 DEF TypeOK, BatchInv
<1>5. ProducerInOrder'
  BY <1>1, <1>3 DEF ProducerInOrder, TypeOK, BatchInv
<1>6. PoolOfWorkers'
  BY <1>1, <1>2, <1>3 DEF PoolOfWorkers, BatchInv
<1>7. AtMostOnce' /\ NoJobLost' /\ ReturnedComplete' /\ HeldWhileBusy' /\ HandedOver'
  BY <1>1, <1>2 DEF AtMostOnce, NoJobLost, ReturnedComplete, Returned, HeldWhileBusy, HandedOver, BatchInv
<1> QED
  BY <1>4, <1>5, <1>6, <1>7 DEF BatchInv

\* The hand-over on the unbuffered channel: the job is new to everybody.
LEMMA SendInv ==
    ASSUME BatchInv, NEW w \in Slots, Send(w)
    PROVE  BatchInv'
<1> USE DEF Send
<1>1. /\ TypeOK /\ HeldWhileBusy /\ HandedOver /\ ProducerInOrder
      /\ PoolOfWorkers /\ AtMostOnce /\ NoJobLost /\ ReturnedComplete
  BY DEF BatchInv
<1>2. /\ next \in 1..jobs /\ jobs \in Nat
      /\ held[w] = 0
      /\ ~Returned
  <2>1. next <= jobs
    BY <1>1 DEF ProducerInOrder
  <2>2. held[w] = 0
    BY <1>1 DEF HeldWhileBusy, Busy
  <2>3. ~Returned
    BY <1>1 DEF ReturnedComplete, Returned
  <2> QED
    BY <1>1, <2>1, <2>2, <2>3 DEF TypeOK
<1>3. UNCHANGED <<Delivered, Workers>>
  BY DEF Delivered, Workers
<1>4. /\ held'[w] = next /\ worker'[w] = "check"
      /\ \A v \in Slots \ {w} : held'[v] = held[v] /\ worker'[v] = worker[v]
  BY <1>1 DEF TypeOK
<1>5. TypeOK'
  BY <1>1, <1>2 DEF TypeOK
<1>6. HeldWhileBusy'
  BY <1>1, <1>2, <1>4 DEF HeldWhileBusy, Busy
<1>7. HandedOver'
  <2>1. \A v \in Slots : held'[v] < next'
    BY <1>1, <1>2, <1>4 DEF HandedOver, TypeOK
  <2>2. \A i \in DOMAIN resultCh' : resultCh'[i] < next'
    BY <1>1, <1>2 DEF HandedOver, TypeOK
  <2> QED
    BY <2>1, <2>2 DEF HandedOver
<1>8. ProducerInOrder'
  BY DEF ProducerInOrder
<1>9. PoolOfWorkers'
  <2>1. \A v \in Slots : worker'[v] = "off" <=> v \notin Workers'
    BY <1>1, <1>3, <1>4 DEF PoolOfWorkers
  <2>2. \A v \in Slots : worker'[v] = "done" => cancelled'
    BY <1>1, <1>4 DEF PoolOfWorkers
  <2> QED
    BY <1>1, <2>1, <2>2 DEF PoolOfWorkers
<1>10. AtMostOnce'
  <2>1. next \notin Delivered
    BY <1>1, <1>2 DEF HandedOver, Delivered
  <2>2. \A v \in Slots : held[v] # next
    BY <1>1, <1>2 DEF HandedOver
  <2>3. \A u, v \in Slots : held'[u] # 0 /\ held'[u] = held'[v] => u = v
    BY <1>1, <1>2, <1>4, <2>2 DEF AtMostOnce
  <2>4. \A v \in Slots : held'[v] \notin Delivered'
    BY <1>1, <1>3, <1>4, <2>1 DEF AtMostOnce
  <2> QED
    BY <1>1, <2>3, <2>4 DEF AtMostOnce
<1>11. NoJobLost'
  <2> SUFFICES ASSUME ~cancelled, NEW j \in 1..next
               PROVE  j \in Delivered \/ \E v \in Slots : held'[v] = j
    BY <1>2, <1>3 DEF NoJobLost
  <2>1. CASE j = next
    BY <1>4, <2>1
  <2>2. CASE j # next
    BY <1>1, <1>2, <1>4, <2>2 DEF NoJobLost
  <2> QED
    BY <2>1, <2>2
<1>12. ReturnedComplete'
  BY <1>2 DEF ReturnedComplete, Returned
<1> QED
  BY <1>5, <1>6, <1>7, <1>8, <1>9, <1>10, <1>11, <1>12 DEF BatchInv

\* A worker leaves the range loop: the channel's closing is what it passes on.
LEMMA WorkerExitInv ==
    ASSUME BatchInv, NEW w \in Slots, WorkerExit(w)
    PROVE  BatchInv'
<1> USE DEF WorkerExit
<1>1. /\ TypeOK /\ HeldWhileBusy /\ HandedOver /\ ProducerInOrder
      /\ PoolOfWorkers /\ AtMostOnce /\ NoJobLost /\ ReturnedComplete
  BY DEF BatchInv
<1>2. UNCHANGED <<Delivered, Workers>>
  BY DEF Delivered, Workers
<1>3. /\ worker'[w] = "done"
      /\ \A v \in Slots \ {w} : worker'[v] = worker[v]
  BY <1>1 DEF TypeOK
<1>4. TypeOK'
  BY <1>1 DEF TypeOK
<1>5. HeldWhileBusy'
  BY <1>1, <1>3 DEF HeldWhileBusy, Busy
<1>6. PoolOfWorkers'
  BY <1>1, <1>2, <1>3 DEF PoolOfWorkers
<1>7. ReturnedComplete'
  BY <1>1, <1>2, <1>3 DEF ReturnedComplete, Returned
<1>8. HandedOver' /\ ProducerInOrder' /\ AtMostOnce' /\ NoJobLost'
  BY <1>1, <1>2 DEF HandedOver, ProducerInOrder, AtMostOnce, NoJobLost
<1> QED
  BY <1>4, <1>5, <1>6, <1>7, <1>8 DEF BatchInv

\* The worker's test of the context: the only place where a job goes missing,
\* and then the context is cancelled.
LEMMA WorkerCheckInv ==
    ASSUME BatchInv, NEW w \in Slots, WorkerCheck(w)
    PROVE  BatchInv'
<1> USE DEF WorkerCheck
<1>1. /\ TypeOK /\ HeldWhileBusy /\ HandedOver /\ ProducerInOrder
      /\ PoolOfWorkers /\ AtMostOnce /\ NoJobLost /\ ReturnedComplete
  BY DEF BatchInv
<1>2. UNCHANGED <<Delivered, Workers>>
  BY DEF Delivered, Workers
<1>3. /\ worker'[w] = (IF cancelled THEN "done" ELSE "collect")
      /\ held'[w] = (IF cancelled THEN 0 ELSE held[w])
      /\ held[w] # 0
      /\ \A v \in Slots \ {w} : worker'[v] = worker[v] /\ held'[v] = held[v]
  BY <1>1 DEF TypeOK, HeldWhileBusy, Busy
<1>4. TypeOK'
  BY <1>1 DEF TypeOK
<1>5. HeldWhileBusy'
  BY <1>1, <1>3 DEF HeldWhileBusy, Busy
<1>6. PoolOfWorkers'
  BY <1>1, <1>2, <1>3 DEF PoolOfWorkers
<1>7. HandedOver'
  BY <1>1, <1>3 DEF HandedOver, TypeOK
<1>8. AtMostOnce'
  <2>1. 0 \notin Delivered
    BY <1>1 DEF TypeOK, Delivered
  <2>2. \A v \in Slots : held'[v] \notin Delivered
    BY <1>1, <1>3, <2>1 DEF AtMostOnce
  <2>3. \A u, v \in Slots : held'[u] # 0 /\ held'[u] = held'[v] => u = v
    BY <1>1, <1>3 DEF AtMostOnce
  <2> QED
    BY <1>1, <1>2, <2>2, <2>3 DEF AtMostOnce
<1>9. NoJobLost'
  BY <1>1, <1>2, <1>3 DEF NoJobLost
<1>10. ReturnedComplete'
  BY <1>1, <1>2, <1>3 DEF ReturnedComplete, Returned
<1>11. ProducerInOrder'
  BY <1>1 DEF ProducerInOrder
<1> QED
  BY <1>4, <1>5, <1>6, <1>7, <1>8, <1>9, <1>10, <1>11 DEF BatchInv

\* Collect's return changes nothing in the books.
LEMMA CollectReturnsInv ==
    ASSUME BatchInv, NEW w \in Slots, CollectReturns(w)
    PROVE  BatchInv'
<1> USE DEF CollectReturns
<1>1. /\ TypeOK /\ HeldWhileBusy /\ HandedOver /\ ProducerInOrder
      /\ PoolOfWorkers /\ AtMostOnce /\ NoJobLost /\ ReturnedComplete
  BY DEF BatchInv
<1>2. UNCHANGED <<Delivered, Workers>>
  BY DEF Delivered, Workers
<1>3. /\ worker'[w] = "send"
      /\ \A v \in Slots \ {w} : worker'[v] = worker[v]
  BY <1>1 DEF TypeOK
<1>4. TypeOK'
  BY <1>1 DEF TypeOK
<1>5. HeldWhileBusy'
  BY <1>1, <1>3 DEF HeldWhileBusy, Busy
<1>6. PoolOfWorkers'
  BY <1>1, <1>2, <1>3 DEF PoolOfWorkers
<1>7. ReturnedComplete'
  BY <1>1, <1>2, <1>3 DEF ReturnedComplete, Returned
<1>8. HandedOver' /\ ProducerInOrder' /\ AtMostOnce' /\ NoJobLost'
  BY <1>1, <1>2 DEF HandedOver, ProducerInOrder, AtMostOnce, NoJobLost
<1> QED
  BY <1>4, <1>5, <1>6, <1>7, <1>8 DEF BatchInv

\* A delivered job changes pages: from its worker to the buffer.
LEMMA SendResultInv ==
    ASSUME BatchInv, NEW w \in Slots, SendResult(w)
    PROVE  BatchInv'
<1> USE DEF SendResult
<1>1. /\ TypeOK /\ HeldWhileBusy /\ HandedOver /\ ProducerInOrder
      /\ PoolOfWorkers /\ AtMostOnce /\ NoJobLost /\ ReturnedComplete
  BY DEF BatchInv
<1>2. held[w] \in 1..jobs
  BY <1>1 DEF TypeOK, HeldWhileBusy, Busy
<1>3. /\ resultCh' \in Seq(1..jobs)
      /\ DOMAIN resultCh' = DOMAIN resultCh \cup {Len(resultCh) + 1}
      /\ Len(resultCh) + 1 \notin DOMAIN resultCh
      /\ \A i \in DOMAIN resultCh : resultCh'[i] = resultCh[i]
      /\ resultCh'[Len(resultCh) + 1] = held[w]
      /\ Delivered' = Delivered \cup {held[w]}
  BY <1>1, <1>2, AppendResult
<1>4. /\ worker'[w] = "range" /\ held'[w] = 0
      /\ \A v \in Slots \ {w} : worker'[v] = worker[v] /\ held'[v] = held[v]
      /\ Workers' = Workers
  BY <1>1 DEF TypeOK, Workers
<1>5. TypeOK'
  BY <1>1, <1>3 DEF TypeOK
<1>6. HeldWhileBusy'
  BY <1>1, <1>4 DEF HeldWhileBusy, Busy
<1>7. HandedOver'
  <2>1. \A v \in Slots : held'[v] < next'
    BY <1>1, <1>4 DEF HandedOver, TypeOK
  <2>2. \A i \in DOMAIN resultCh' : resultCh'[i] < next'
    BY <1>1, <1>3 DEF HandedOver
  <2> QED
    BY <2>1, <2>2 DEF HandedOver
<1>8. ProducerInOrder'
  BY <1>1 DEF ProducerInOrder
<1>9. PoolOfWorkers'
  BY <1>1, <1>4 DEF PoolOfWorkers
<1>10. AtMostOnce'
  <2>1. \A u, v \in Slots : held'[u] # 0 /\ held'[u] = held'[v] => u = v
    BY <1>1, <1>4 DEF AtMostOnce
  <2>2. \A v \in Slots : held'[v] \notin Delivered'
    <3> SUFFICES ASSUME NEW v \in Slots PROVE held'[v] \notin Delivered \cup {held[w]}
      BY <1>3
    <3>1. CASE v = w
      <4>1. 0 \notin Delivered
        BY <1>1 DEF TypeOK, Delivered
      <4> QED
        BY <3>1, <4>1, <1>2, <1>4
    <3>2. CASE v # w
      BY <3>2, <1>1, <1>2, <1>4 DEF AtMostOnce
    <3> QED
      BY <3>1, <3>2
  <2>3. \A i \in DOMAIN resultCh : resultCh[i] # held[w]
    BY <1>1 DEF AtMostOnce, Delivered
  <2>4. \A i, k \in DOMAIN resultCh' : resultCh'[i] = resultCh'[k] => i = k
    BY <1>1, <1>3, <2>3 DEF AtMostOnce
  <2> QED
    BY <2>1, <2>2, <2>4 DEF AtMostOnce
<1>11. NoJobLost'
  <2> SUFFICES ASSUME ~cancelled, NEW j \in 1..(next - 1)
               PROVE  j \in Delivered' \/ \E v \in Slots : held'[v] = j
    BY DEF NoJobLost
  <2>1. CASE j \in Delivered
    BY <1>3, <2>1
  <2>2. CASE j \notin Delivered
    <3>1. PICK v \in Slots : held[v] = j
      BY <1>1, <2>2 DEF NoJobLost
    <3> QED
      BY <1>3, <1>4, <3>1
  <2> QED
    BY <2>1, <2>2
<1>12. ReturnedComplete'
  BY <1>1 DEF ReturnedComplete, Returned
<1> QED
  BY <1>5, <1>6, <1>7, <1>8, <1>9, <1>10, <1>11, <1>12 DEF BatchInv

\* Join finds every job delivered unless the context was cancelled: the
\* workers ended on a closed channel, so the producer was through.
LEMMA JoinInv ==
    ASSUME BatchInv, Join
    PROVE  BatchInv' /\ batch' \in {"ok", "cancelled"}
<1> USE BatchAssumption
<1>1. /\ TypeOK /\ HeldWhileBusy /\ HandedOver /\ ProducerInOrder
      /\ PoolOfWorkers /\ AtMostOnce /\ NoJobLost /\ ReturnedComplete
  BY DEF BatchInv
<1>2. /\ UNCHANGED <<cancelled, jobs, producer, next, worker, held, resultCh>>
      /\ batch' = IF cancelled THEN "cancelled" ELSE "ok"
      /\ batch = "running"
  BY DEF Join
<1>3. UNCHANGED <<Delivered, Workers>>
  BY <1>2 DEF Delivered, Workers
<1>4. \A w \in Slots : worker[w] \in {"off", "done"} /\ held[w] = 0
  BY <1>1 DEF Join, PoolOfWorkers, HeldWhileBusy, Busy
<1>5. ASSUME ~cancelled PROVE Delivered = 1..jobs
  <2>1. 1 \in Workers /\ 1 \in Slots
    <3>1. jobs \in Nat /\ jobs >= 1 /\ jobs <= MaxJobs
      BY <1>1, <1>2 DEF PoolOfWorkers, TypeOK
    <3> QED
      BY <3>1, LimitBounds DEF Workers, Slots
  <2>2. producer = "closed"
    BY <1>1, <1>5, <2>1 DEF Join, PoolOfWorkers
  <2>3. next - 1 = jobs
    BY <1>1, <1>5, <2>2 DEF ProducerInOrder, TypeOK
  <2>4. 1..jobs \subseteq Delivered
    BY <1>1, <1>4, <1>5, <2>3 DEF NoJobLost
  <2>5. Delivered \subseteq 1..jobs
    BY <1>1 DEF TypeOK, Delivered
  <2> QED
    BY <2>4, <2>5
<1>6. TypeOK'
  BY <1>1, <1>2 DEF TypeOK
<1>7. PoolOfWorkers'
  BY <1>1, <1>2, <1>3 DEF PoolOfWorkers
<1>8. ReturnedComplete'
  BY <1>2, <1>3, <1>4, <1>5 DEF ReturnedComplete, Returned
<1>9. HeldWhileBusy' /\ HandedOver' /\ ProducerInOrder' /\ AtMostOnce' /\ NoJobLost'
  BY <1>1, <1>2, <1>3 DEF HeldWhileBusy, HandedOver, ProducerInOrder, AtMostOnce, NoJobLost
<1> QED
  BY <1>2, <1>6, <1>7, <1>8, <1>9 DEF BatchInv

\* The caller cancels, or nothing happens.
LEMMA QuietInv ==
    ASSUME BatchInv, Cancel \/ UNCHANGED vars
    PROVE  BatchInv'
<1>1. UNCHANGED batchVars /\ (cancelled => cancelled') /\ cancelled' \in BOOLEAN
  BY DEF Cancel, vars, BatchInv, TypeOK
<1>2. UNCHANGED <<Delivered, Workers>>
  BY <1>1 DEF Delivered, Workers, batchVars
<1> QED
  BY <1>1, <1>2 DEF BatchInv, TypeOK, HeldWhileBusy, HandedOver, ProducerInOrder, PoolOfWorkers,
                    AtMostOnce, NoJobLost, ReturnedComplete, Returned, batchVars

\* Every step of the producer, of a worker or of the caller keeps it.
LEMMA StepInv == BatchInv /\ [Next]_vars => BatchInv'
<1> SUFFICES ASSUME BatchInv, [Next]_vars PROVE BatchInv'
  OBVIOUS
<1>1. CASE Call
  BY <1>1, StartInv DEF Call, BatchInv, TypeOK
<1>2. CASE ProducerStep
  BY <1>2, ProducerInv, SendInv DEF ProducerStep
<1>3. CASE \E w \in Slots : WorkerStep(w)
  BY <1>3, WorkerExitInv, WorkerCheckInv, CollectReturnsInv, SendResultInv DEF WorkerStep
<1>4. CASE Join
  BY <1>4, JoinInv
<1>5. CASE Cancel \/ Finished \/ UNCHANGED vars
  BY <1>5, QuietInv DEF Finished
<1> QED
  BY <1>1, <1>2, <1>3, <1>4, <1>5 DEF Next

\* BatchInv holds in every reachable state of runBatch.
THEOREM Bookkeeping == Spec => []BatchInv
<1>1. Init => BatchInv
  BY InitInv
<1>2. BatchInv /\ [Next]_vars => BatchInv'
  BY StepInv
<1> QED
  BY <1>1, <1>2, PTL DEF Spec

-----------------------------------------------------------------------------
\* The variables of runBatch keep their types, whatever the batch's size.
THEOREM TypeCorrect == Spec => []TypeOK
<1>1. BatchInv => TypeOK
  BY DEF BatchInv
<1> QED
  BY <1>1, Bookkeeping, PTL

\* No job is collected twice, or delivered twice.
THEOREM CollectsAtMostOnce == Spec => []AtMostOnce
<1>1. BatchInv => AtMostOnce
  BY DEF BatchInv
<1> QED
  BY <1>1, Bookkeeping, PTL

\* Without a cancellation no job the producer handed over goes missing.
THEOREM LosesNoJob == Spec => []NoJobLost
<1>1. BatchInv => NoJobLost
  BY DEF BatchInv
<1> QED
  BY <1>1, Bookkeeping, PTL

\* The buffered results as a function: different places, different jobs.
LEMMA ResultsInjective ==
    ASSUME BatchInv
    PROVE  /\ Len(resultCh) \in Nat /\ jobs \in Nat
           /\ resultCh \in Injection(1..Len(resultCh), 1..jobs)
<1>1. resultCh \in Seq(1..jobs) /\ jobs \in Nat
  BY DEF BatchInv, TypeOK
<1>2. Len(resultCh) \in Nat /\ DOMAIN resultCh = 1..Len(resultCh)
      /\ resultCh \in [1..Len(resultCh) -> 1..jobs]
  BY <1>1
<1>3. \A i, k \in DOMAIN resultCh : resultCh[i] = resultCh[k] => i = k
  BY DEF BatchInv, AtMostOnce
<1> QED
  BY <1>1, <1>2, <1>3 DEF Injection, IsInjective

\* A nil error means every job's result, each once.
THEOREM ReturnsAllOrError == Spec => []AllResultsOrError
<1>1. ASSUME BatchInv PROVE AllResultsOrError
  <2> SUFFICES ASSUME batch = "ok" PROVE Len(resultCh) = jobs /\ Delivered = 1..jobs
    BY DEF AllResultsOrError
  <2>1. Delivered = 1..jobs
    BY <1>1 DEF BatchInv, ReturnedComplete
  <2>2. /\ Len(resultCh) \in Nat /\ jobs \in Nat
        /\ resultCh \in Injection(1..Len(resultCh), 1..jobs)
    BY <1>1, ResultsInjective
  <2>3. DOMAIN resultCh = 1..Len(resultCh)
    BY <2>2 DEF Injection
  <2>4. resultCh \in Surjection(1..Len(resultCh), 1..jobs)
    BY <2>1, <2>2, <2>3 DEF Delivered, Injection, Surjection
  <2>5. ExistsBijection(1..Len(resultCh), 1..jobs)
    BY <2>2, <2>4 DEF ExistsBijection, Bijection
  <2>6. Cardinality(1..jobs) = Len(resultCh)
    BY <2>2, <2>5, FS_CountingElements
  <2>7. Cardinality(1..jobs) = jobs
    BY <2>2, CountUpTo
  <2> QED
    BY <2>1, <2>6, <2>7
<1> QED
  BY <1>1, Bookkeeping, PTL

\* A worker that has a result to send finds room in the buffer, because the
\* results there are of other jobs of the batch.
THEOREM BufferNeverFull == Spec => []SendNeverBlocks
<1>1. ASSUME BatchInv PROVE SendNeverBlocks
  <2> SUFFICES ASSUME NEW w \in Slots, worker[w] = "send"
               PROVE  Len(resultCh) < jobs
    BY DEF SendNeverBlocks, ResultCapacity
  <2> DEFINE others == (1..jobs) \ {held[w]}
  <2>1. held[w] \in 1..jobs /\ held[w] \notin Delivered
    BY <1>1 DEF BatchInv, HeldWhileBusy, Busy, TypeOK, AtMostOnce
  <2>2. /\ Len(resultCh) \in Nat /\ jobs \in Nat
        /\ resultCh \in Injection(1..Len(resultCh), 1..jobs)
    BY <1>1, ResultsInjective
  <2>3. \A i \in 1..Len(resultCh) : resultCh[i] \in others
    BY <2>1, <2>2 DEF Delivered, Injection
  <2>4. resultCh \in Injection(1..Len(resultCh), others)
    BY <2>2, <2>3 DEF Injection, IsInjective
  <2>5. IsFiniteSet(1..jobs) /\ Cardinality(1..jobs) = jobs
    BY <2>2, CountUpTo
  <2>6. IsFiniteSet(others) /\ Cardinality(others) = jobs - 1
    BY <2>1, <2>5, FS_RemoveElement
  <2>7. Cardinality(1..Len(resultCh)) <= jobs - 1
    BY <2>4, <2>6, FS_Injection
  <2>8. Cardinality(1..Len(resultCh)) = Len(resultCh)
    BY <2>2, CountUpTo
  <2> QED
    BY <2>2, <2>7, <2>8
<1> QED
  BY <1>1, Bookkeeping, PTL

\* Never more collectors at work than maxConcurrency allows: only workers of
\* the pool collect.
THEOREM StaysWithinBound == Spec => []ConcurrencyBound
<1>1. ASSUME BatchInv PROVE ConcurrencyBound
  <2>1. jobs \in Nat
    BY <1>1 DEF BatchInv, TypeOK
  <2>2. Limit(jobs) \in Nat /\ Concurrency \in Nat /\ Limit(jobs) <= Concurrency
    BY <2>1, LimitBounds
  <2>3. Collecting \in SUBSET Workers
    BY <1>1 DEF BatchInv, PoolOfWorkers, Collecting
  <2>4. IsFiniteSet(Workers) /\ Cardinality(Workers) = Limit(jobs)
    BY <2>2, CountUpTo DEF Workers
  <2>5. IsFiniteSet(Collecting) /\ Cardinality(Collecting) <= Cardinality(Workers)
    BY <2>3, <2>4, FS_Subset
  <2>6. Cardinality(Collecting) \in Nat
    BY <2>5, FS_CardinalityType
  <2> QED
    BY <2>2, <2>4, <2>5, <2>6 DEF ConcurrencyBound
<1> QED
  BY <1>1, Bookkeeping, PTL

\* A cancelled context starts no collector: only WorkerCheck lets a worker
\* begin, and it looks at the context.
THEOREM CancelStopsCollecting == Spec => NoStartAfterCancel
<1>1. ASSUME TypeOK, [Next]_vars, cancelled PROVE Collecting' \subseteq Collecting
  <2> SUFFICES ASSUME NEW w \in Slots, worker'[w] = "collect" PROVE worker[w] = "collect"
    BY DEF Collecting
  <2>1. worker \in [Slots -> {"off", "range", "check", "collect", "send", "done"}]
    BY <1>1 DEF TypeOK
  <2>2. CASE Call
    BY <2>2 DEF Call, StartBatch
  <2>3. CASE ProducerStep
    BY <2>1, <2>3 DEF ProducerStep, ProducerCheck, ProducerStop, Send
  <2>4. CASE \E v \in Slots : WorkerStep(v)
    BY <1>1, <2>1, <2>4 DEF WorkerStep, WorkerExit, WorkerCheck, CollectReturns, SendResult
  <2>5. CASE Cancel \/ Join \/ Finished \/ UNCHANGED vars
    BY <2>5 DEF Cancel, Join, Finished, vars, batchVars
  <2> QED
    BY <1>1, <2>2, <2>3, <2>4, <2>5 DEF Next
<1>2. TypeOK /\ [Next]_vars => [cancelled => Collecting' \subseteq Collecting]_vars
  BY <1>1
<1> QED
  BY <1>2, TypeCorrect, PTL DEF Spec, NoStartAfterCancel

-----------------------------------------------------------------------------
\* Jobs that run are jobs of the batch, and a worker about to begin one finds
\* a place free: the running jobs are at most the other workers of the pool.
LEMMA RoomToBegin ==
    ASSUME BatchInv, NEW w \in Slots, worker[w] = "check"
    PROVE  Cardinality(Running) < Concurrency
<1> DEFINE A == {v \in Slots : worker[v] \in {"collect", "send"}}
           f == [v \in A |-> held[v]]
<1>1. jobs \in Nat
  BY DEF BatchInv, TypeOK
<1>2. Limit(jobs) \in Nat /\ Concurrency \in Nat /\ Limit(jobs) <= Concurrency
  BY <1>1, LimitBounds
<1>3. w \in Workers /\ A \in SUBSET (Workers \ {w})
  BY DEF BatchInv, PoolOfWorkers
<1>4. IsFiniteSet(Workers) /\ Cardinality(Workers) = Limit(jobs)
  BY <1>2, CountUpTo DEF Workers
<1>5. IsFiniteSet(Workers \ {w}) /\ Cardinality(Workers \ {w}) = Limit(jobs) - 1
  BY <1>3, <1>4, FS_RemoveElement
<1>6. IsFiniteSet(A) /\ Cardinality(A) <= Limit(jobs) - 1
  BY <1>3, <1>5, FS_Subset
<1>7. f \in Surjection(A, Running)
  BY DEF Surjection, Running
<1> HIDE DEF A, f
<1>8. IsFiniteSet(Running) /\ Cardinality(Running) <= Cardinality(A)
  BY <1>6, <1>7, FS_Surjection
<1>9. Cardinality(Running) \in Nat /\ Cardinality(A) \in Nat
  BY <1>6, <1>8, FS_CardinalityType
<1> QED
  BY <1>2, <1>6, <1>8, <1>9

\* BatchSpec's copy of the library's operator is the same operator.
LEMMA SameCardinality == ASSUME NEW S PROVE Promise!Cardinality(S) = Cardinality(S)
BY Zenon DEF Cardinality, IsFiniteSet, Promise!Cardinality, Promise!IsFiniteSet

\* A step that leaves the jobs where they are is none of BatchSpec's.
LEMMA QuietRefines ==
    ASSUME BatchInv, BatchInv', ProducerStep \/ UNCHANGED vars
           \/ \E w \in Slots : WorkerExit(w) \/ CollectReturns(w)
    PROVE  UNCHANGED Promise!specVars
<1> DEFINE inHand(w) == worker[w] \in {"collect", "send"}
<1>1. UNCHANGED <<cancelled, batch, jobs, resultCh>>
  BY DEF ProducerStep, ProducerCheck, ProducerStop, Send, WorkerExit, CollectReturns, vars, batchVars
<1>2. /\ worker \in [Slots -> {"off", "range", "check", "collect", "send", "done"}]
      /\ held \in [Slots -> 0..jobs]
  BY DEF BatchInv, TypeOK
<1>3. \A w \in Slots : /\ inHand(w) <=> inHand(w)'
                       /\ inHand(w) => held'[w] = held[w]
  BY <1>2 DEF ProducerStep, ProducerCheck, ProducerStop, Send, WorkerExit, CollectReturns, vars, batchVars
<1>4. Running' = Running
  BY <1>3 DEF Running
<1>5. Delivered' = Delivered /\ Todo' = Todo
  BY <1>1, <1>4 DEF Delivered, Todo
<1> QED
  BY <1>1, <1>4, <1>5 DEF Promise!specVars

\* The call is the request.
LEMMA StartRefines ==
    ASSUME BatchInv, BatchInv', NEW n \in 0..MaxJobs, batch = "idle", StartBatch(n)
    PROVE  Promise!Request(n)
<1>1. Limit(0) = 0
  BY LimitBounds
<1>2. \A w \in Slots : worker[w] = "off"
  BY <1>1 DEF BatchInv, PoolOfWorkers, Workers
<1>3. \A w \in Slots : worker'[w] \in {"off", "range"}
  BY DEF StartBatch
<1>4. Running = {} /\ Running' = {}
  BY <1>2, <1>3 DEF Running
<1>5. resultCh = <<>> /\ resultCh' = <<>> /\ jobs' = n /\ cancelled' = cancelled
  BY DEF StartBatch, BatchInv, PoolOfWorkers, TypeOK
<1>6. Delivered = {} /\ Delivered' = {}
  BY <1>5 DEF Delivered
<1>7. batch' = IF n = 0 THEN "ok" ELSE "running"
  BY DEF StartBatch
<1>8. Todo' = 1..n
  BY <1>4, <1>5, <1>6, <1>7 DEF Todo
<1> QED
  BY <1>4, <1>5, <1>6, <1>7, <1>8 DEF Promise!Request

\* The worker's test of the context begins its job, or drops it unseen.
LEMMA CheckRefines ==
    ASSUME BatchInv, BatchInv', NEW w \in Slots, WorkerCheck(w)
    PROVE  Promise!Begin(held[w]) \/ UNCHANGED Promise!specVars
<1>1. /\ worker[w] = "check" /\ held[w] \in 1..jobs /\ held[w] \notin Delivered
      /\ \A v \in Slots : held[v] = held[w] => v = w
      /\ UNCHANGED <<cancelled, batch, jobs, resultCh>>
      /\ \A v \in Slots \ {w} : worker'[v] = worker[v] /\ held'[v] = held[v]
      /\ worker'[w] = IF cancelled THEN "done" ELSE "collect"
      /\ ~cancelled => held'[w] = held[w]
  BY DEF WorkerCheck, BatchInv, HeldWhileBusy, Busy, TypeOK, AtMostOnce
<1>2. Delivered' = Delivered
  BY <1>1 DEF Delivered
<1>3. held[w] \notin Running
  BY <1>1 DEF Running
<1>4. batch = "running"
  <2>1. batch # "idle"
    <3>1. Limit(0) = 0
      BY LimitBounds
    <3> QED
      BY <1>1, <3>1 DEF BatchInv, PoolOfWorkers, Workers
  <2>2. ~Returned
    BY <1>1 DEF BatchInv, ReturnedComplete
  <2> QED
    BY <2>1, <2>2 DEF BatchInv, TypeOK, Returned
<1>5. CASE cancelled
  <2>1. Running' = Running
    BY <1>1, <1>5 DEF Running
  <2>2. Todo' = Todo
    BY <1>1, <1>2, <2>1 DEF Todo
  <2> QED
    BY <1>1, <1>2, <2>1, <2>2 DEF Promise!specVars
<1>6. CASE ~cancelled
  <2>1. Running' = Running \cup {held[w]}
    BY <1>1, <1>6 DEF Running
  <2>2. Todo' = Todo \ {held[w]} /\ held[w] \in Todo
    BY <1>1, <1>2, <1>3, <1>4, <2>1 DEF Todo
  <2>3. Cardinality(Running) < Concurrency
    BY <1>1, RoomToBegin
  <2>4. Promise!Cardinality(Running) < Concurrency
    BY <2>3, SameCardinality
  <2> QED
    BY <1>1, <1>2, <1>4, <1>6, <2>1, <2>2, <2>4 DEF Promise!Begin
<1> QED
  BY <1>5, <1>6

\* The buffered result finishes its job.
LEMMA ResultRefines ==
    ASSUME BatchInv, BatchInv', NEW w \in Slots, SendResult(w)
    PROVE  Promise!Finish(held[w])
<1>1. /\ worker[w] = "send" /\ held[w] \in 1..jobs
      /\ \A v \in Slots : held[v] = held[w] => v = w
      /\ UNCHANGED <<cancelled, batch, jobs>>
      /\ \A v \in Slots \ {w} : worker'[v] = worker[v] /\ held'[v] = held[v]
      /\ worker'[w] = "range"
  BY DEF SendResult, BatchInv, HeldWhileBusy, Busy, TypeOK, AtMostOnce
<1>2. Delivered' = Delivered \cup {held[w]}
  BY <1>1, AppendResult DEF SendResult, BatchInv
<1>3. held[w] \in Running /\ Running' = Running \ {held[w]}
  BY <1>1 DEF Running
<1>4. Todo' = Todo
  BY <1>1, <1>2, <1>3 DEF Todo
<1>5. batch = "running"
  <2>1. batch # "idle"
    <3>1. Limit(0) = 0
      BY LimitBounds
    <3> QED
      BY <1>1, <3>1 DEF BatchInv, PoolOfWorkers, Workers
  <2>2. ~Returned
    BY <1>1 DEF BatchInv, ReturnedComplete
  <2> QED
    BY <2>1, <2>2 DEF BatchInv, TypeOK, Returned
<1> QED
  BY <1>1, <1>2, <1>3, <1>4, <1>5 DEF Promise!Finish

\* Join succeeds or gives up, with nothing left running.
LEMMA JoinRefines ==
    ASSUME BatchInv, BatchInv', Join
    PROVE  Promise!Succeed \/ Promise!GiveUp
<1>1. /\ UNCHANGED <<cancelled, jobs, worker, held, resultCh>>
      /\ batch' = IF cancelled THEN "cancelled" ELSE "ok"
      /\ batch = "running"
  BY DEF Join
<1>2. \A w \in Slots : worker[w] \in {"off", "done"}
  BY DEF Join, BatchInv, PoolOfWorkers
<1>3. Running = {} /\ Running' = {}
  BY <1>1, <1>2 DEF Running
<1>4. Delivered' = Delivered
  BY <1>1 DEF Delivered
<1>5. Todo' = Todo
  BY <1>1, <1>3, <1>4 DEF Todo
<1>6. ASSUME ~cancelled PROVE Todo = {}
  <2>1. Delivered = 1..jobs
    BY <1>1, <1>4, <1>6 DEF BatchInv, ReturnedComplete
  <2> QED
    BY <2>1 DEF Todo
<1> QED
  BY <1>1, <1>3, <1>4, <1>5, <1>6 DEF Promise!Succeed, Promise!GiveUp

\* runBatch implements BatchSpec, for every number of jobs and workers.
THEOREM ImplementsBatchSpec == Spec => KeepsBatchPromise
<1>1. Init => Promise!SpecInit
  <2> SUFFICES ASSUME Init PROVE Promise!SpecInit
    OBVIOUS
  <2>1. Running = {} /\ Delivered = {} /\ Todo = {}
    BY DEF Init, BatchIdle, Running, Delivered, Todo
  <2> QED
    BY <2>1 DEF Init, BatchIdle, Promise!SpecInit
<1>2. BatchInv /\ BatchInv' /\ [Next]_vars => [Promise!SpecNext]_(Promise!specVars)
  <2> SUFFICES ASSUME BatchInv, BatchInv', [Next]_vars
               PROVE  Promise!SpecNext \/ UNCHANGED Promise!specVars
    OBVIOUS
  <2>1. CASE Call
    BY <2>1, StartRefines DEF Call, Promise!SpecNext
  <2>2. CASE ProducerStep \/ Finished \/ UNCHANGED vars
           \/ \E w \in Slots : WorkerExit(w) \/ CollectReturns(w)
    BY <2>2, QuietRefines DEF Finished
  <2>3. ASSUME NEW w \in Slots, WorkerCheck(w) \/ SendResult(w)
        PROVE  Promise!SpecNext \/ UNCHANGED Promise!specVars
    <3>1. held[w] \in 1..MaxJobs
      BY <2>3, BatchAssumption
         DEF WorkerCheck, SendResult, BatchInv, HeldWhileBusy, Busy, TypeOK
    <3> QED
      BY <2>3, <3>1, CheckRefines, ResultRefines DEF Promise!SpecNext
  <2>4. CASE Join
    BY <2>4, JoinRefines DEF Promise!SpecNext
  <2>5. CASE Cancel
    <3>1. Running' = Running /\ Delivered' = Delivered /\ Todo' = Todo /\ batch' = batch
      BY <2>5 DEF Cancel, batchVars, Running, Delivered, Todo
    <3> QED
      BY <2>5, <3>1 DEF Cancel, Promise!CancelContext, Promise!SpecNext
  <2> QED
    BY <2>1, <2>2, <2>3, <2>4, <2>5 DEF Next, WorkerStep
<1> QED
  BY <1>1, <1>2, Bookkeeping, PTL DEF Spec, KeepsBatchPromise, Promise!BatchPromise

-----------------------------------------------------------------------------
(* The planner *)


Numeric(value) == value \notin {None, NonNumeric}

\* The place of a collector among those of its strategy: its job's index.
Rank(c) == Cardinality({d \in Of(kind[c]) : d <= c})

\* The jobs of the present batch whose collector has been called.
Collected == Delivered \cup {held[w] : w \in {v \in Slots : worker[v] = "send"}}

\* The phases whose results are in, as long as there may be more to come.
PassedPhases ==
    IF stage \in {"wait", "sampleB"} THEN {"single", "sampleA"}
    ELSE IF stage = "sampleA" THEN {"single"} ELSE {}

-----------------------------------------------------------------------------
Evidence == [calls : Nat, value : Int \cup {None, NonNumeric}, err : BOOLEAN, at : Int,
             growth : Nat, resets : Nat, drops : Nat]

Reasons == {"unsupported strategy", "collector error", "counter reset"}

PlannerTypes ==
    /\ kind \in [Collectors -> {"incapable", "snapshot", "counter", "other"}]
    /\ window \in Int
    /\ stage \in {"start", "single", "sampleA", "wait", "sampleB", "done"}
    /\ evidence \in [Phases -> [Collectors -> Evidence]]
    /\ deadline \in Int
    /\ observed \subseteq Collectors
    /\ warnings \subseteq Collectors \X Reasons
    /\ outcome \in {"none", "result", "error"}
    /\ clock \in Nat
    /\ server \in [value : Nat, growth : Nat, resets : Nat, drops : Nat]

\* A batch runs only in a phase, for the collectors of the phase's strategy.
BatchOfPhase ==
    /\ batch = "running" => stage \in Phases
    /\ stage \in Phases => jobs = Cardinality(Of(StrategyOf(stage)))

CollectedOnce(phase) ==
    \A c \in Collectors :
        evidence[phase][c].calls = IF kind[c] = StrategyOf(phase) THEN 1 ELSE 0

CollectedSoFar(phase) ==
    \A c \in Collectors :
        evidence[phase][c].calls =
            IF kind[c] = StrategyOf(phase) /\ Rank(c) \in Collected THEN 1 ELSE 0

Untouched(phase) == \A c \in Collectors : evidence[phase][c] = NoEvidence

\* Phases behind are complete, the present one is as far as its batch, those
\* ahead have no evidence; a result needs all of them.
PhaseBooks ==
    /\ \A p \in PassedPhases : CollectedOnce(p)
    /\ stage \in Phases => CollectedSoFar(stage)
    /\ stage # "done" =>
          /\ outcome = "none"
          /\ \A p \in Phases : p \notin PassedPhases /\ p # stage => Untouched(p)
    /\ EveryPhaseOnce

\* The result under construction holds the evidence of the phases behind.
ReportBooks ==
    /\ stage # "done" =>
          /\ observed = IF "single" \in PassedPhases THEN Observing("single") ELSE {}
          /\ \A c \in Collectors :
                /\ <<c, "collector error">> \in warnings
                      <=> \E p \in PassedPhases : evidence[p][c].err
                /\ delta[c] = None
                /\ <<c, "counter reset">> \notin warnings
    /\ FailureIsolated

\* The deadline is a window after every first sample, and over before the
\* second ones begin.
SampleTimes ==
    /\ \A p \in Phases, c \in Collectors : evidence[p][c].at <= clock
    /\ stage \in {"wait", "sampleB"} =>
          \A c \in Collectors : evidence["sampleA"][c].at + window <= deadline
    /\ stage = "sampleB" => deadline <= clock
    /\ WindowBetweenSamples

\* How the counter gets from a sample to a later value: it rises by no more
\* than it grew, and by exactly that when it never fell.
Follows(sample, value, later) ==
    Numeric(sample.value) =>
        /\ sample.growth <= later.growth
        /\ sample.resets <= later.resets
        /\ sample.drops <= later.drops
        /\ value - sample.value <= later.growth - sample.growth
        /\ sample.resets = later.resets /\ sample.drops = later.drops
              => value - sample.value = later.growth - sample.growth

CounterBooks ==
    /\ stage # "done" =>
          \A c \in Collectors :
              LET a == evidence["sampleA"][c]
                  b == evidence["sampleB"][c]
              IN  /\ Follows(a, server.value, server)
                  /\ stage = "sampleB" /\ Numeric(b.value) => Follows(a, b.value, b)
    /\ DeltaNeverOverstates

PlannerInv ==
    /\ BatchInv /\ PlannerTypes /\ BatchOfPhase
    /\ PhaseBooks /\ ReportBooks /\ SampleTimes /\ CounterBooks

-----------------------------------------------------------------------------
\* A strategy's collectors make a batch that RunBatch can hold.
LEMMA SelectionFits ==
    ASSUME NEW strategy
    PROVE  /\ IsFiniteSet(Of(strategy))
           /\ Cardinality(Of(strategy)) \in 0..MaxJobs
<1>1. MaxJobs \in Nat /\ IsFiniteSet(Slots) /\ Cardinality(Slots) = MaxJobs
  BY BatchAssumption, CountUpTo DEF Slots
<1>2. Of(strategy) \in SUBSET Slots
  BY DEF Of, Collectors
<1>3. IsFiniteSet(Of(strategy)) /\ Cardinality(Of(strategy)) <= MaxJobs
  BY <1>1, <1>2, FS_Subset
<1> QED
  BY <1>1, <1>3, FS_CardinalityType

\* Collectors of one strategy have different places, all within the batch.
LEMMA RankOrders ==
    ASSUME NEW strategy,
           NEW c \in Of(strategy), NEW d \in Of(strategy)
    PROVE  /\ Rank(c) \in 1..Cardinality(Of(strategy))
           /\ Rank(c) = Cardinality({e \in Of(strategy) : e <= c})
           /\ Rank(c) = Rank(d) => c = d
<1> DEFINE S == Of(strategy)
           upTo(x) == {e \in S : e <= x}
<1>1. IsFiniteSet(S) /\ Cardinality(S) \in Nat
  BY SelectionFits
<1>2. S \subseteq Int /\ c \in S /\ d \in S /\ kind[c] = strategy /\ kind[d] = strategy
  BY DEF Of, Collectors, Slots
<1>3. Rank(c) = Cardinality(upTo(c)) /\ Rank(d) = Cardinality(upTo(d))
  BY <1>2 DEF Rank
<1> HIDE DEF S
<1>4. ASSUME NEW x \in S
      PROVE  /\ IsFiniteSet(upTo(x))
             /\ Cardinality(upTo(x)) \in 1..Cardinality(S)
  <2>1. upTo(x) \in SUBSET S /\ x \in upTo(x)
    BY <1>2
  <2>2. IsFiniteSet(upTo(x)) /\ Cardinality(upTo(x)) <= Cardinality(S)
    BY <1>1, <2>1, FS_Subset
  <2>3. Cardinality(upTo(x)) \in Nat /\ Cardinality(upTo(x)) # 0
    BY <2>1, <2>2, FS_CardinalityType, FS_EmptySet
  <2> QED
    BY <1>1, <2>2, <2>3
<1>5. ASSUME NEW x \in S, NEW y \in S, x < y
      PROVE  Cardinality(upTo(x)) < Cardinality(upTo(y))
  <2>1. upTo(x) \in SUBSET upTo(y) /\ upTo(x) # upTo(y)
    <3>1. \A e \in S : e <= x => e <= y
      BY <1>2, <1>5
    <3>2. y <= y /\ ~(y <= x)
      BY <1>2, <1>5
    <3>3. y \in upTo(y) /\ y \notin upTo(x)
      BY <3>2
    <3>4. \A e \in upTo(x) : e \in upTo(y)
      BY <3>1
    <3> QED
      BY <3>3, <3>4
  <2>2. IsFiniteSet(upTo(y)) /\ IsFiniteSet(upTo(x))
    BY <1>4
  <2>3. Cardinality(upTo(x)) <= Cardinality(upTo(y))
        /\ (Cardinality(upTo(x)) = Cardinality(upTo(y)) => upTo(x) = upTo(y))
    BY <2>1, <2>2, FS_Subset
  <2>4. Cardinality(upTo(x)) \in Nat /\ Cardinality(upTo(y)) \in Nat
    BY <1>1, <1>4
  <2> QED
    BY <2>1, <2>3, <2>4
<1>6. Cardinality(upTo(c)) = Cardinality(upTo(d)) => c = d
  <2>1. c < d \/ d < c \/ c = d
    BY <1>2
  <2>2. CASE c < d
    BY <1>2, <1>4, <1>5, <2>2
  <2>3. CASE d < c
    BY <1>2, <1>4, <1>5, <2>3
  <2> QED
    BY <2>1, <2>2, <2>3
<1> QED
  BY <1>2, <1>3, <1>4, <1>6 DEF S

\* Every job of a batch stands for the collector of that place: counting the
\* places shows that none is left out.
LEMMA JobsAreCollectors ==
    ASSUME NEW strategy, NEW j \in 1..Cardinality(Of(strategy))
    PROVE  /\ CollectorOf(strategy, j) \in Of(strategy)
           /\ Rank(CollectorOf(strategy, j)) = j
<1> DEFINE S == Of(strategy)
           n == Cardinality(S)
           rank == [c \in S |-> Rank(c)]
<1>1. IsFiniteSet(S) /\ n \in Nat
  BY SelectionFits
<1>2. rank \in Injection(S, 1..n)
  <2>1. rank \in [S -> 1..n]
    BY RankOrders
  <2>2. \A c, d \in S : rank[c] = rank[d] => c = d
    BY RankOrders
  <2> HIDE DEF rank
  <2> QED
    BY <2>1, <2>2 DEF Injection, IsInjective
<1>3. IsFiniteSet(1..n) /\ Cardinality(1..n) = n
  BY <1>1, CountUpTo
<1> HIDE DEF rank
<1>4. rank \in Surjection(S, 1..n)
  BY <1>2, <1>3, FS_Injection
<1>5. \E c \in S : rank[c] = j
  BY <1>4 DEF Surjection
<1>6. \E c \in S : Cardinality({d \in Of(strategy) : d <= c}) = j
  BY <1>5, RankOrders DEF rank
<1>7. CollectorOf(strategy, j) \in Of(strategy)
      /\ Cardinality({d \in Of(strategy) : d <= CollectorOf(strategy, j)}) = j
  BY <1>6 DEF CollectorOf
<1> QED
  BY <1>7, RankOrders

-----------------------------------------------------------------------------
\* Initially no batch was run and nothing was collected.
LEMMA PlannerStarts == PlannerInit => PlannerInv
<1> SUFFICES ASSUME PlannerInit PROVE PlannerInv
  OBVIOUS
<1>1. BatchInv
  BY InitInv DEF PlannerInit, Init
<1>2. /\ stage = "start" /\ batch = "idle" /\ outcome = "none" /\ observed = {} /\ warnings = {}
      /\ deadline = 0 /\ clock = 0 /\ PassedPhases = {}
      /\ \A p \in Phases, c \in Collectors : evidence[p][c] = NoEvidence
      /\ \A c \in Collectors : delta[c] = None
  BY DEF PlannerInit, BatchIdle, PassedPhases
<1>3. PlannerTypes
  BY PlannerAssumption DEF PlannerInit, PlannerTypes, Evidence, NoEvidence
<1>4. BatchOfPhase /\ PhaseBooks /\ ReportBooks
  BY <1>2 DEF BatchOfPhase, PhaseBooks, ReportBooks, Phases, Untouched, EveryPhaseOnce, FailureIsolated
<1>5. SampleTimes
  BY <1>2 DEF SampleTimes, WindowBetweenSamples, NoEvidence, Phases, Of
<1>6. CounterBooks
  BY <1>2 DEF CounterBooks, Follows, Numeric, DeltaNeverOverstates, NoEvidence, Phases
<1> QED
  BY <1>1, <1>3, <1>4, <1>5, <1>6 DEF PlannerInv

\* A phase starts with a batch for all collectors of its strategy, none of
\* them called yet.
LEMMA PhaseStarts ==
    ASSUME PlannerInv, NEW strategy, StartBatch(Cardinality(Of(strategy)))
    PROVE  BatchInv' /\ jobs' = Cardinality(Of(strategy)) /\ Collected' = {}
<1>1. BatchInv'
  BY SelectionFits, StartInv DEF PlannerInv, BatchInv, TypeOK
<1>2. resultCh' = <<>> /\ \A w \in Slots : worker'[w] # "send"
  BY DEF StartBatch
<1>3. Delivered' = {}
  BY <1>2 DEF Delivered
<1> QED
  BY <1>1, <1>2, <1>3 DEF Collected, StartBatch

\* A batch that returned without an error has called every collector of its
\* phase.
LEMMA PhaseCompletes ==
    ASSUME PlannerInv, stage \in Phases, batch = "ok"
    PROVE  CollectedOnce(stage)
<1>1. Delivered = 1..Cardinality(Of(StrategyOf(stage)))
  BY DEF PlannerInv, BatchInv, ReturnedComplete, BatchOfPhase
<1>2. ASSUME NEW c \in Collectors, kind[c] = StrategyOf(stage) PROVE Rank(c) \in Collected
  <2>1. c \in Of(StrategyOf(stage))
    BY <1>2 DEF Of
  <2>2. Rank(c) \in Delivered
    BY <1>1, <2>1, RankOrders
  <2> QED
    BY <2>2 DEF Collected
<1> QED
  BY <1>2 DEF PlannerInv, PhaseBooks, CollectedSoFar, CollectedOnce

\* The batch's other steps, the cancellation and no step at all call nobody.
LEMMA NobodyCalled ==
    ASSUME BatchInv, BatchStep \/ CancelRun \/ UNCHANGED vars
    PROVE  BatchInv' /\ Collected' = Collected /\ jobs' = jobs /\ (batch' = "running" => batch = "running")
<1> DEFINE sent(w) == worker[w] = "send"
<1>1. CASE ProducerStep \/ Cancel \/ Join \/ UNCHANGED vars \/ \E w \in Slots : WorkerExit(w) \/ WorkerCheck(w)
  <2>1. BatchInv'
    BY <1>1, ProducerInv, SendInv, QuietInv, JoinInv, WorkerExitInv, WorkerCheckInv DEF ProducerStep
  <2>2. /\ UNCHANGED <<jobs, resultCh>>
        /\ batch' = "running" => batch = "running"
    BY <1>1 DEF ProducerStep, ProducerCheck, ProducerStop, Send, Cancel, Join, vars, batchVars,
                WorkerExit, WorkerCheck
  <2>3. \A w \in Slots : /\ sent(w)' <=> sent(w)
                         /\ sent(w) => held'[w] = held[w]
    BY <1>1 DEF ProducerStep, ProducerCheck, ProducerStop, Send, Cancel, Join, vars, batchVars,
                WorkerExit, WorkerCheck, BatchInv, TypeOK
  <2>4. Delivered' = Delivered
    BY <2>2 DEF Delivered
  <2>5. Collected' = Collected
    BY <2>3, <2>4 DEF Collected
  <2> QED
    BY <2>1, <2>2, <2>5
<1>2. ASSUME NEW w \in Slots, SendResult(w)
      PROVE  BatchInv' /\ Collected' = Collected /\ jobs' = jobs /\ batch' = batch
  <2>1. BatchInv' /\ jobs' = jobs /\ batch' = batch
    BY <1>2, SendResultInv DEF SendResult
  <2>2. held[w] \in 1..jobs
    BY <1>2 DEF SendResult, BatchInv, TypeOK, HeldWhileBusy, Busy
  <2>3. Delivered' = Delivered \cup {held[w]}
    BY <1>2, <2>2, AppendResult DEF SendResult, BatchInv
  <2>4. /\ sent(w) /\ ~sent(w)'
        /\ \A v \in Slots \ {w} : (sent(v)' <=> sent(v)) /\ held'[v] = held[v]
    BY <1>2 DEF SendResult, BatchInv, TypeOK
  <2>5. Collected' = Collected
    BY <2>3, <2>4 DEF Collected
  <2> QED
    BY <2>1, <2>5
<1> QED
  BY <1>1, <1>2 DEF BatchStep, CancelRun

\* What stays when neither the run nor its surroundings move.
LEMMA BatchStepKeeps ==
    ASSUME PlannerInv, BatchStep \/ CancelRun \/ UNCHANGED plannerVars
    PROVE  PlannerInv'
<1>1. /\ UNCHANGED <<runVars, clock, server>>
      /\ BatchStep \/ CancelRun \/ UNCHANGED vars
  BY DEF BatchStep, CancelRun, plannerVars
<1>2. /\ BatchInv /\ PlannerTypes /\ BatchOfPhase /\ PhaseBooks /\ ReportBooks
      /\ SampleTimes /\ CounterBooks
  BY DEF PlannerInv
<1>3. BatchInv' /\ Collected' = Collected /\ jobs' = jobs /\ (batch' = "running" => batch = "running")
  BY <1>1, <1>2, NobodyCalled
<1>4. PassedPhases' = PassedPhases /\ \A c \in Collectors : Rank(c)' = Rank(c)
  BY <1>1 DEF PassedPhases, Rank, Of, runVars
<1>5. PlannerTypes'
  BY <1>1, <1>2 DEF PlannerTypes, runVars
<1>6. BatchOfPhase'
  BY <1>1, <1>2, <1>3 DEF BatchOfPhase, runVars, Of
<1>7. PhaseBooks'
  BY <1>1, <1>2, <1>3, <1>4
     DEF PhaseBooks, runVars, CollectedOnce, CollectedSoFar, Untouched, EveryPhaseOnce
<1>8. ReportBooks'
  BY <1>1, <1>2, <1>4 DEF ReportBooks, FailureIsolated, Observing, runVars
<1>9. SampleTimes'
  BY <1>1, <1>2 DEF SampleTimes, WindowBetweenSamples, Of, runVars
<1>10. CounterBooks'
  BY <1>1, <1>2 DEF CounterBooks, Follows, Numeric, DeltaNeverOverstates, runVars
<1> QED
  BY <1>3, <1>5, <1>6, <1>7, <1>8, <1>9, <1>10 DEF PlannerInv

-----------------------------------------------------------------------------
\* What the provers should know of the records without opening them.
LEMMA EvidenceTypes ==
    ASSUME PlannerTypes, NEW phase \in Phases, NEW c \in Collectors
    PROVE  LET e == evidence[phase][c]
           IN  /\ e \in Evidence /\ e.calls \in Nat /\ e.at \in Int
               /\ e.growth \in Nat /\ e.resets \in Nat /\ e.drops \in Nat
               /\ Numeric(e.value) => e.value \in Int
<1>1. evidence[phase][c] \in Evidence
  BY DEF PlannerTypes
<1> QED
  BY <1>1 DEF Evidence, Numeric

\* The clock, the window and the deadline are integers.
LEMMA ClockTypes ==
    ASSUME PlannerTypes
    PROVE  clock \in Nat /\ clock \in Int /\ window \in Int /\ deadline \in Int
<1>1. clock \in Nat /\ window \in Int /\ deadline \in Int
  BY Zenon DEF PlannerTypes
<1> QED
  BY <1>1

\* The server's counter and its books are natural numbers.
LEMMA ServerTypes ==
    ASSUME PlannerTypes
    PROVE  /\ server.value \in Nat /\ server.growth \in Nat
           /\ server.resets \in Nat /\ server.drops \in Nat
<1>1. server \in [value : Nat, growth : Nat, resets : Nat, drops : Nat]
  BY DEF PlannerTypes
<1> QED
  BY <1>1

\* What a call reads is no number, or the counter's value.
LEMMA ReadingOfServer ==
    ASSUME PlannerTypes, NEW answer \in Answers
    PROVE  /\ Reading(answer.value) \in Int \cup {None, NonNumeric}
           /\ Numeric(Reading(answer.value)) => Reading(answer.value) = server.value
<1>1. answer.value \in {"number", "text", "none"}
  BY PlannerAssumption DEF AnswerSet
<1>2. Reading("number") = server.value /\ Reading("text") = NonNumeric /\ Reading("none") = None
  <2>1. "number" # "text" /\ "number" # "none" /\ "text" # "none"
    OBVIOUS
  <2> QED
    BY <2>1, Zenon DEF Reading
<1>3. server.value \in Int
  BY ServerTypes
<1> QED
  BY <1>1, <1>2, <1>3 DEF Numeric

\* A call is the first of its collector in the phase, and records what the
\* database and the clock were.
LEMMA CallRecords ==
    ASSUME PlannerInv, NEW w \in Slots, Collects(w)
    PROVE  \E c \in Collectors :
              /\ stage \in Phases /\ kind[c] = StrategyOf(stage)
              /\ Rank(c) \notin Collected /\ Collected' = Collected \cup {Rank(c)}
              /\ evidence' \in [Phases -> [Collectors -> Evidence]]
              /\ \A p \in Phases, d \in Collectors :
                    p # stage \/ d # c => evidence'[p][d] = evidence[p][d]
              /\ LET new == evidence'[stage][c]
                 IN  /\ new.calls = evidence[stage][c].calls + 1
                     /\ new.at = clock
                     /\ new.growth = server.growth /\ new.resets = server.resets
                     /\ new.drops = server.drops
                     /\ Numeric(new.value) => new.value = server.value
<1> DEFINE strategy == StrategyOf(stage)
           c == CollectorOf(strategy, held[w])
           sent(v) == worker[v] = "send"
<1>1. CollectReturns(w) /\ BatchInv /\ PlannerTypes
  BY DEF Collects, PlannerInv
<1>2. /\ worker[w] = "collect" /\ held[w] \in 1..jobs /\ held[w] \notin Delivered
      /\ \A v \in Slots : held[v] = held[w] => v = w
  BY <1>1 DEF CollectReturns, BatchInv, HeldWhileBusy, Busy, TypeOK, AtMostOnce
<1>3. batch = "running"
  <2>1. batch # "idle"
    <3>1. Limit(0) = 0
      BY LimitBounds
    <3> QED
      BY <1>1, <1>2, <3>1 DEF BatchInv, PoolOfWorkers, Workers
  <2>2. ~Returned
    BY <1>1, <1>2 DEF BatchInv, ReturnedComplete
  <2> QED
    BY <1>1, <2>1, <2>2 DEF BatchInv, TypeOK, Returned
<1>4. stage \in Phases /\ jobs = Cardinality(Of(strategy))
  BY <1>3 DEF PlannerInv, BatchOfPhase
<1>5. c \in Of(strategy) /\ Rank(c) = held[w]
  BY <1>2, <1>4, JobsAreCollectors
<1>6. c \in Collectors /\ kind[c] = strategy
  BY <1>5 DEF Of
<1>7. held[w] \notin Collected
  BY <1>2 DEF Collected
<1>8. Collected' = Collected \cup {held[w]}
  <2>1. resultCh' = resultCh /\ held' = held
    BY <1>1 DEF CollectReturns
  <2>2. sent(w)' /\ \A v \in Slots \ {w} : sent(v)' <=> sent(v)
    BY <1>1 DEF CollectReturns, BatchInv, TypeOK
  <2>3. Delivered' = Delivered
    BY <2>1 DEF Delivered
  <2> QED
    BY <2>1, <2>2, <2>3 DEF Collected
<1>9. PICK answer \in Answers :
        evidence' = [evidence EXCEPT ![stage][c] =
                       [calls  |-> evidence[stage][c].calls + 1,
                        value  |-> Reading(answer.value),
                        err    |-> answer.err,
                        at     |-> clock,
                        growth |-> server.growth,
                        resets |-> server.resets,
                        drops  |-> server.drops]]
  <2>1. evidence[stage] \in [Collectors -> Evidence] /\ evidence \in [Phases -> [Collectors -> Evidence]]
    BY <1>1, <1>4 DEF PlannerTypes
  <2> QED
    BY <1>4, <1>6, <2>1 DEF Collects
<1> HIDE DEF c
<1>10. evidence'[stage][c] = [calls  |-> evidence[stage][c].calls + 1,
                              value  |-> Reading(answer.value),
                              err    |-> answer.err,
                              at     |-> clock,
                              growth |-> server.growth,
                              resets |-> server.resets,
                              drops  |-> server.drops]
       /\ \A p \in Phases, d \in Collectors : p # stage \/ d # c => evidence'[p][d] = evidence[p][d]
  BY <1>1, <1>4, <1>6, <1>9 DEF PlannerTypes
<1>11. evidence' \in [Phases -> [Collectors -> Evidence]]
  <2>1. evidence[stage][c].calls \in Nat /\ answer.err \in BOOLEAN
    BY <1>1, <1>4, <1>6, PlannerAssumption DEF PlannerTypes, Evidence, AnswerSet
  <2>2. evidence'[stage][c] \in Evidence
    <3>1. clock \in Int
      BY <1>1, ClockTypes
    <3>2. Reading(answer.value) \in Int \cup {None, NonNumeric}
      BY <1>1, ReadingOfServer
    <3> QED
      BY <1>1, <1>10, <2>1, <3>1, <3>2, ServerTypes DEF Evidence
  <2>3. evidence[stage][c] \in Evidence
    BY <1>1, <1>4, <1>6 DEF PlannerTypes
  <2> HIDE DEF Evidence
  <2> QED
    BY <1>1, <1>4, <1>6, <1>9, <1>10, <2>2 DEF PlannerTypes
<1>12. Numeric(evidence'[stage][c].value) => evidence'[stage][c].value = server.value
  BY <1>1, <1>10, ReadingOfServer
<1> QED
  BY <1>4, <1>5, <1>6, <1>7, <1>8, <1>10, <1>11, <1>12

\* The call of a collector: its phase is one step further, its sample is the
\* counter's present value.
LEMMA CollectsKeeps ==
    ASSUME PlannerInv, NEW w \in Slots, Collects(w)
    PROVE  PlannerInv'
<1>1. PICK c \in Collectors :
              /\ stage \in Phases /\ kind[c] = StrategyOf(stage)
              /\ Rank(c) \notin Collected /\ Collected' = Collected \cup {Rank(c)}
              /\ evidence' \in [Phases -> [Collectors -> Evidence]]
              /\ \A p \in Phases, d \in Collectors :
                    p # stage \/ d # c => evidence'[p][d] = evidence[p][d]
              /\ LET new == evidence'[stage][c]
                 IN  /\ new.calls = evidence[stage][c].calls + 1
                     /\ new.at = clock
                     /\ new.growth = server.growth /\ new.resets = server.resets
                     /\ new.drops = server.drops
                     /\ Numeric(new.value) => new.value = server.value
  BY CallRecords
<1>2. /\ BatchInv /\ PlannerTypes /\ BatchOfPhase /\ PhaseBooks /\ ReportBooks
      /\ SampleTimes /\ CounterBooks
  BY DEF PlannerInv
<1>3. UNCHANGED <<kind, window, stage, deadline, observed, delta, warnings, outcome, clock, server,
                  batch, jobs>>
  BY DEF Collects, CollectReturns
<1>4. /\ PassedPhases' = PassedPhases /\ stage \notin PassedPhases /\ stage # "done"
      /\ PassedPhases \subseteq Phases
      /\ \A d \in Collectors : Rank(d)' = Rank(d)
  BY <1>1, <1>3 DEF PassedPhases, Phases, Rank, Of
<1>5. BatchInv'
  BY <1>2, CollectReturnsInv DEF Collects
<1>6. PlannerTypes'
  BY <1>1, <1>2, <1>3 DEF PlannerTypes
<1>7. BatchOfPhase'
  BY <1>2, <1>3 DEF BatchOfPhase, Of
<1>8. PhaseBooks'
  <2>1. CollectedSoFar(stage)'
    <3> SUFFICES ASSUME NEW d \in Collectors
                 PROVE  evidence'[stage][d].calls =
                          IF kind[d] = StrategyOf(stage) /\ Rank(d) \in Collected' THEN 1 ELSE 0
      BY <1>3, <1>4 DEF CollectedSoFar
    <3>1. evidence[stage][d].calls =
              IF kind[d] = StrategyOf(stage) /\ Rank(d) \in Collected THEN 1 ELSE 0
      BY <1>1, <1>2 DEF PhaseBooks, CollectedSoFar
    <3>2. CASE d = c
      BY <1>1, <3>1, <3>2
    <3>3. CASE d # c
      <4>1. kind[d] = StrategyOf(stage) => Rank(d) # Rank(c)
        BY <1>1, <3>3, RankOrders DEF Of
      <4> QED
        BY <1>1, <3>1, <3>3, <4>1
    <3> QED
      BY <3>2, <3>3
  <2>2. \A p \in PassedPhases : CollectedOnce(p)'
    BY <1>1, <1>2, <1>3, <1>4 DEF PhaseBooks, CollectedOnce
  <2>3. \A p \in Phases : p \notin PassedPhases /\ p # stage => Untouched(p)'
    BY <1>1, <1>2, <1>4 DEF PhaseBooks, Untouched
  <2>4. outcome = "none" /\ EveryPhaseOnce'
    BY <1>2, <1>3, <1>4 DEF PhaseBooks, EveryPhaseOnce
  <2> QED
    BY <1>3, <1>4, <2>1, <2>2, <2>3, <2>4 DEF PhaseBooks
<1>9. ReportBooks'
  <2>1. Observing("single")' = Observing("single") \/ "single" \notin PassedPhases
    BY <1>1, <1>4 DEF Observing, Phases
  <2>2. \A p \in PassedPhases, d \in Collectors : evidence'[p][d] = evidence[p][d]
    BY <1>1, <1>4
  <2>3. FailureIsolated'
    BY <1>2, <1>3, <1>4 DEF PhaseBooks, FailureIsolated
  <2> QED
    BY <1>2, <1>3, <1>4, <2>1, <2>2, <2>3 DEF ReportBooks
<1>10. SampleTimes'
  <2>1. ASSUME NEW p \in Phases, NEW d \in Collectors PROVE evidence'[p][d].at <= clock
    <3>1. clock \in Int
      BY <1>2, ClockTypes
    <3>2. evidence[p][d].at <= clock
      BY <1>2 DEF SampleTimes
    <3> QED
      BY <1>1, <3>1, <3>2
  <2>2. stage \in {"wait", "sampleB"} =>
           \A d \in Collectors : evidence'["sampleA"][d].at + window <= deadline
    BY <1>1, <1>2 DEF SampleTimes, Phases
  <2>3. WindowBetweenSamples'
    <3> SUFFICES ASSUME NEW e \in Of("counter"), NEW d \in Of("counter"),
                        evidence'["sampleB"][e].calls > 0
                 PROVE  /\ evidence'["sampleA"][d].calls = 1
                        /\ evidence'["sampleB"][e].at - evidence'["sampleA"][d].at >= window
      BY <1>3 DEF WindowBetweenSamples, Of
    <3>1. e \in Collectors /\ d \in Collectors /\ kind[d] = "counter" /\ "sampleB" \in Phases /\ "sampleA" \in Phases
      BY DEF Of, Phases
    <3>2. stage = "sampleB"
      <4>1. CASE stage # "sampleB"
        <5>1. Untouched("sampleB")
          BY <1>1, <1>2, <1>4, <3>1, <4>1 DEF PhaseBooks, PassedPhases
        <5>2. evidence'["sampleB"][e] = NoEvidence
          BY <1>1, <3>1, <4>1, <5>1 DEF Untouched
        <5> QED
          BY <5>2 DEF NoEvidence
      <4> QED
        BY <4>1
    <3>3. evidence'["sampleA"][d] = evidence["sampleA"][d]
      BY <1>1, <3>1, <3>2
    <3>4. CollectedOnce("sampleA")
      BY <1>2, <3>2 DEF PhaseBooks, PassedPhases
    <3>5. evidence["sampleA"][d].calls = 1
      BY <3>1, <3>4 DEF CollectedOnce, StrategyOf
    <3>6. CASE e = c
      <4>1. evidence'["sampleB"][e].at = clock
        BY <1>1, <3>2, <3>6
      <4>2. evidence["sampleA"][d].at + window <= deadline /\ deadline <= clock
        BY <1>2, <3>1, <3>2 DEF SampleTimes
      <4>3. evidence["sampleA"][d].at \in Int /\ window \in Int /\ deadline \in Int /\ clock \in Int
        BY <1>2, <3>1, ClockTypes, EvidenceTypes
      <4> QED
        BY <3>3, <3>5, <4>1, <4>2, <4>3
    <3>7. CASE e # c
      <4>1. evidence'["sampleB"][e] = evidence["sampleB"][e]
        BY <1>1, <3>1, <3>7
      <4> QED
        BY <1>2, <3>3, <4>1 DEF SampleTimes, WindowBetweenSamples
    <3> QED
      BY <3>6, <3>7
  <2> QED
    BY <1>2, <1>3, <2>1, <2>2, <2>3 DEF SampleTimes
<1>11. CounterBooks'
  <2>1. ASSUME NEW d \in Collectors
        PROVE  /\ Follows(evidence'["sampleA"][d], server.value, server)
               /\ stage = "sampleB" /\ Numeric(evidence'["sampleB"][d].value)
                    => Follows(evidence'["sampleA"][d], evidence'["sampleB"][d].value, evidence'["sampleB"][d])
    <3>1. /\ Follows(evidence["sampleA"][d], server.value, server)
          /\ stage = "sampleB" /\ Numeric(evidence["sampleB"][d].value)
                => Follows(evidence["sampleA"][d], evidence["sampleB"][d].value, evidence["sampleB"][d])
      BY <1>2, <1>4 DEF CounterBooks
    <3>2. "sampleA" \in Phases /\ "sampleB" \in Phases
      BY DEF Phases
    <3>3. CASE d # c \/ stage \notin {"sampleA", "sampleB"}
      <4>1. evidence'["sampleA"][d] = evidence["sampleA"][d] /\ evidence'["sampleB"][d] = evidence["sampleB"][d]
        BY <1>1, <3>2, <3>3
      <4> QED
        BY <3>1, <4>1
    <3>4. CASE d = c /\ stage = "sampleA"
      BY <1>1, <1>2, <3>2, <3>4, ServerTypes DEF Follows
    <3>5. CASE d = c /\ stage = "sampleB"
      <4>1. evidence'["sampleA"][d] = evidence["sampleA"][d]
        BY <1>1, <3>2, <3>5
      <4> QED
        BY <1>1, <3>1, <3>5, <4>1 DEF Follows
    <3> QED
      BY <3>3, <3>4, <3>5
  <2>2. DeltaNeverOverstates'
    BY <1>2, <1>3, <1>4 DEF ReportBooks, DeltaNeverOverstates
  <2> QED
    BY <1>3, <2>1, <2>2 DEF CounterBooks, Follows
<1> QED
  BY <1>5, <1>6, <1>7, <1>8, <1>9, <1>10, <1>11 DEF PlannerInv

-----------------------------------------------------------------------------
\* Warnings of collectors are warnings.
LEMMA WarningsOf ==
    ASSUME NEW S \in SUBSET Collectors, NEW reason \in Reasons
    PROVE  {<<c, reason>> : c \in S} \subseteq Collectors \X Reasons
<1> SUFFICES ASSUME NEW c \in S PROVE <<c, reason>> \in Collectors \X Reasons
  OBVIOUS
<1> QED
  OBVIOUS

\* A phase that has only just begun is as far as it should be.
LEMMA NothingCollected ==
    ASSUME NEW phase, Collected' = {}, Untouched(phase), evidence' = evidence
    PROVE  CollectedSoFar(phase)'
BY DEF CollectedSoFar, Untouched, NoEvidence

\* The run begins with the snapshot phase and the selection's own warnings.
LEMMA RunKeeps ==
    ASSUME PlannerInv, Run
    PROVE  PlannerInv'
<1>1. /\ BatchInv /\ PlannerTypes /\ BatchOfPhase /\ PhaseBooks /\ ReportBooks
      /\ SampleTimes /\ CounterBooks
  BY DEF PlannerInv
<1>2. /\ stage = "start" /\ stage' = "single"
      /\ warnings' = {<<c, "unsupported strategy">> : c \in Of("other")}
      /\ StartBatch(Cardinality(Of("snapshot")))
      /\ UNCHANGED <<kind, window, evidence, deadline, observed, delta, outcome, clock, server>>
  BY DEF Run
<1>3. BatchInv' /\ jobs' = Cardinality(Of("snapshot")) /\ Collected' = {}
  BY <1>2, PhaseStarts
<1>4. PassedPhases = {} /\ PassedPhases' = {}
  BY <1>2 DEF PassedPhases
<1>5. \A p \in Phases : Untouched(p)
  BY <1>1, <1>2, <1>4 DEF PhaseBooks, Phases
<1>6. PlannerTypes'
  <2>1. warnings' \subseteq Collectors \X Reasons
    BY <1>2, WarningsOf DEF Of, Reasons
  <2> QED
    BY <1>1, <1>2, <2>1 DEF PlannerTypes
<1>7. BatchOfPhase'
  BY <1>2, <1>3 DEF BatchOfPhase, StrategyOf, Phases, Of
<1>8. PhaseBooks'
  <2>1. CollectedSoFar("single")' /\ \A p \in Phases : Untouched(p)'
    BY <1>2, <1>3, <1>5, NothingCollected DEF Phases, Untouched
  <2>2. outcome' = "none" /\ EveryPhaseOnce'
    BY <1>1, <1>2 DEF PhaseBooks, EveryPhaseOnce
  <2> QED
    BY <1>2, <1>4, <2>1, <2>2 DEF PhaseBooks
<1>9. ReportBooks'
  <2>1. \A c \in Collectors : <<c, "collector error">> \notin warnings' /\ <<c, "counter reset">> \notin warnings'
    BY <1>2
  <2>2. FailureIsolated'
    BY <1>1, <1>2 DEF PhaseBooks, FailureIsolated
  <2> QED
    BY <1>1, <1>2, <1>4, <2>1, <2>2 DEF ReportBooks
<1>10. SampleTimes'
  BY <1>1, <1>2 DEF SampleTimes, WindowBetweenSamples, Of
<1>11. CounterBooks'
  <2>1. DeltaNeverOverstates'
    BY <1>1, <1>2 DEF ReportBooks, DeltaNeverOverstates
  <2> QED
    BY <1>1, <1>2, <2>1 DEF CounterBooks, Follows
<1> QED
  BY <1>3, <1>6, <1>7, <1>8, <1>9, <1>10, <1>11 DEF PlannerInv

\* An abort leaves no result to be wrong about.
LEMMA AbortKeeps ==
    ASSUME PlannerInv, Abort, batch # "running"
    PROVE  PlannerInv'
<1>1. /\ BatchInv /\ PlannerTypes /\ BatchOfPhase /\ PhaseBooks /\ ReportBooks
      /\ SampleTimes /\ CounterBooks
  BY DEF PlannerInv
<1>2. /\ stage' = "done" /\ outcome' = "error"
      /\ observed' = {} /\ warnings' = {} /\ delta' = [c \in Collectors |-> None]
      /\ UNCHANGED <<vars, kind, window, evidence, deadline, clock, server>>
  BY DEF Abort
<1>3. BatchInv' /\ batch' = batch
  BY <1>1, <1>2, QuietInv DEF vars, batchVars
<1>4. PassedPhases' = {} /\ stage' \notin Phases
  BY <1>2 DEF PassedPhases, Phases
<1>5. PlannerTypes'
  BY <1>1, <1>2 DEF PlannerTypes
<1>6. BatchOfPhase' /\ PhaseBooks' /\ ReportBooks'
  BY <1>2, <1>3, <1>4 DEF BatchOfPhase, PhaseBooks, EveryPhaseOnce, ReportBooks, FailureIsolated
<1>7. SampleTimes'
  BY <1>1, <1>2 DEF SampleTimes, WindowBetweenSamples, Of
<1>8. CounterBooks'
  BY <1>2 DEF CounterBooks, DeltaNeverOverstates
<1> QED
  BY <1>3, <1>5, <1>6, <1>7, <1>8 DEF PlannerInv

\* What the results of a phase add to the warnings: its errors.
LEMMA FailuresAdded ==
    ASSUME PlannerTypes, NEW phase \in Phases, NEW W, NEW c \in Collectors
    PROVE  /\ <<c, "collector error">> \in W \cup Failing(phase)
                 <=> <<c, "collector error">> \in W \/ evidence[phase][c].err
           /\ <<c, "counter reset">> \in W \cup Failing(phase) <=> <<c, "counter reset">> \in W
<1>1. <<c, "collector error">> \in Failing(phase) <=> evidence[phase][c].err
  BY DEF Failing
<1>2. <<c, "counter reset">> \notin Failing(phase)
  BY DEF Failing
<1> QED
  BY <1>1, <1>2

\* The snapshot results are in: without counter collectors they are all there
\* is, and the counter phases have nothing to add.
LEMMA AfterSingleKeeps ==
    ASSUME PlannerInv, AfterSingle
    PROVE  PlannerInv'
<1>1. /\ BatchInv /\ PlannerTypes /\ BatchOfPhase /\ PhaseBooks /\ ReportBooks
      /\ SampleTimes /\ CounterBooks
  BY DEF PlannerInv
<1>2. /\ stage = "single" /\ batch = "ok"
      /\ observed' = Observing("single") /\ warnings' = warnings \cup Failing("single")
      /\ UNCHANGED <<delta, kind, window, evidence, deadline, clock, server>>
  BY DEF AfterSingle, Return
<1>3. /\ PassedPhases = {} /\ "single" \in Phases /\ "sampleA" \in Phases /\ "sampleB" \in Phases
      /\ Observing("single")' = Observing("single")
  BY <1>2 DEF PassedPhases, Phases, Observing
<1>4. CollectedOnce("single") /\ Untouched("sampleA") /\ Untouched("sampleB")
  BY <1>1, <1>2, <1>3, PhaseCompletes DEF PhaseBooks
<1>5. \A c \in Collectors :
        /\ <<c, "collector error">> \in warnings' <=> evidence["single"][c].err
        /\ <<c, "counter reset">> \notin warnings'
        /\ delta'[c] = None
  BY <1>1, <1>2, <1>3, FailuresAdded DEF ReportBooks
<1>6. \A c \in Collectors : c \in observed' <=> evidence["single"][c].value # None
  BY <1>2 DEF Observing
<1>7. observed' \subseteq Collectors
      /\ warnings' \subseteq Collectors \X Reasons
  <2>1. Failing("single") \subseteq Collectors \X Reasons
    BY WarningsOf DEF Failing, Reasons
  <2>2. warnings \subseteq Collectors \X Reasons
    BY <1>1, Zenon DEF PlannerTypes
  <2> QED
    BY <1>2, <2>1, <2>2 DEF Observing
<1>8. DeltaNeverOverstates'
  BY <1>5 DEF DeltaNeverOverstates
<1>9. WindowBetweenSamples' /\ \A p \in Phases, c \in Collectors : evidence'[p][c].at <= clock'
  BY <1>1, <1>2 DEF SampleTimes, WindowBetweenSamples, Of
<1>10. CASE Of("counter") = {} /\ Return
  <2>1. stage' = "done" /\ outcome' = "result" /\ UNCHANGED vars
    BY <1>10 DEF Return
  <2>2. BatchInv' /\ batch' = "ok"
    BY <1>1, <1>2, <2>1, QuietInv DEF vars, batchVars
  <2>3. PassedPhases' = {} /\ stage' \notin Phases
    BY <2>1 DEF PassedPhases, Phases
  <2>4. PlannerTypes'
    BY <1>1, <1>2, <1>7, <2>1 DEF PlannerTypes
  <2>5. EveryPhaseOnce'
    <3> SUFFICES ASSUME NEW p \in Phases, NEW c \in Collectors
                 PROVE  evidence[p][c].calls = IF kind[c] = StrategyOf(p) THEN 1 ELSE 0
      BY <1>2 DEF EveryPhaseOnce
    <3>1. kind[c] # "counter"
      BY <1>10 DEF Of
    <3>2. CASE p = "single"
      BY <1>4, <3>2 DEF CollectedOnce
    <3>3. CASE p # "single"
      BY <1>4, <3>1, <3>3 DEF Phases, Untouched, NoEvidence, StrategyOf
    <3> QED
      BY <3>2, <3>3
  <2>6. PhaseBooks' /\ BatchOfPhase'
    BY <2>1, <2>2, <2>3, <2>5 DEF PhaseBooks, BatchOfPhase
  <2>7. FailureIsolated'
    <3> SUFFICES ASSUME NEW c \in Collectors
                 PROVE  /\ c \in observed' <=> \/ evidence["single"][c].value # None
                                               \/ evidence["sampleB"][c].value # None
                        /\ <<c, "collector error">> \in warnings' <=> \E p \in Phases : evidence[p][c].err
                        /\ delta'[c] = None
      BY <1>2 DEF FailureIsolated
    <3>1. /\ evidence["sampleB"][c].value = None /\ ~evidence["sampleB"][c].err
          /\ ~evidence["sampleA"][c].err
      BY <1>4 DEF Untouched, NoEvidence
    <3> QED
      BY <1>5, <1>6, <3>1 DEF Phases
  <2>8. ReportBooks' /\ SampleTimes' /\ CounterBooks'
    BY <1>8, <1>9, <2>1, <2>7 DEF ReportBooks, SampleTimes, CounterBooks
  <2> QED
    BY <2>2, <2>4, <2>6, <2>8 DEF PlannerInv
<1>11. CASE /\ Of("counter") # {} /\ stage' = "sampleA" /\ outcome' = outcome
            /\ StartBatch(Cardinality(Of("counter")))
  <2>1. BatchInv' /\ jobs' = Cardinality(Of("counter")) /\ Collected' = {}
    BY <1>11, PhaseStarts
  <2>2. PassedPhases' = {"single"}
    BY <1>11 DEF PassedPhases
  <2>3. PlannerTypes'
    BY <1>1, <1>2, <1>7, <1>11 DEF PlannerTypes
  <2>4. BatchOfPhase'
    BY <1>2, <1>11, <2>1 DEF BatchOfPhase, StrategyOf, Phases, Of
  <2>5. PhaseBooks'
    <3>1. CollectedSoFar("sampleA")'
      BY <1>2, <1>4, <2>1, NothingCollected
    <3>2. CollectedOnce("single")' /\ Untouched("sampleB")'
      BY <1>2, <1>4 DEF CollectedOnce, Untouched
    <3>3. outcome' = "none" /\ EveryPhaseOnce'
      BY <1>1, <1>2, <1>11 DEF PhaseBooks, EveryPhaseOnce
    <3> QED
      BY <1>11, <2>2, <3>1, <3>2, <3>3 DEF PhaseBooks, Phases
  <2>6. ReportBooks'
    <3>1. FailureIsolated'
      BY <1>1, <1>2, <1>11 DEF PhaseBooks, FailureIsolated
    <3> QED
      BY <1>2, <1>3, <1>5, <2>2, <3>1 DEF ReportBooks
  <2>7. SampleTimes'
    BY <1>9, <1>11 DEF SampleTimes
  <2>8. CounterBooks'
    BY <1>1, <1>2, <1>8, <1>11 DEF CounterBooks, Follows
  <2> QED
    BY <2>1, <2>3, <2>4, <2>5, <2>6, <2>7, <2>8 DEF PlannerInv
<1> QED
  BY <1>10, <1>11 DEF AfterSingle

\* The first samples are in: whatever the clock was at each, the deadline is a
\* window later.
LEMMA AfterSampleAKeeps ==
    ASSUME PlannerInv, AfterSampleA
    PROVE  PlannerInv'
<1>1. /\ BatchInv /\ PlannerTypes /\ BatchOfPhase /\ PhaseBooks /\ ReportBooks
      /\ SampleTimes /\ CounterBooks
  BY DEF PlannerInv
<1>2. /\ stage = "sampleA" /\ batch = "ok" /\ stage' = "wait"
      /\ warnings' = warnings \cup Failing("sampleA") /\ deadline' = clock + window
      /\ UNCHANGED <<vars, kind, window, evidence, observed, delta, outcome, clock, server>>
  BY DEF AfterSampleA
<1>3. /\ PassedPhases = {"single"} /\ PassedPhases' = {"single", "sampleA"}
      /\ "single" \in Phases /\ "sampleA" \in Phases /\ "sampleB" \in Phases
      /\ Observing("single")' = Observing("single")
      /\ stage' \notin Phases
  BY <1>2 DEF PassedPhases, Phases, Observing
<1>4. CollectedOnce("single") /\ CollectedOnce("sampleA") /\ Untouched("sampleB")
  BY <1>1, <1>2, <1>3, PhaseCompletes DEF PhaseBooks
<1>5. BatchInv' /\ batch' = "ok"
  BY <1>1, <1>2, QuietInv DEF vars, batchVars
<1>6. PlannerTypes'
  <2>1. Failing("sampleA") \subseteq Collectors \X Reasons
    BY WarningsOf DEF Failing, Reasons
  <2>2. warnings \subseteq Collectors \X Reasons
    BY <1>1, Zenon DEF PlannerTypes
  <2>3. warnings' \subseteq Collectors \X Reasons /\ deadline' \in Int
    BY <1>1, <1>2, <2>1, <2>2, ClockTypes
  <2> QED
    BY <1>1, <1>2, <2>3 DEF PlannerTypes
<1>7. BatchOfPhase'
  BY <1>3, <1>5 DEF BatchOfPhase
<1>8. PhaseBooks'
  <2>1. CollectedOnce("single")' /\ CollectedOnce("sampleA")' /\ Untouched("sampleB")'
    BY <1>2, <1>4 DEF CollectedOnce, Untouched
  <2>2. outcome' = "none" /\ EveryPhaseOnce'
    BY <1>1, <1>2 DEF PhaseBooks, EveryPhaseOnce
  <2> QED
    BY <1>3, <2>1, <2>2 DEF PhaseBooks, Phases
<1>9. ReportBooks'
  <2>1. \A c \in Collectors :
          /\ <<c, "collector error">> \in warnings'
                <=> evidence["single"][c].err \/ evidence["sampleA"][c].err
          /\ <<c, "counter reset">> \notin warnings'
    BY <1>1, <1>2, <1>3, FailuresAdded DEF ReportBooks
  <2>2. FailureIsolated'
    BY <1>1, <1>2 DEF PhaseBooks, FailureIsolated
  <2> QED
    BY <1>1, <1>2, <1>3, <2>1, <2>2 DEF ReportBooks
<1>10. SampleTimes'
  <2>1. \A c \in Collectors : evidence["sampleA"][c].at + window <= clock + window
    <3> SUFFICES ASSUME NEW c \in Collectors
                 PROVE  evidence["sampleA"][c].at + window <= clock + window
      OBVIOUS
    <3>1. evidence["sampleA"][c].at \in Int /\ clock \in Int /\ window \in Int
      BY <1>1, <1>3, ClockTypes, EvidenceTypes
    <3>2. evidence["sampleA"][c].at <= clock
      BY <1>1, <1>3 DEF SampleTimes
    <3> QED
      BY <3>1, <3>2
  <2> QED
    BY <1>1, <1>2, <2>1 DEF SampleTimes, WindowBetweenSamples, Of
<1>11. CounterBooks'
  <2>1. DeltaNeverOverstates'
    BY <1>2, <1>9 DEF ReportBooks, DeltaNeverOverstates
  <2> QED
    BY <1>1, <1>2, <2>1 DEF CounterBooks, Follows
<1> QED
  BY <1>5, <1>6, <1>7, <1>8, <1>9, <1>10, <1>11 DEF PlannerInv

\* The timer fires: the second samples are taken from here on.
LEMMA WaitElapsesKeeps ==
    ASSUME PlannerInv, WaitElapses
    PROVE  PlannerInv'
<1>1. /\ BatchInv /\ PlannerTypes /\ BatchOfPhase /\ PhaseBooks /\ ReportBooks
      /\ SampleTimes /\ CounterBooks
  BY DEF PlannerInv
<1>2. /\ stage = "wait" /\ clock >= deadline /\ stage' = "sampleB"
      /\ StartBatch(Cardinality(Of("counter")))
      /\ UNCHANGED <<kind, window, evidence, deadline, observed, delta, warnings, outcome, clock, server>>
  BY DEF WaitElapses
<1>3. BatchInv' /\ jobs' = Cardinality(Of("counter")) /\ Collected' = {}
  BY <1>2, PhaseStarts
<1>4. PassedPhases = {"single", "sampleA"} /\ PassedPhases' = PassedPhases
      /\ Observing("single")' = Observing("single")
  BY <1>2 DEF PassedPhases, Observing
<1>5. Untouched("sampleB")
  BY <1>1, <1>2, <1>4 DEF PhaseBooks, Phases
<1>6. PlannerTypes'
  BY <1>1, <1>2 DEF PlannerTypes
<1>7. BatchOfPhase'
  BY <1>2, <1>3 DEF BatchOfPhase, StrategyOf, Phases, Of
<1>8. PhaseBooks'
  <2>1. CollectedSoFar("sampleB")'
    BY <1>2, <1>3, <1>5, NothingCollected
  <2>2. CollectedOnce("single")' /\ CollectedOnce("sampleA")'
    BY <1>1, <1>2, <1>4 DEF PhaseBooks, CollectedOnce
  <2>3. outcome' = "none" /\ EveryPhaseOnce'
    BY <1>1, <1>2 DEF PhaseBooks, EveryPhaseOnce
  <2> QED
    BY <1>2, <1>4, <2>1, <2>2, <2>3 DEF PhaseBooks, Phases
<1>9. ReportBooks'
  <2>1. FailureIsolated'
    BY <1>1, <1>2 DEF PhaseBooks, FailureIsolated
  <2> QED
    BY <1>1, <1>2, <1>4, <2>1 DEF ReportBooks
<1>10. SampleTimes'
  <2>1. deadline <= clock
    BY <1>1, <1>2, ClockTypes
  <2> QED
    BY <1>1, <1>2, <2>1 DEF SampleTimes, WindowBetweenSamples, Of
<1>11. CounterBooks'
  <2>1. \A c \in Collectors : ~Numeric(evidence["sampleB"][c].value)
    BY <1>5 DEF Untouched, NoEvidence, Numeric
  <2>2. DeltaNeverOverstates'
    BY <1>2, <1>9 DEF ReportBooks, DeltaNeverOverstates
  <2> QED
    BY <1>1, <1>2, <2>1, <2>2 DEF CounterBooks, Follows, Numeric
<1> QED
  BY <1>3, <1>6, <1>7, <1>8, <1>9, <1>10, <1>11 DEF PlannerInv

\* The delta of two samples, between which the counter went as CounterBooks
\* says, is not negative and no overstatement.
LEMMA DeltaOfSamples ==
    ASSUME PlannerInv, AfterSampleB, NEW c \in Collectors
    PROVE  LET a == evidence["sampleA"][c]
               b == evidence["sampleB"][c]
           IN  /\ c \in Paired /\ ~IsReset(c) =>
                    /\ b.value - a.value \in 0..(b.growth - a.growth)
                    /\ <<a.resets, a.drops>> = <<b.resets, b.drops>>
                          => b.value - a.value = b.growth - a.growth
               /\ c \in Paired /\ IsReset(c) => <<a.resets, a.drops>> # <<b.resets, b.drops>>
<1> DEFINE a == evidence["sampleA"][c]
           b == evidence["sampleB"][c]
<1> SUFFICES ASSUME c \in Paired
             PROVE  /\ ~IsReset(c) =>
                        /\ b.value - a.value \in 0..(b.growth - a.growth)
                        /\ <<a.resets, a.drops>> = <<b.resets, b.drops>>
                              => b.value - a.value = b.growth - a.growth
                    /\ IsReset(c) => <<a.resets, a.drops>> # <<b.resets, b.drops>>
  BY Zenon
<1>1. Numeric(a.value) /\ Numeric(b.value)
  BY DEF Paired, Observing, FirstSample, Numeric
<1>2. /\ stage = "sampleB" /\ stage # "done"
      /\ PlannerTypes /\ CounterBooks /\ "sampleA" \in Phases /\ "sampleB" \in Phases
  BY DEF AfterSampleB, PlannerInv, Phases
<1>3. Follows(a, b.value, b)
  BY <1>1, <1>2 DEF CounterBooks
<1>4. /\ a.value \in Int /\ a.growth \in Nat /\ a.resets \in Nat /\ a.drops \in Nat
      /\ b.value \in Int /\ b.growth \in Nat /\ b.resets \in Nat /\ b.drops \in Nat
  BY <1>1, <1>2, EvidenceTypes
<1>5. IsReset(c) <=> b.value < a.value
  BY DEF IsReset, FirstSample
<1> HIDE DEF a, b
<1> QED
  BY <1>1, <1>3, <1>4, <1>5 DEF Follows

\* The second samples are in, and with them the result: every phase is
\* complete, every error reported, every delta backed by the counter's growth.
LEMMA AfterSampleBKeeps ==
    ASSUME PlannerInv, AfterSampleB
    PROVE  PlannerInv'
<1> DEFINE reset == {<<c, "counter reset">> : c \in {d \in Paired : IsReset(d)}}
<1>1. /\ BatchInv /\ PlannerTypes /\ BatchOfPhase /\ PhaseBooks /\ ReportBooks
      /\ SampleTimes /\ CounterBooks
  BY DEF PlannerInv
<1>2. /\ stage = "sampleB" /\ batch = "ok" /\ stage' = "done" /\ outcome' = "result"
      /\ observed' = observed \cup Observing("sampleB")
      /\ delta' = [c \in Collectors |-> IF c \in Paired /\ ~IsReset(c)
                                        THEN evidence["sampleB"][c].value - FirstSample(c)
                                        ELSE None]
      /\ warnings' = warnings \cup Failing("sampleB") \cup reset
      /\ UNCHANGED <<vars, kind, window, evidence, deadline, clock, server>>
  BY DEF AfterSampleB, Return
<1>3. /\ PassedPhases = {"single", "sampleA"} /\ PassedPhases' = {}
      /\ "single" \in Phases /\ "sampleA" \in Phases /\ "sampleB" \in Phases
      /\ stage' \notin Phases
  BY <1>2 DEF PassedPhases, Phases
<1>4. CollectedOnce("single") /\ CollectedOnce("sampleA") /\ CollectedOnce("sampleB")
  BY <1>1, <1>2, <1>3, PhaseCompletes DEF PhaseBooks
<1>5. BatchInv' /\ batch' = "ok"
  BY <1>1, <1>2, QuietInv DEF vars, batchVars
<1>6. Paired \subseteq Observing("sampleB") /\ Observing("sampleB") \subseteq Collectors
  BY DEF Paired, Observing
<1>7. PlannerTypes'
  <2>1. Failing("sampleB") \subseteq Collectors \X Reasons
    BY WarningsOf DEF Failing, Reasons
  <2>2. reset \subseteq Collectors \X Reasons
    BY <1>6, WarningsOf DEF Reasons
  <2>3. warnings \subseteq Collectors \X Reasons /\ observed \subseteq Collectors
    BY <1>1, Zenon DEF PlannerTypes
  <2> HIDE DEF reset
  <2>4. warnings' \subseteq Collectors \X Reasons /\ observed' \subseteq Collectors
    BY <1>2, <1>6, <2>1, <2>2, <2>3
  <2> QED
    BY <1>1, <1>2, <2>4 DEF PlannerTypes
<1>8. EveryPhaseOnce'
  BY <1>2, <1>4 DEF EveryPhaseOnce, CollectedOnce, Phases
<1>9. PhaseBooks' /\ BatchOfPhase'
  BY <1>2, <1>3, <1>5, <1>8 DEF PhaseBooks, BatchOfPhase
<1>10. ASSUME NEW c \in Collectors
       PROVE  /\ <<c, "collector error">> \in warnings' <=> \E p \in Phases : evidence[p][c].err
              /\ <<c, "counter reset">> \in warnings' <=> c \in Paired /\ IsReset(c)
              /\ delta'[c] # None => c \in Paired /\ ~IsReset(c)
              /\ c \in Paired /\ ~IsReset(c) =>
                    delta'[c] = evidence["sampleB"][c].value - evidence["sampleA"][c].value
              /\ c \in observed' <=> \/ evidence["single"][c].value # None
                                     \/ evidence["sampleB"][c].value # None
  <2>1. <<c, "collector error">> \in warnings <=> evidence["single"][c].err \/ evidence["sampleA"][c].err
    BY <1>1, <1>2, <1>3 DEF ReportBooks
  <2>2. <<c, "counter reset">> \notin warnings
    BY <1>1, <1>2 DEF ReportBooks
  <2>3. <<c, "collector error">> \notin reset /\ (<<c, "counter reset">> \in reset <=> c \in Paired /\ IsReset(c))
    OBVIOUS
  <2> HIDE DEF reset
  <2>4. /\ <<c, "collector error">> \in warnings \cup Failing("sampleB")
              <=> <<c, "collector error">> \in warnings \/ evidence["sampleB"][c].err
        /\ <<c, "counter reset">> \notin warnings \cup Failing("sampleB")
    BY <1>1, <1>3, <2>2, FailuresAdded
  <2>5. <<c, "collector error">> \in warnings' <=> \E p \in Phases : evidence[p][c].err
    BY <1>2, <2>1, <2>3, <2>4 DEF Phases
  <2>6. <<c, "counter reset">> \in warnings' <=> c \in Paired /\ IsReset(c)
    BY <1>2, <2>3, <2>4
  <2>7. observed = Observing("single")
    BY <1>1, <1>2, <1>3 DEF ReportBooks
  <2>8. c \in observed' <=> \/ evidence["single"][c].value # None
                            \/ evidence["sampleB"][c].value # None
    BY <1>2, <2>7 DEF Observing
  <2>9. delta'[c] = IF c \in Paired /\ ~IsReset(c)
                    THEN evidence["sampleB"][c].value - evidence["sampleA"][c].value
                    ELSE None
    BY <1>2 DEF FirstSample
  <2> QED
    BY <2>5, <2>6, <2>8, <2>9
<1>11. FailureIsolated'
  <2>1. \A c \in Collectors : delta'[c] # None => c \in observed' /\ <<c, "counter reset">> \notin warnings'
    BY <1>2, <1>6, <1>10
  <2> QED
    BY <1>2, <1>10, <2>1 DEF FailureIsolated
<1>12. DeltaNeverOverstates'
  <2> SUFFICES ASSUME NEW c \in Collectors
               PROVE  LET a == evidence["sampleA"][c]
                          b == evidence["sampleB"][c]
                      IN  /\ delta'[c] # None =>
                               /\ delta'[c] \in 0..(b.growth - a.growth)
                               /\ <<a.resets, a.drops>> = <<b.resets, b.drops>>
                                     => delta'[c] = b.growth - a.growth
                          /\ <<c, "counter reset">> \in warnings'
                               => <<a.resets, a.drops>> # <<b.resets, b.drops>>
    BY <1>2, Zenon DEF DeltaNeverOverstates
  <2> QED
    BY <1>10, DeltaOfSamples
<1>13. SampleTimes'
  BY <1>1, <1>2 DEF SampleTimes, WindowBetweenSamples, Of
<1>14. ReportBooks' /\ CounterBooks'
  BY <1>2, <1>11, <1>12 DEF ReportBooks, CounterBooks
<1> QED
  BY <1>5, <1>7, <1>9, <1>13, <1>14 DEF PlannerInv

-----------------------------------------------------------------------------
\* What the database may do to its counter in a step.
LEMMA ServerMoves ==
    ASSUME PlannerTypes, Tick \/ CounterGrows \/ CounterResets \/ EstimateFalls
    PROVE  /\ server' \in [value : Nat, growth : Nat, resets : Nat, drops : Nat]
           /\ \/ server' = server
              \/ /\ server'.value = server.value + 1 /\ server'.growth = server.growth + 1
                 /\ server'.resets = server.resets /\ server'.drops = server.drops
              \/ /\ server'.value = 0 /\ server'.growth = server.growth
                 /\ server'.resets = server.resets + 1 /\ server'.drops = server.drops
              \/ /\ server'.value = server.value - 1 /\ server'.growth = server.growth
                 /\ server'.resets = server.resets /\ server'.drops = server.drops + 1
<1>1. server \in [value : Nat, growth : Nat, resets : Nat, drops : Nat]
  BY Zenon DEF PlannerTypes
<1>2. CASE Tick
  BY <1>1, <1>2 DEF Tick
<1>3. CASE CounterGrows
  <2>1. server' = [value |-> server.value + 1, growth |-> server.growth + 1,
                   resets |-> server.resets, drops |-> server.drops]
    BY <1>1, <1>3 DEF CounterGrows
  <2> QED
    BY <2>1, ServerTypes
<1>4. CASE CounterResets
  <2>1. server' = [value |-> 0, growth |-> server.growth,
                   resets |-> server.resets + 1, drops |-> server.drops]
    BY <1>1, <1>4 DEF CounterResets
  <2> QED
    BY <2>1, ServerTypes
<1>5. CASE EstimateFalls
  <2>1. server' = [value |-> server.value - 1, growth |-> server.growth,
                   resets |-> server.resets, drops |-> server.drops + 1]
    BY <1>1, <1>5 DEF EstimateFalls
  <2>2. server.value - 1 \in Nat
    BY <1>5, ServerTypes DEF EstimateFalls
  <2> QED
    BY <2>1, <2>2, ServerTypes
<1> QED
  BY <1>2, <1>3, <1>4, <1>5

\* A sample that the counter has followed so far, it follows on.
LEMMA SampleFollowed ==
    ASSUME PlannerTypes, Tick \/ CounterGrows \/ CounterResets \/ EstimateFalls,
           NEW phase \in Phases, NEW c \in Collectors,
           Follows(evidence[phase][c], server.value, server)
    PROVE  Follows(evidence[phase][c], server'.value, server')
<1> DEFINE a == evidence[phase][c]
<1>1. Numeric(a.value) => a.value \in Int
  BY EvidenceTypes
<1>2. a.growth \in Nat /\ a.resets \in Nat /\ a.drops \in Nat
  BY EvidenceTypes
<1> HIDE DEF a
<1>3. Follows(a, server'.value, server')
  BY <1>1, <1>2, ServerMoves, ServerTypes DEF Follows, a
<1> QED
  BY <1>3 DEF a

\* The clock and the database move: neither touches what was recorded, and
\* the counter's value follows its growth, its resets and its drops.
LEMMA SurroundingsKeep ==
    ASSUME PlannerInv, Tick \/ CounterGrows \/ CounterResets \/ EstimateFalls
    PROVE  PlannerInv'
<1>1. /\ BatchInv /\ PlannerTypes /\ BatchOfPhase /\ PhaseBooks /\ ReportBooks
      /\ SampleTimes /\ CounterBooks
  BY DEF PlannerInv
<1>2. UNCHANGED <<vars, runVars>>
  BY DEF Tick, CounterGrows, CounterResets, EstimateFalls
<1>3. clock' \in Nat /\ clock' >= clock
  BY <1>1, ClockTypes DEF Tick, CounterGrows, CounterResets, EstimateFalls
<1>4. server' \in [value : Nat, growth : Nat, resets : Nat, drops : Nat]
  BY <1>1, ServerMoves
<1>5. BatchInv' /\ Collected' = Collected /\ UNCHANGED <<batch, jobs>>
  BY <1>1, <1>2, QuietInv DEF vars, batchVars, Collected, Delivered
<1>6. PassedPhases' = PassedPhases /\ \A c \in Collectors : Rank(c)' = Rank(c)
  BY <1>2 DEF PassedPhases, Rank, Of, runVars
<1>7. PlannerTypes'
  BY <1>1, <1>2, <1>3, <1>4 DEF PlannerTypes, runVars
<1>8. BatchOfPhase'
  BY <1>1, <1>2, <1>5 DEF BatchOfPhase, Of, runVars
<1>9. PhaseBooks'
  BY <1>1, <1>2, <1>5, <1>6
     DEF PhaseBooks, runVars, CollectedOnce, CollectedSoFar, Untouched, EveryPhaseOnce
<1>10. ReportBooks'
  BY <1>1, <1>2, <1>6 DEF ReportBooks, FailureIsolated, Observing, runVars
<1>11. SampleTimes'
  <2>1. \A p \in Phases, c \in Collectors : evidence[p][c].at <= clock'
    <3> SUFFICES ASSUME NEW p \in Phases, NEW c \in Collectors PROVE evidence[p][c].at <= clock'
      OBVIOUS
    <3>1. evidence[p][c].at \in Int /\ clock \in Int /\ evidence[p][c].at <= clock
      BY <1>1, ClockTypes, EvidenceTypes DEF SampleTimes
    <3> QED
      BY <1>3, <3>1
  <2>2. stage = "sampleB" => deadline <= clock'
    <3>1. stage = "sampleB" => deadline <= clock
      BY <1>1 DEF SampleTimes
    <3> QED
      BY <1>1, <1>3, <3>1, ClockTypes
  <2> QED
    BY <1>1, <1>2, <2>1, <2>2 DEF SampleTimes, WindowBetweenSamples, Of, runVars
<1>12. CounterBooks'
  <2>1. ASSUME NEW c \in Collectors, stage # "done"
        PROVE  Follows(evidence["sampleA"][c], server'.value, server')
    <3>1. "sampleA" \in Phases
      BY DEF Phases
    <3>2. Follows(evidence["sampleA"][c], server.value, server)
      BY <1>1, <2>1 DEF CounterBooks
    <3> QED
      BY <1>1, <3>1, <3>2, SampleFollowed
  <2>2. DeltaNeverOverstates'
    BY <1>1, <1>2 DEF CounterBooks, DeltaNeverOverstates, runVars
  <2> QED
    BY <1>1, <1>2, <2>1, <2>2 DEF CounterBooks, Follows, Numeric, runVars
<1> QED
  BY <1>5, <1>7, <1>8, <1>9, <1>10, <1>11, <1>12 DEF PlannerInv

\* The three ways to give up leave no batch at work.
LEMMA GivingUpKeeps ==
    ASSUME PlannerInv, RefuseWindow \/ WaitCancelled \/ AfterCancelledBatch
    PROVE  PlannerInv'
<1>1. Abort /\ batch # "running"
  <2>1. stage = "wait" => batch # "running"
    BY DEF PlannerInv, BatchOfPhase, Phases
  <2> QED
    BY <2>1 DEF RefuseWindow, WaitCancelled, AfterCancelledBatch
<1> QED
  BY <1>1, AbortKeeps

\* Every step of a run, of its batch or of the server keeps the invariant.
LEMMA PlannerKeeps == PlannerInv /\ [PlannerNext]_plannerVars => PlannerInv'
<1> SUFFICES ASSUME PlannerInv, [PlannerNext]_plannerVars PROVE PlannerInv'
  OBVIOUS
<1>1. CASE PlannerStep
  BY <1>1, RunKeeps, AfterSingleKeeps, AfterSampleAKeeps, WaitElapsesKeeps, AfterSampleBKeeps,
     GivingUpKeeps DEF PlannerStep
<1>2. CASE \E w \in Slots : Collects(w)
  BY <1>2, CollectsKeeps
<1>3. CASE BatchStep \/ CancelRun \/ PlannerFinished \/ UNCHANGED plannerVars
  BY <1>3, BatchStepKeeps DEF PlannerFinished
<1>4. CASE Tick \/ CounterGrows \/ CounterResets \/ EstimateFalls
  BY <1>4, SurroundingsKeep
<1> QED
  BY <1>1, <1>2, <1>3, <1>4 DEF PlannerNext

\* PlannerInv holds in every reachable state of Planner.Run.
THEOREM PlannerBookkeeping == PlannerSpec => []PlannerInv
<1>1. PlannerInit => PlannerInv
  BY PlannerStarts
<1>2. PlannerInv /\ [PlannerNext]_plannerVars => PlannerInv'
  BY PlannerKeeps
<1> QED
  BY <1>1, <1>2, PTL DEF PlannerSpec

\* A result rests on exactly one call of every capable collector per phase.
THEOREM CollectsEveryPhaseOnce == PlannerSpec => []EveryPhaseOnce
<1>1. PlannerInv => EveryPhaseOnce
  BY DEF PlannerInv, PhaseBooks
<1> QED
  BY <1>1, PlannerBookkeeping, PTL

\* A failing collector costs no other collector's evidence, nor its own.
THEOREM IsolatesFailures == PlannerSpec => []FailureIsolated
<1>1. PlannerInv => FailureIsolated
  BY DEF PlannerInv, ReportBooks
<1> QED
  BY <1>1, PlannerBookkeeping, PTL

\* The sample window lies between every first and every second sample.
THEOREM KeepsTheWindow == PlannerSpec => []WindowBetweenSamples
<1>1. PlannerInv => WindowBetweenSamples
  BY DEF PlannerInv, SampleTimes
<1> QED
  BY <1>1, PlannerBookkeeping, PTL

\* No delta is negative or more than the counter grew between its samples.
THEOREM DeltasAreGrowth == PlannerSpec => []DeltaNeverOverstates
<1>1. PlannerInv => DeltaNeverOverstates
  BY DEF PlannerInv, CounterBooks
<1> QED
  BY <1>1, PlannerBookkeeping, PTL
=============================================================================
