------------------------------ MODULE RunBatch ------------------------------
(***************************************************************************)
(* runBatch of internal/core/collection/planner.go: a producer goroutine   *)
(* feeds the batch's jobs over an unbuffered channel to a bounded pool of  *)
(* workers, which put their results in a channel buffered for the whole    *)
(* batch; runBatch itself waits for the workers and then either returns    *)
(* the results or the context's error.  The context may be cancelled       *)
(* between any two steps.                                                  *)
(*                                                                         *)
(* A job is its index.  The results are read back sorted by index, which   *)
(* the order of arrival does not influence; what a result carries is the   *)
(* business of module Planner.                                             *)
(***************************************************************************)
EXTENDS Integers, Sequences, FiniteSets

CONSTANTS MaxJobs,          \* most jobs in a batch
          MaxConcurrency    \* Planner.maxConcurrency

ASSUME BatchAssumption == MaxJobs \in Nat /\ MaxConcurrency \in Int

VARIABLES
    cancelled,  \* ctx is cancelled
    batch,      \* "idle" (not called), "running", "ok", "cancelled"
    jobs,       \* len(jobs)
    producer,   \* "off", "check" (ctx.Err), "select", "closed" (jobCh closed)
    next,       \* index of the job the producer offers
    worker,     \* per worker: "off", "range", "check", "collect", "send", "done"
    held,       \* per worker: the job it received, 0 when none
    resultCh    \* indices of the buffered results, in order of arrival

batchVars == <<batch, jobs, producer, next, worker, held, resultCh>>
vars == <<cancelled, batchVars>>

Slots == 1..MaxJobs         \* a batch never starts more workers than jobs

Concurrency == IF MaxConcurrency < 1 THEN 1 ELSE MaxConcurrency
Limit(n) == IF Concurrency > n THEN n ELSE Concurrency

ResultCapacity(n) == n      \* make(chan batchResult, len(jobs))

Workers == 1..Limit(jobs)
Delivered == {resultCh[i] : i \in DOMAIN resultCh}
Collecting == {w \in Slots : worker[w] = "collect"}

-----------------------------------------------------------------------------
BatchIdle ==
    /\ batch = "idle" /\ jobs = 0
    /\ producer = "off" /\ next = 1
    /\ worker = [w \in Slots |-> "off"]
    /\ held = [w \in Slots |-> 0]
    /\ resultCh = <<>>

Init == cancelled \in BOOLEAN /\ BatchIdle

\* The context belongs to the caller, who may cancel it at any time.
Cancel ==
    /\ ~cancelled
    /\ cancelled' = TRUE
    /\ UNCHANGED batchVars

\* The call, up to workers.Wait(): an empty batch returns at once, without a
\* look at the context; otherwise the goroutines are started.
StartBatch(n) ==
    /\ jobs' = n
    /\ resultCh' = <<>>
    /\ next' = 1
    /\ held' = [w \in Slots |-> 0]
    /\ IF n = 0
       THEN /\ batch' = "ok"
            /\ producer' = "off"
            /\ worker' = [w \in Slots |-> "off"]
       ELSE /\ batch' = "running"
            /\ producer' = "check"
            /\ worker' = [w \in Slots |-> IF w \in 1..Limit(n) THEN "range" ELSE "off"]
    /\ UNCHANGED cancelled

Call == \E n \in 0..MaxJobs : batch = "idle" /\ StartBatch(n)

-----------------------------------------------------------------------------
\* Mutant: the loop runs once too often.
ProducerCheckOneMore ==
    /\ producer = "check"
    /\ producer' = IF next > jobs + 1 \/ cancelled THEN "closed" ELSE "select"
    /\ UNCHANGED <<cancelled, batch, jobs, next, worker, held, resultCh>>

\* Top of the producer's loop: leave (and close jobCh) after the last job or
\* when the context is seen cancelled, else go on to the select.
ProducerCheck ==
    /\ producer = "check"
    /\ producer' = IF next > jobs \/ cancelled THEN "closed" ELSE "select"
    /\ UNCHANGED <<cancelled, batch, jobs, next, worker, held, resultCh>>

\* Mutant: a plain send without the select.
ProducerNeverStops == FALSE

\* The select's ctx.Done() arm.  When a worker is receiving too, either arm
\* may be taken.
ProducerStop ==
    /\ producer = "select" /\ cancelled
    /\ producer' = "closed"
    /\ UNCHANGED <<cancelled, batch, jobs, next, worker, held, resultCh>>

\* Mutant: the loop does not advance.
SendSameJob(w) ==
    /\ producer = "select"
    /\ worker[w] = "range"
    /\ producer' = "check"
    /\ worker' = [worker EXCEPT ![w] = "check"]
    /\ held' = [held EXCEPT ![w] = next]
    /\ UNCHANGED <<cancelled, batch, jobs, next, resultCh>>

\* The select's send arm: jobCh is unbuffered, so the worker receives in the
\* same step.
Send(w) ==
    /\ producer = "select"
    /\ worker[w] = "range"
    /\ producer' = "check"
    /\ next' = next + 1
    /\ worker' = [worker EXCEPT ![w] = "check"]
    /\ held' = [held EXCEPT ![w] = next]
    /\ UNCHANGED <<cancelled, batch, jobs, resultCh>>

\* "for job := range jobCh" ends when the channel is closed.
WorkerExit(w) ==
    /\ worker[w] = "range" /\ producer = "closed"
    /\ worker' = [worker EXCEPT ![w] = "done"]
    /\ UNCHANGED <<cancelled, batch, jobs, producer, next, held, resultCh>>

\* Mutant: the worker collects without a look at the context.
WorkerSkipsCheck(w) ==
    /\ worker[w] = "check"
    /\ worker' = [worker EXCEPT ![w] = "collect"]
    /\ UNCHANGED <<cancelled, batch, jobs, producer, next, held, resultCh>>

\* The worker's own look at ctx.Err(): a cancelled worker returns and drops
\* the job it received.
WorkerCheck(w) ==
    /\ worker[w] = "check"
    /\ worker' = [worker EXCEPT ![w] = IF cancelled THEN "done" ELSE "collect"]
    /\ held' = [held EXCEPT ![w] = IF cancelled THEN 0 ELSE @]
    /\ UNCHANGED <<cancelled, batch, jobs, producer, next, resultCh>>

\* collector.Collect returns, with evidence, an error or both.
CollectReturns(w) ==
    /\ worker[w] = "collect"
    /\ worker' = [worker EXCEPT ![w] = "send"]
    /\ UNCHANGED <<cancelled, batch, jobs, producer, next, held, resultCh>>

SendResult(w) ==
    /\ worker[w] = "send"
    /\ Len(resultCh) < ResultCapacity(jobs)
    /\ resultCh' = Append(resultCh, held[w])
    /\ worker' = [worker EXCEPT ![w] = "range"]
    /\ held' = [held EXCEPT ![w] = 0]
    /\ UNCHANGED <<cancelled, batch, jobs, producer, next>>

\* Mutants: the context is not asked; the first worker to end is waited for.
JoinWithoutContext ==
    /\ batch = "running"
    /\ \A w \in Workers : worker[w] = "done"
    /\ batch' = "ok"
    /\ UNCHANGED <<cancelled, jobs, producer, next, worker, held, resultCh>>

JoinFirstWorker ==
    /\ batch = "running"
    /\ \E w \in Workers : worker[w] = "done"
    /\ batch' = IF cancelled THEN "cancelled" ELSE "ok"
    /\ UNCHANGED <<cancelled, jobs, producer, next, worker, held, resultCh>>

\* workers.Wait() is over: the context decides between error and results.
Join ==
    /\ batch = "running"
    /\ \A w \in Workers : worker[w] = "done"
    /\ batch' = IF cancelled THEN "cancelled" ELSE "ok"
    /\ UNCHANGED <<cancelled, jobs, producer, next, worker, held, resultCh>>

ProducerStep == ProducerCheck \/ ProducerStop \/ \E w \in Slots : Send(w)
WorkerStep(w) == WorkerExit(w) \/ WorkerCheck(w) \/ CollectReturns(w) \/ SendResult(w)

Returned == batch \in {"ok", "cancelled"}
GoroutinesGone ==
    /\ producer \in {"off", "closed"}
    /\ \A w \in Slots : worker[w] \in {"off", "done"}

\* The call has returned, and what it left behind is nobody's business.
Finished == Returned /\ UNCHANGED vars

Next ==
    \/ Cancel \/ Call
    \/ ProducerStep
    \/ \E w \in Slots : WorkerStep(w)
    \/ Join
    \/ Finished

\* Every goroutine is scheduled and Collect returns; nobody has to cancel.
Fairness ==
    /\ WF_vars(Call) /\ WF_vars(Join) /\ WF_vars(ProducerStep)
    /\ \A w \in Slots : WF_vars(WorkerStep(w))

Spec == Init /\ [][Next]_vars
FairSpec == Spec /\ Fairness

-----------------------------------------------------------------------------
TypeOK ==
    /\ cancelled \in BOOLEAN
    /\ batch \in {"idle", "running", "ok", "cancelled"}
    /\ jobs \in 0..MaxJobs
    /\ producer \in {"off", "check", "select", "closed"}
    /\ next \in 1..(jobs + 1)
    /\ worker \in [Slots -> {"off", "range", "check", "collect", "send", "done"}]
    /\ held \in [Slots -> 0..jobs]
    /\ resultCh \in Seq(1..jobs)

\* A call that returns without an error returns the result of every job,
\* each exactly once, whatever was cancelled meanwhile: a worker that drops
\* a job (WorkerCheck) never makes it into a nil-error return.
AllResultsOrError ==
    batch = "ok" =>
        /\ Len(resultCh) = jobs
        /\ Delivered = 1..jobs

\* No job is collected twice: two workers never hold the same job, none
\* holds a job whose result is already buffered, no result is buffered twice.
AtMostOnce ==
    /\ \A v, w \in Slots : held[v] # 0 /\ held[v] = held[w] => v = w
    /\ \A w \in Slots : held[w] \notin Delivered
    /\ \A i, k \in DOMAIN resultCh : resultCh[i] = resultCh[k] => i = k

\* The buffer of make(chan batchResult, len(jobs)) has room whenever a worker
\* sends: runBatch only drains it after workers.Wait(), so a worker that
\* blocked here would hang the inspection.
SendNeverBlocks ==
    \A w \in Slots : worker[w] = "send" => Len(resultCh) < ResultCapacity(jobs)

\* Every job the producer has handed over is with a worker or in the buffer;
\* only a cancelled context lets one go missing.
NoJobLost ==
    ~cancelled => \A j \in 1..(next - 1) : j \in Delivered \/ \E w \in Slots : held[w] = j

\* The bound the collectors' database connections are sized by (README:
\* "bounded concurrent collection", WithMaxConcurrency).
ConcurrencyBound == Cardinality(Collecting) <= Concurrency

\* Nothing that was queued when the context was cancelled is collected
\* afterwards (TestPlannerCancellationStopsQueuedCollectors), although the
\* producer's select may still hand a job over.
NoStartAfterCancel == [][cancelled => Collecting' \subseteq Collecting]_vars

-----------------------------------------------------------------------------
(* The books of a batch: the inductive invariant of the proofs *)

Busy == {"check", "collect", "send"}

\* A worker holds a job exactly between receiving it and delivering it.
HeldWhileBusy == \A w \in Slots : worker[w] \in Busy <=> held[w] # 0

\* Only jobs the producer has handed over are with a worker or delivered.
HandedOver ==
    /\ \A w \in Slots : held[w] < next
    /\ \A i \in DOMAIN resultCh : resultCh[i] < next

\* The producer offers jobs of the batch and closes the channel early only
\* when cancelled.
ProducerInOrder ==
    /\ producer = "select" => next <= jobs
    /\ producer = "closed" => cancelled \/ next = jobs + 1

\* The pool is the workers StartBatch made; they end when there is no more
\* to do.
PoolOfWorkers ==
    /\ \A w \in Slots : worker[w] = "off" <=> w \notin Workers
    /\ \A w \in Slots : worker[w] = "done" => cancelled \/ producer = "closed"
    /\ batch = "running" => jobs >= 1
    /\ batch = "idle" => jobs = 0

\* What the call left behind, and keeps.
ReturnedComplete ==
    /\ Returned => \A w \in Slots : worker[w] \in {"off", "done"}
    /\ batch = "ok" => Delivered = 1..jobs

BatchInv ==
    /\ TypeOK /\ HeldWhileBusy /\ HandedOver /\ ProducerInOrder
    /\ PoolOfWorkers /\ AtMostOnce /\ NoJobLost /\ ReturnedComplete

-----------------------------------------------------------------------------
\* BatchSpec's state in terms of goroutines and channels: a job runs from its
\* worker's check of the context until its result is buffered.
Running == {held[w] : w \in {v \in Slots : worker[v] \in {"collect", "send"}}}
Todo == IF batch = "idle" THEN {} ELSE (1..jobs) \ (Delivered \cup Running)

Promise == INSTANCE BatchSpec WITH
    Bound <- Concurrency, todo <- Todo, running <- Running, finished <- Delivered, outcome <- batch

\* The goroutines, channels and checks together offer what BatchSpec says.
KeepsBatchPromise == Promise!BatchPromise

\* The call returns, and none of its goroutines outlives it for ever: after
\* a cancellation the producer does not stay blocked on a channel nobody
\* receives from, nor a worker on one nobody drains.
NoGoroutineLeak == <>[](Returned /\ GoroutinesGone)
=============================================================================
