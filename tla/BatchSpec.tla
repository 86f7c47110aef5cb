----------------------------- MODULE BatchSpec ------------------------------
(***************************************************************************)
(* What one call of runBatch (internal/core/collection/planner.go) offers  *)
(* to Planner.Run, with no goroutine and no channel in sight: the jobs of  *)
(* the batch are begun at most once each and never more than Bound at a    *)
(* time, none is begun once the context is cancelled, and the call returns *)
(* either the result of every job or the cancellation, in both cases with  *)
(* no job left running.                                                    *)
(***************************************************************************)
EXTENDS Integers, FiniteSets

CONSTANTS MaxJobs,      \* most jobs a batch is asked to run
          Bound         \* most jobs that run at the same time

VARIABLES todo,         \* jobs not begun
          running,      \* jobs begun and not finished
          finished,     \* jobs whose result is available
          cancelled,    \* the caller's context is cancelled
          outcome       \* "idle", "running", "ok" or "cancelled"

specVars == <<todo, running, finished, cancelled, outcome>>

SpecInit ==
    /\ todo = {} /\ running = {} /\ finished = {}
    /\ cancelled \in BOOLEAN
    /\ outcome = "idle"

Request(k) ==
    /\ outcome = "idle"
    /\ todo' = 1..k
    /\ outcome' = IF k = 0 THEN "ok" ELSE "running"
    /\ UNCHANGED <<running, finished, cancelled>>

Begin(j) ==
    /\ outcome = "running" /\ ~cancelled
    /\ j \in todo
    /\ Cardinality(running) < Bound
    /\ todo' = todo \ {j}
    /\ running' = running \cup {j}
    /\ UNCHANGED <<finished, cancelled, outcome>>

Finish(j) ==
    /\ outcome = "running"
    /\ j \in running
    /\ running' = running \ {j}
    /\ finished' = finished \cup {j}
    /\ UNCHANGED <<todo, cancelled, outcome>>

CancelContext ==
    /\ ~cancelled
    /\ cancelled' = TRUE
    /\ UNCHANGED <<todo, running, finished, outcome>>

Succeed ==
    /\ outcome = "running" /\ ~cancelled
    /\ todo = {} /\ running = {}
    /\ outcome' = "ok"
    /\ UNCHANGED <<todo, running, finished, cancelled>>

GiveUp ==
    /\ outcome = "running" /\ cancelled
    /\ running = {}
    /\ outcome' = "cancelled"
    /\ UNCHANGED <<todo, running, finished, cancelled>>

SpecNext ==
    \/ \E k \in 0..MaxJobs : Request(k)
    \/ \E j \in 1..MaxJobs : Begin(j) \/ Finish(j)
    \/ CancelContext \/ Succeed \/ GiveUp

BatchPromise == SpecInit /\ [][SpecNext]_specVars
=============================================================================
