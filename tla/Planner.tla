------------------------------ MODULE Planner -------------------------------
(***************************************************************************)
(* Planner.Run of internal/core/collection/planner.go: collectors are      *)
(* selected by capability and strategy, the snapshot collectors run in one *)
(* batch, the counter collectors in two batches separated by the sample    *)
(* window, and the three sets of results become observations, deltas and   *)
(* warnings.  The batches are those of module RunBatch: a collector that   *)
(* is slow, cancelled or failing in one of them is what makes the samples  *)
(* and the window hard to reason about.                                    *)
(*                                                                         *)
(* Time is a clock the environment moves.  The database is one cumulative  *)
(* counter that grows and is reset at any moment; each collector reads it  *)
(* at its own moment, so one counter stands for all of them.               *)
(***************************************************************************)
EXTENDS RunBatch

CONSTANTS
    Answers,     \* what a call of Collect may return, see AnswerSet
    Windows,     \* values of --sample-window, in ticks
    MaxClock,    \* last tick at which the environment lets time pass
    MaxGrowth,   \* most increments of the database's counter
    MaxFalls,    \* most falls of its value: resets, or those of an estimate
    None,        \* no observation
    NonNumeric   \* an observation whose value is not a number

\* Whether an observation is returned and is a number, and an error beside it.
AnswerSet == [value : {"number", "text", "none"}, err : BOOLEAN]

ASSUME PlannerAssumption ==
    /\ Answers \subseteq AnswerSet
    /\ Windows \subseteq Int
    /\ {MaxClock, MaxGrowth, MaxFalls} \subseteq Nat

VARIABLES
    kind,        \* per collector: "incapable", "snapshot", "counter" or "other"
    window,      \* sampleWindow
    stage,       \* "start", "single", "sampleA", "wait", "sampleB", "done"
    evidence,    \* per phase and collector: what Collect returned
    deadline,    \* when the waiter's timer fires
    observed,    \* collectors with an observation in the result
    delta,       \* per collector: the delta in the result, or None
    warnings,    \* <<collector, reason>> pairs in the result
    outcome,     \* "none", "result" or "error"
    clock,
    server       \* the database's counter, with its growth, resets and drops so far

runVars == <<kind, window, stage, evidence, deadline, observed, delta, warnings, outcome>>
plannerVars == <<vars, runVars, clock, server>>

Collectors == Slots
Phases == {"single", "sampleA", "sampleB"}

Of(strategy) == {c \in Collectors : kind[c] = strategy}

\* jobs(): the collectors of one strategy in the order they were given.
CollectorOf(strategy, j) ==
    CHOOSE c \in Of(strategy) : Cardinality({d \in Of(strategy) : d <= c}) = j

StrategyOf(phase) == IF phase = "single" THEN "snapshot" ELSE "counter"

-----------------------------------------------------------------------------
NoEvidence == [calls |-> 0, value |-> None, err |-> FALSE, at |-> 0,
               growth |-> 0, resets |-> 0, drops |-> 0]

PlannerInit ==
    /\ cancelled = FALSE /\ BatchIdle
    /\ kind \in [Collectors -> {"incapable", "snapshot", "counter", "other"}]
    /\ window \in Windows
    /\ stage = "start"
    /\ evidence = [p \in Phases |-> [c \in Collectors |-> NoEvidence]]
    /\ deadline = 0
    /\ observed = {} /\ warnings = {}
    /\ delta = [c \in Collectors |-> None]
    /\ outcome = "none"
    /\ clock = 0
    /\ server = [value |-> 1, growth |-> 0, resets |-> 0, drops |-> 0]

\* The selection loop and the start of the snapshot batch.
Run ==
    /\ stage = "start"
    /\ stage' = "single"
    /\ warnings' = {<<c, "unsupported strategy">> : c \in Of("other")}
    /\ StartBatch(Cardinality(Of("snapshot")))
    /\ UNCHANGED <<kind, window, evidence, deadline, observed, delta, outcome, clock, server>>

Reading(sort) ==
    CASE sort = "number" -> server.value
      [] sort = "text"   -> NonNumeric
      [] sort = "none"   -> None

\* Collect reads the database some time during its call, here when it
\* returns: it yields an observation, an error, both (partial evidence) or
\* neither (nothing to report).
Collects(w) ==
    /\ CollectReturns(w)
    /\ \E answer \in Answers :
         evidence' = [evidence EXCEPT ![stage][CollectorOf(StrategyOf(stage), held[w])] =
                        [calls  |-> @.calls + 1,
                         value  |-> Reading(answer.value),
                         err    |-> answer.err,
                         at     |-> clock,
                         growth |-> server.growth,
                         resets |-> server.resets,
                         drops  |-> server.drops]]
    /\ UNCHANGED <<kind, window, stage, deadline, observed, delta, warnings, outcome, clock, server>>

\* runBatch's other steps.
BatchStep ==
    /\ \/ ProducerStep \/ Join
       \/ \E w \in Slots : WorkerExit(w) \/ WorkerCheck(w) \/ SendResult(w)
    /\ UNCHANGED <<runVars, clock, server>>

CancelRun == Cancel /\ UNCHANGED <<runVars, clock, server>>

-----------------------------------------------------------------------------
\* Mutant: the observations of an erring collector are thrown away.
ObservingOnlyWhole(phase) ==
    {c \in Collectors : evidence[phase][c].value # None /\ ~evidence[phase][c].err}

Observing(phase) == {c \in Collectors : evidence[phase][c].value # None}
Failing(phase) == {<<c, "collector error">> : c \in {d \in Collectors : evidence[phase][d].err}}

\* The two ways out: Result{} with an error, or the result.
Abort ==
    /\ stage' = "done" /\ outcome' = "error"
    /\ observed' = {} /\ warnings' = {} /\ delta' = [c \in Collectors |-> None]
    /\ UNCHANGED <<vars, kind, window, evidence, deadline, clock, server>>

Return ==
    /\ stage' = "done" /\ outcome' = "result"
    /\ UNCHANGED <<vars, kind, window, evidence, deadline, clock, server>>

\* The snapshot results are in; without counters they are the result.
AfterSingle ==
    /\ stage = "single" /\ batch = "ok"
    /\ observed' = Observing("single")
    /\ warnings' = warnings \cup Failing("single")
    /\ \/ Of("counter") = {} /\ Return
       \/ /\ Of("counter") # {} /\ window > 0
          /\ stage' = "sampleA"
          /\ StartBatch(Cardinality(Of("counter")))
          /\ UNCHANGED <<kind, window, evidence, deadline, outcome, clock, server>>
    /\ UNCHANGED delta

\* A window that is not positive is refused only now that counters need it.
RefuseWindow ==
    /\ stage = "single" /\ batch = "ok"
    /\ Of("counter") # {} /\ window <= 0
    /\ Abort

\* All first samples are in: the waiter's timer is started.
AfterSampleA ==
    /\ stage = "sampleA" /\ batch = "ok"
    /\ warnings' = warnings \cup Failing("sampleA")
    /\ stage' = "wait"
    /\ deadline' = clock + window
    /\ UNCHANGED <<vars, kind, window, evidence, observed, delta, outcome, clock, server>>

\* Mutant: the waiter does not wait.
WaitSkipped ==
    /\ stage = "wait"
    /\ stage' = "sampleB"
    /\ StartBatch(Cardinality(Of("counter")))
    /\ UNCHANGED <<kind, window, evidence, deadline, observed, delta, warnings, outcome, clock, server>>

\* RealWaiter.Wait: the timer or the cancellation, either when both are due.
WaitElapses ==
    /\ stage = "wait" /\ clock >= deadline
    /\ stage' = "sampleB"
    /\ StartBatch(Cardinality(Of("counter")))
    /\ UNCHANGED <<kind, window, evidence, deadline, observed, delta, warnings, outcome, clock, server>>

WaitCancelled ==
    /\ stage = "wait" /\ cancelled
    /\ Abort

\* firstSamples is filled from every observation of phase A, an erring
\* collector's partial evidence included.
FirstSample(c) == evidence["sampleA"][c].value
Paired == {c \in Observing("sampleB") : /\ FirstSample(c) \notin {None, NonNumeric}
                                        /\ evidence["sampleB"][c].value # NonNumeric}
\* Mutant: no look at the sign.
NeverReset(c) == FALSE

IsReset(c) == evidence["sampleB"][c].value < FirstSample(c)

AfterSampleB ==
    /\ stage = "sampleB" /\ batch = "ok"
    /\ observed' = observed \cup Observing("sampleB")
    /\ delta' = [c \in Collectors |-> IF c \in Paired /\ ~IsReset(c)
                                      THEN evidence["sampleB"][c].value - FirstSample(c)
                                      ELSE None]
    /\ warnings' = warnings \cup Failing("sampleB")
                     \cup {<<c, "counter reset">> : c \in {d \in Paired : IsReset(d)}}
    /\ Return

\* Mutant: a cancelled batch is tried again.
RetryCancelledBatch ==
    /\ stage \in Phases /\ batch = "cancelled"
    /\ StartBatch(jobs)
    /\ UNCHANGED <<runVars, clock, server>>

\* A cancelled batch makes Run return Result{} and the context's error.
AfterCancelledBatch ==
    /\ stage \in Phases /\ batch = "cancelled"
    /\ Abort

-----------------------------------------------------------------------------
\* The environment.  What it does before the counter batches start makes no
\* difference to them; in phase A and B it leaves the waiter enough ticks.
Sampling == stage \in {"sampleA", "wait", "sampleB"}

Tick ==
    /\ Sampling
    /\ clock < (IF stage = "sampleA" THEN MaxClock - window ELSE MaxClock)
    /\ clock' = clock + 1
    /\ UNCHANGED <<vars, runVars, server>>

CounterGrows ==
    /\ Sampling /\ server.growth < MaxGrowth
    /\ server' = [server EXCEPT !.value = @ + 1, !.growth = @ + 1]
    /\ UNCHANGED <<vars, runVars, clock>>

CounterResets ==
    /\ Sampling /\ server.resets + server.drops < MaxFalls
    /\ server' = [server EXCEPT !.value = 0, !.resets = @ + 1]
    /\ UNCHANGED <<vars, runVars, clock>>

\* tableCollector is a counter collector, and the estimated number of a
\* table's rows is one of its observations: a statistic the server recomputes.
EstimateFalls ==
    /\ Sampling /\ server.resets + server.drops < MaxFalls /\ server.value > 0
    /\ server' = [server EXCEPT !.value = @ - 1, !.drops = @ + 1]
    /\ UNCHANGED <<vars, runVars, clock>>

PlannerFinished == stage = "done" /\ UNCHANGED plannerVars

PlannerStep ==
    Run \/ AfterSingle \/ RefuseWindow \/ AfterSampleA \/ WaitElapses \/ WaitCancelled
        \/ AfterSampleB \/ AfterCancelledBatch

PlannerNext ==
    \/ PlannerStep
    \/ \E w \in Slots : Collects(w)
    \/ BatchStep \/ CancelRun
    \/ Tick \/ CounterGrows \/ CounterResets \/ EstimateFalls
    \/ PlannerFinished

\* Run's own goroutine, the batch's goroutines and the clock move on.
PlannerFairness ==
    /\ WF_plannerVars(PlannerStep)
    /\ WF_plannerVars(BatchStep)
    /\ \A w \in Slots : WF_plannerVars(Collects(w))
    /\ WF_plannerVars(Tick)

PlannerSpec == PlannerInit /\ [][PlannerNext]_plannerVars
FairPlannerSpec == PlannerSpec /\ PlannerFairness

-----------------------------------------------------------------------------
\* A result rests on exactly one collection of every capable collector in
\* every phase of its strategy, whatever the workers' order was and wherever
\* a cancellation fell; nothing else was collected.
EveryPhaseOnce ==
    outcome = "result" =>
        \A p \in Phases, c \in Collectors :
            evidence[p][c].calls = IF kind[c] = StrategyOf(p) THEN 1 ELSE 0

\* One failing collector costs only its own evidence (architecture design
\* section 11.3): what was observed stays in the result, partial evidence
\* included, and each failure is in the warnings.
FailureIsolated ==
    outcome = "result" =>
        \A c \in Collectors :
            /\ c \in observed <=> \/ evidence["single"][c].value # None
                                  \/ evidence["sampleB"][c].value # None
            /\ <<c, "collector error">> \in warnings <=> \E p \in Phases : evidence[p][c].err
            /\ delta[c] # None => c \in observed /\ <<c, "counter reset">> \notin warnings

\* The sample window lies between every first and every second sample: no
\* slow collector of phase A runs into phase B, so a rate computed over the
\* nominal window never rests on a shorter interval.
WindowBetweenSamples ==
    \A c, d \in Of("counter") :
        evidence["sampleB"][c].calls > 0 =>
            /\ evidence["sampleA"][d].calls = 1
            /\ evidence["sampleB"][c].at - evidence["sampleA"][d].at >= window

\* A delta is never negative and never more than the counter really grew
\* between the two samples, and without a reset, or a fall of an estimate, it
\* is exactly that growth; only with one of them is there a warning.  It may be
\* less than the growth, when a counter that was reset has passed its first
\* sample again: two samples cannot tell.
DeltaNeverOverstates ==
    \A c \in Collectors :
        LET a == evidence["sampleA"][c]
            b == evidence["sampleB"][c]
        IN  /\ delta[c] # None =>
                  /\ delta[c] \in 0..(b.growth - a.growth)
                  /\ <<a.resets, a.drops>> = <<b.resets, b.drops>> => delta[c] = b.growth - a.growth
            /\ <<c, "counter reset">> \in warnings => <<a.resets, a.drops>> # <<b.resets, b.drops>>

\* "Reports must distinguish [...] estimates, [...] and reset/invalidated
\* windows" (architecture design section 2): who reads of a counter reset
\* may conclude that the server was reset between the samples.
ResetWarningsAreResets ==
    \A c \in Collectors :
        <<c, "counter reset">> \in warnings =>
            evidence["sampleA"][c].resets < evidence["sampleB"][c].resets

\* The inspection's collection always comes to an end and leaves no goroutine.
RunReturns == <>[](stage = "done" /\ GoroutinesGone)
=============================================================================
