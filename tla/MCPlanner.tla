----------------------------- MODULE MCPlanner ------------------------------
(***************************************************************************)
(* Values for Planner.  Two collectors are enough for one to be slow while *)
(* the other is done; jobs that queue behind busy workers are RunBatch's.  *)
(***************************************************************************)
EXTENDS Planner

\* A complete answer, partial evidence beside an error, which is no number
\* and takes no part in deltas.
SomeAnswers == {[value |-> "number", err |-> FALSE],
                [value |-> "text", err |-> TRUE]}

ZeroOrOne == {0, 1}
One == {1}
=============================================================================
