------------------------- MODULE MCHistoryCommands --------------------------
(***************************************************************************)
(* Values for HistoryCommands: the object's states are the metrics of a    *)
(* snapshot.                                                               *)
(***************************************************************************)
EXTENDS HistoryCommands, TLC

MCTimes == 0..MaxClock
MCMetrics == 0..MaxChanges

\* Two inspectors, or two differs, behave alike.
Alike == Permutations(Inspectors) \cup Permutations(Differs)
=============================================================================
