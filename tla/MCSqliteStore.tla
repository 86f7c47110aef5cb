--------------------------- MODULE MCSqliteStore ----------------------------
(***************************************************************************)
(* Values for SqliteStore: two processes on one file, a target inspected   *)
(* at two instants, snapshots of none to three metrics, one more than the  *)
(* trend rows a snapshot may have.  The processes are interchangeable, and *)
(* so are the metrics.                                                     *)
(***************************************************************************)
EXTENDS SqliteStore, TLC

MCTimes == 1..2

Alike == Permutations(Clients) \cup Permutations(Metrics)
=============================================================================
