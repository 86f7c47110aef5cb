------------------------ MODULE HistoryCommandsProofs ------------------------
(***************************************************************************)
(* Proofs about HistoryCommands for any number of inspectors and differs,  *)
(* targets, clock readings and changes of the object.  CommandsInv relates *)
(* each client's locals to the history, which only grows, and the dates of *)
(* the object's changes to the clock, which may be set back: what a        *)
(* snapshot saw had happened by its time stamp, or before a set-back.      *)
(***************************************************************************)
EXTENDS HistoryCommands, WellFoundedInduction, TLAPS

\* A run that reports no warning has stored its complete evidence.
Told(c) == run[c].warnings = {} => SnapshotOf(c) \in saved /\ ~run[c].gaps

\* The first i changes of the object were over at this reading of the clock,
\* or else at one that was set back since.
Dated(i, at) == \A k \in 1..i : changedAt[k] <= high \/ changedAt[k] <= at

-----------------------------------------------------------------------------
Warnings == {"unavailable", "skipped", "failed", "close uncertain"}

Places == {"idle", "collect", "evaluate", "failed", "persist", "close", "render", "done",
           "latest", "previous", "give up", "reported"}

Runs == [target : Targets \cup {Nothing}, format : {"text", "json"}, calls : Nat,
         seen : 0..MaxChanges, gaps : BOOLEAN, at : Times, warnings : SUBSET Warnings,
         known : SUBSET SnapshotSet, current : SnapshotSet \cup {Nothing}]

CommandTypes ==
    /\ saved \subseteq SnapshotSet
    /\ reply = [c \in Clients |-> reply[c]]
    /\ clock \in Times /\ high \in Int /\ object \in 0..MaxChanges
    /\ changedAt \in [1..MaxChanges -> Times]
    /\ pc \in [Clients -> Places]
    /\ handle \in [Clients -> {"none", "open", "closed"}]
    /\ run \in [Clients -> Runs]
    /\ report = [c \in Clients |-> report[c]]

\* The history shows the object as it was.
SharedBooks ==
    /\ Dated(object, clock)
    /\ \A s \in saved : \A i \in s.metrics : i <= object /\ Dated(i, s.at)

\* What an inspection knows, from place to place.
InspectBooks(c) ==
    /\ pc[c] \in {"collect", "evaluate", "persist", "close", "render"} =>
          c \in Inspectors /\ run[c].target \in Targets
    /\ pc[c] \in {"collect", "evaluate"} => handle[c] = "open" \/ run[c].warnings # {}
    /\ pc[c] \in {"close", "render"} => Told(c)
    /\ pc[c] = "done" /\ run[c].format = "json" =>
          Told(c) /\ report[c].warnings = run[c].warnings
    /\ run[c].seen <= object
    /\ pc[c] = "persist" => Dated(run[c].seen, run[c].at)

\* What a diff knows.
DiffBooks(c) ==
    /\ pc[c] \in {"latest", "previous", "give up", "reported"} => run[c].format = "text"
    /\ pc[c] \in {"previous", "reported"} =>
          /\ run[c].current \in saved /\ run[c].current.target = run[c].target
          /\ run[c].known \subseteq saved
          /\ \A s \in run[c].known : s.target = run[c].target => s.at <= run[c].current.at
    /\ pc[c] = "reported" =>
          LET p == report[c].previous
              n == report[c].current
          IN  /\ {p, n} \subseteq saved /\ p.at < n.at
              /\ p.target = run[c].target /\ n.target = run[c].target
              /\ \A s \in run[c].known : s.target = p.target => s.at <= p.at \/ s.at = n.at

CommandsInv ==
    /\ CommandTypes /\ SharedBooks
    /\ \A c \in Clients : InspectBooks(c) /\ DiffBooks(c)

\* With one inspector the history is in the order of what it saw, save for
\* stamps that the clock was set back before; and what the inspector has seen
\* and stamped so far comes after all of it.
OneInspector == \A i, j \in Inspectors : i = j

HistoryInOrder ==
    /\ \A s \in saved : s.at > high => s.at <= clock
    /\ \A r, s \in saved : s.at > high /\ r.at < s.at =>
          \A i \in r.metrics, j \in s.metrics : i <= j

NextInOrder(c) ==
    /\ pc[c] \in {"evaluate", "persist"} => \A s \in saved : \A i \in s.metrics : i <= run[c].seen
    /\ pc[c] = "persist" =>
          /\ run[c].at > high => run[c].at <= clock
          /\ \A s \in saved : s.at > high => s.at <= run[c].at

InOrder == HistoryInOrder /\ \A c \in Clients : NextInOrder(c)

-----------------------------------------------------------------------------
\* The least-number principle, without an operator for the property: the
\* library's well-foundedness of < says it of sets.
LEMMA LeastOf ==
    ASSUME NEW S \in SUBSET Nat, S # {}
    PROVE  \E m \in S : \A n \in S : m <= n
<1> DEFINE R == OpToRel(<, Nat)
<1>1. IsWellFoundedOn(R, Nat)
  BY NatLessThanWellFounded
<1>2. \A x, y \in Nat : x < y => <<x, y>> \in R
  BY DEF OpToRel
<1> HIDE DEF R
<1>3. PICK m \in S : \A n \in S : ~(<<n, m>> \in R)
  BY <1>1, WFMin
<1>4. \A n \in S : ~(n < m)
  BY <1>2, <1>3
<1> QED
  BY <1>3, <1>4

\* The newest of some snapshots is one of them, and none is newer.
LEMMA NewestIsNewest ==
    ASSUME NEW S \in SUBSET SnapshotSet, S # {}
    PROVE  Newest(S) \in S /\ \A r \in S : r.at <= Newest(S).at
<1> DEFINE ages == {MaxClock - s.at : s \in S}
<1>1. MaxClock \in Nat /\ \A s \in S : s.at \in 0..MaxClock
  BY CommandsAssumption DEF SnapshotSet
<1>2. ages \subseteq Nat /\ ages # {}
  BY <1>1
<1> HIDE DEF ages
<1>3. PICK m \in ages : \A n \in ages : m <= n
  BY <1>2, LeastOf
<1>4. PICK s \in S : m = MaxClock - s.at
  BY <1>3 DEF ages
<1>5. ASSUME NEW r \in S PROVE r.at <= s.at
  <2>1. MaxClock - s.at <= MaxClock - r.at
    BY <1>3, <1>4 DEF ages
  <2> QED
    BY <1>1, <2>1
<1>6. \E x \in S : \A r \in S : r.at <= x.at
  BY <1>5
<1> QED
  BY <1>6 DEF Newest

-----------------------------------------------------------------------------
\* How the world moves in any step: nothing that was is taken back.
Grows ==
    /\ saved \subseteq saved'
    /\ high <= high' /\ object <= object'
    /\ \A k \in 1..object : changedAt'[k] = changedAt[k]

\* A step of one client leaves the others where they are.
Alone(c) ==
    \A d \in Clients \ {c} :
        pc'[d] = pc[d] /\ run'[d] = run[d] /\ handle'[d] = handle[d] /\ report'[d] = report[d]

\* A date stays right.
LEMMA StaysDated ==
    ASSUME CommandTypes, CommandTypes', Grows, NEW i \in Int, i <= object, NEW at, Dated(i, at)
    PROVE  \A k \in 1..i : changedAt'[k] <= high' \/ changedAt'[k] <= at
<1> SUFFICES ASSUME NEW k \in 1..i PROVE changedAt'[k] <= high' \/ changedAt'[k] <= at
  OBVIOUS
<1>1. object \in 0..MaxChanges /\ MaxChanges \in Nat /\ high \in Int /\ high' \in Int
      /\ changedAt \in [1..MaxChanges -> Times] /\ Times \subseteq Int
  BY CommandsAssumption DEF CommandTypes
<1>2. k \in 1..object /\ changedAt[k] \in Int
  <2>1. k \in 1..object /\ k \in 1..MaxChanges
    BY <1>1
  <2> QED
    BY <1>1, <2>1
<1>3. changedAt'[k] = changedAt[k] /\ (changedAt[k] <= high \/ changedAt[k] <= at)
  BY <1>2 DEF Grows, Dated
<1> QED
  BY <1>1, <1>2, <1>3 DEF Grows

\* What a client knows stays true while others move.
LEMMA BooksStay ==
    ASSUME CommandsInv, CommandTypes', Grows, NEW d \in Clients,
           pc'[d] = pc[d], run'[d] = run[d], handle'[d] = handle[d], report'[d] = report[d]
    PROVE  InspectBooks(d)' /\ DiffBooks(d)'
<1>1. CommandTypes /\ InspectBooks(d) /\ DiffBooks(d)
  BY DEF CommandsInv
<1>2. run[d].seen \in Int /\ run[d].seen <= object /\ object \in Int /\ object' \in Int
  <2>1. run[d] \in Runs /\ MaxChanges \in Nat
    BY <1>1, CommandsAssumption DEF CommandTypes
  <2> QED
    BY <1>1, <2>1 DEF Runs, CommandTypes, InspectBooks
<1>3. Told(d) => Told(d)'
  BY DEF Told, SnapshotOf, Grows
<1>4. Dated(run[d].seen, run[d].at) => Dated(run[d].seen, run[d].at)'
  BY <1>1, <1>2, StaysDated DEF Dated
<1>5. InspectBooks(d)'
  BY <1>1, <1>2, <1>3, <1>4 DEF InspectBooks, Grows
<1>6. DiffBooks(d)'
  BY <1>1 DEF DiffBooks, Grows
<1> QED
  BY <1>5, <1>6

\* So a client's step has to account for its own books only.
LEMMA ClientStep ==
    ASSUME CommandsInv, CommandTypes', Grows, NEW c \in Clients, Alone(c),
           SharedBooks', InspectBooks(c)', DiffBooks(c)'
    PROVE  CommandsInv'
<1>1. ASSUME NEW d \in Clients PROVE InspectBooks(d)' /\ DiffBooks(d)'
  <2>1. CASE d = c
    BY <2>1
  <2>2. CASE d # c
    BY <2>2, BooksStay DEF Alone
  <2> QED
    BY <2>1, <2>2
<1> QED
  BY <1>1 DEF CommandsInv

\* When the history and the world stand still there is nothing to grow.
LEMMA QuietWorld ==
    ASSUME CommandsInv, UNCHANGED <<saved, world>>
    PROVE  Grows /\ SharedBooks'
<1>1. high \in Int /\ object \in Int
  BY CommandsAssumption DEF CommandsInv, CommandTypes
<1> QED
  BY <1>1 DEF CommandsInv, SharedBooks, Dated, Grows, world

-----------------------------------------------------------------------------
\* Nobody runs, and nothing is stored or dated.
LEMMA CommandsStart == CommandsInit => CommandsInv
<1> SUFFICES ASSUME CommandsInit PROVE CommandsInv
  OBVIOUS
<1>1. 0 \in Times /\ 0 \in 0..MaxChanges /\ MaxChanges \in Nat
  BY CommandsAssumption
<1>2. Fresh \in Runs
  BY <1>1 DEF Fresh, Runs
<1>3. CommandTypes
  BY <1>1, <1>2 DEF CommandsInit, CommandTypes, Places
<1>4. SharedBooks
  BY DEF CommandsInit, SharedBooks, Dated
<1>5. \A c \in Clients : InspectBooks(c) /\ DiffBooks(c)
  BY DEF CommandsInit, InspectBooks, DiffBooks, Fresh
<1> QED
  BY <1>3, <1>4, <1>5 DEF CommandsInv

-----------------------------------------------------------------------------
(* inspect *)

\* A run starts with a history, or with a warning that there is none.
LEMMA StartInspectKeeps ==
    ASSUME CommandsInv, NEW c \in Clients, NEW t \in Targets, NEW format \in Formats,
           StartInspect(c, t, format)
    PROVE  CommandsInv'
<1>1. CommandTypes
  BY DEF CommandsInv
<1>2. PICK opened \in BOOLEAN :
        /\ run' = [run EXCEPT ![c] = [Fresh EXCEPT !.target = t, !.format = format,
                                        !.warnings = IF opened THEN {} ELSE {"unavailable"}]]
        /\ handle' = [handle EXCEPT ![c] = IF opened THEN "open" ELSE "none"]
  BY DEF StartInspect, Holds
<1>3. Fresh.seen = 0 /\ run'[c] = [Fresh EXCEPT !.target = t, !.format = format,
                                     !.warnings = IF opened THEN {} ELSE {"unavailable"}]
  BY <1>1, <1>2 DEF CommandTypes, Fresh
<1>4. run'[c].target = t /\ run'[c].seen = 0
      /\ run'[c].warnings = (IF opened THEN {} ELSE {"unavailable"})
      /\ run'[c] \in Runs
  <2>1. format \in {"text", "json"} /\ (IF opened THEN {} ELSE {"unavailable"}) \in SUBSET Warnings
    BY CommandsAssumption DEF Warnings
  <2> QED
    <3> DEFINE W == IF opened THEN {} ELSE {"unavailable"}
    <3>1. run'[c] = [target |-> t, format |-> format, calls |-> 0, seen |-> 0, gaps |-> FALSE,
                     at |-> 0, warnings |-> W, known |-> {}, current |-> Nothing]
      BY <1>3 DEF Fresh
    <3>2. 0 \in Times /\ 0 \in 0..MaxChanges
      BY CommandsAssumption
    <3> HIDE DEF W
    <3>3. run'[c].target = t /\ run'[c].seen = 0 /\ run'[c].warnings = W /\ run'[c] \in Runs
      BY <2>1, <3>1, <3>2 DEF Runs, W
    <3> QED
      BY <3>3 DEF W
<1>5. /\ pc' = [pc EXCEPT ![c] = "collect"] /\ pc[c] = "idle" /\ c \in Inspectors
      /\ UNCHANGED <<storeVars, world, report>>
  BY DEF StartInspect, Goes
<1>6. CommandTypes'
  BY <1>1, <1>2, <1>4, <1>5 DEF CommandTypes, Places, world, storeVars
<1>7. Alone(c)
  BY <1>1, <1>2, <1>5 DEF Alone, CommandTypes
<1>8. Grows /\ SharedBooks'
  BY <1>5, QuietWorld DEF storeVars
<1>9. InspectBooks(c)' /\ DiffBooks(c)'
  <2>1. 0 <= object'
    BY <1>6, CommandsAssumption DEF CommandTypes
  <2>2. pc'[c] = "collect" /\ handle'[c] = (IF opened THEN "open" ELSE "none")
    BY <1>1, <1>2, <1>5 DEF CommandTypes
  <2> QED
    BY <1>4, <1>5, <2>1, <2>2 DEF InspectBooks, DiffBooks
<1> QED
  BY <1>6, <1>7, <1>8, <1>9, ClientStep

\* The collectors see the object as it is.
LEMMA CollectKeeps ==
    ASSUME CommandsInv, NEW c \in Clients, Collect(c)
    PROVE  CommandsInv'
<1>1. CommandTypes /\ InspectBooks(c) /\ DiffBooks(c) /\ run[c] \in Runs /\ object \in 0..MaxChanges
  BY DEF CommandsInv, CommandTypes
<1>2. PICK gaps \in BOOLEAN :
        run' = [run EXCEPT ![c].calls = @ + 1, ![c].seen = object, ![c].gaps = gaps]
  BY DEF Collect
<1>3. run' = [run EXCEPT ![c] = [run[c] EXCEPT !.calls = @ + 1, !.seen = object, !.gaps = gaps]]
  BY <1>1, <1>2 DEF CommandTypes, Runs
<1>4. /\ run'[c] \in Runs
      /\ run'[c].target = run[c].target /\ run'[c].warnings = run[c].warnings
      /\ run'[c].seen = object
  <2> DEFINE r == run[c]
  <2>1. run'[c] = [r EXCEPT !.calls = @ + 1, !.seen = object, !.gaps = gaps]
    BY <1>1, <1>3 DEF CommandTypes
  <2>2. run'[c] = [target |-> r.target, format |-> r.format, calls |-> r.calls + 1, seen |-> object,
                   gaps |-> gaps, at |-> r.at, warnings |-> r.warnings, known |-> r.known,
                   current |-> r.current]
    BY <1>1, <2>1 DEF Runs
  <2>3. /\ r.target \in Targets \cup {Nothing} /\ r.format \in {"text", "json"} /\ r.calls + 1 \in Nat
        /\ r.at \in Times /\ r.warnings \in SUBSET Warnings /\ r.known \in SUBSET SnapshotSet
        /\ r.current \in SnapshotSet \cup {Nothing}
    BY <1>1 DEF Runs
  <2> QED
    BY <1>1, <2>2, <2>3 DEF Runs
<1>5. /\ pc[c] = "collect" /\ pc' = [pc EXCEPT ![c] = "evaluate"]
      /\ UNCHANGED <<storeVars, world, handle, report>>
  BY DEF Collect, Goes
<1>6. CommandTypes'
  BY <1>1, <1>3, <1>4, <1>5 DEF CommandTypes, Places, world, storeVars
<1>7. Alone(c)
  BY <1>1, <1>3, <1>5 DEF Alone, CommandTypes
<1>8. Grows /\ SharedBooks'
  BY <1>5, QuietWorld DEF storeVars
<1>9. InspectBooks(c)' /\ DiffBooks(c)'
  <2>1. object' = object /\ object <= object
    BY <1>1, <1>5, CommandsAssumption DEF world
  <2>2. pc'[c] = "evaluate"
    BY <1>1, <1>5 DEF CommandTypes
  <2> QED
    BY <1>1, <1>4, <1>5, <2>1, <2>2 DEF InspectBooks, DiffBooks
<1> QED
  BY <1>6, <1>7, <1>8, <1>9, ClientStep

\* A failed collection leaves nothing to account for.
LEMMA CollectFailsKeeps ==
    ASSUME CommandsInv, NEW c \in Clients, CollectFails(c)
    PROVE  CommandsInv'
<1>1. CommandTypes /\ InspectBooks(c) /\ DiffBooks(c)
  BY DEF CommandsInv
<1>2. /\ pc' = [pc EXCEPT ![c] = "failed"]
      /\ handle' = [handle EXCEPT ![c] = IF handle[c] = "open" THEN "closed" ELSE "none"]
      /\ UNCHANGED <<storeVars, world, run, report>>
  BY DEF CollectFails, Goes, Holds
<1>3. CommandTypes'
  BY <1>1, <1>2 DEF CommandTypes, Places, world, storeVars
<1>4. Alone(c)
  BY <1>1, <1>2 DEF Alone, CommandTypes
<1>5. Grows /\ SharedBooks'
  BY <1>2, QuietWorld DEF storeVars
<1>6. InspectBooks(c)' /\ DiffBooks(c)'
  <2>1. pc'[c] = "failed"
    BY <1>1, <1>2 DEF CommandTypes
  <2> QED
    BY <1>1, <1>2, <2>1 DEF InspectBooks, DiffBooks, world
<1> QED
  BY <1>3, <1>4, <1>5, <1>6, ClientStep

\* The stamp dates what the collectors saw: the changes are over by the
\* present reading of the clock.
LEMMA StampReportKeeps ==
    ASSUME CommandsInv, NEW c \in Clients, StampReport(c)
    PROVE  CommandsInv'
<1>1. /\ CommandTypes /\ InspectBooks(c) /\ DiffBooks(c) /\ SharedBooks
      /\ run[c] \in Runs /\ clock \in Times
  BY DEF CommandsInv, CommandTypes
<1>2. run' = [run EXCEPT ![c] = [run[c] EXCEPT !.at = clock]]
  BY <1>1 DEF StampReport, CommandTypes, Runs
<1>3. /\ run'[c] \in Runs
      /\ run'[c].target = run[c].target /\ run'[c].warnings = run[c].warnings
      /\ run'[c].seen = run[c].seen /\ run'[c].at = clock
  <2>1. run'[c] = [run[c] EXCEPT !.at = clock]
    BY <1>1, <1>2 DEF CommandTypes
  <2> QED
    BY <1>1, <2>1 DEF Runs
<1>4. /\ pc[c] = "evaluate"
      /\ pc' = [pc EXCEPT ![c] = IF handle[c] = "open" THEN "persist" ELSE "render"]
      /\ UNCHANGED <<storeVars, world, handle, report>>
  BY DEF StampReport, Goes
<1>5. CommandTypes'
  BY <1>1, <1>2, <1>3, <1>4 DEF CommandTypes, Places, world, storeVars
<1>6. Alone(c)
  BY <1>1, <1>2, <1>4 DEF Alone, CommandTypes
<1>7. Grows /\ SharedBooks'
  BY <1>4, QuietWorld DEF storeVars
<1>8. Dated(run[c].seen, clock)
  <2>1. run[c].seen \in Int /\ object \in Int /\ run[c].seen <= object
    BY <1>1, CommandsAssumption DEF Runs, CommandTypes, InspectBooks
  <2>2. 1..run[c].seen \subseteq 1..object
    BY <2>1
  <2> QED
    BY <1>1, <2>2 DEF SharedBooks, Dated
<1>9. InspectBooks(c)' /\ DiffBooks(c)'
  <2>1. Dated(run[c].seen, run[c].at)'
    BY <1>3, <1>4, <1>8 DEF Dated, world
  <2>2. pc'[c] = IF handle[c] = "open" THEN "persist" ELSE "render"
    BY <1>1, <1>4 DEF CommandTypes
  <2>3. pc'[c] = "render" => Told(c)'
    BY <1>1, <1>3, <1>4, <2>2 DEF InspectBooks, Told
  <2>4. InspectBooks(c)'
    BY <1>1, <1>3, <1>4, <2>1, <2>2, <2>3 DEF InspectBooks, world
  <2>5. DiffBooks(c)'
    BY <2>2 DEF DiffBooks
  <2> QED
    BY <2>4, <2>5
<1> QED
  BY <1>5, <1>6, <1>7, <1>9, ClientStep

\* A warning is added to those of the run and touches nothing else.
LEMMA WarnAdds ==
    ASSUME CommandTypes, NEW c \in Clients, NEW w \in Warnings, Warn(c, w)
    PROVE  /\ run' \in [Clients -> Runs] /\ \A d \in Clients \ {c} : run'[d] = run[d]
           /\ run'[c].target = run[c].target /\ run'[c].format = run[c].format
           /\ run'[c].seen = run[c].seen /\ run'[c].at = run[c].at
           /\ run'[c].gaps = run[c].gaps
           /\ run'[c].warnings = run[c].warnings \cup {w}
<1>1. run[c] \in Runs /\ run \in [Clients -> Runs]
  BY DEF CommandTypes
<1>2. run' = [run EXCEPT ![c] = [run[c] EXCEPT !.warnings = @ \cup {w}]]
  BY <1>1 DEF Warn, Runs
<1>3. run'[c] = [run[c] EXCEPT !.warnings = @ \cup {w}]
  BY <1>1, <1>2
<1>4. /\ run'[c] \in Runs
      /\ run'[c].target = run[c].target /\ run'[c].format = run[c].format
      /\ run'[c].seen = run[c].seen /\ run'[c].at = run[c].at
      /\ run'[c].gaps = run[c].gaps
      /\ run'[c].warnings = run[c].warnings \cup {w}
  BY <1>1, <1>3 DEF Runs
<1> QED
  BY <1>1, <1>2, <1>4

\* What the store does for a save, and what the inspection makes of it: the
\* snapshot is in the history, or there is a warning.
LEMMA PersistOutcome ==
    ASSUME CommandTypes, NEW c \in Clients, Persist(c)
    PROVE  /\ saved' = saved \/ saved' = saved \cup {SnapshotOf(c)}
           /\ reply' = [d \in Clients |-> reply'[d]]
           /\ run' \in [Clients -> Runs] /\ \A d \in Clients \ {c} : run'[d] = run[d]
           /\ run'[c].target = run[c].target /\ run'[c].format = run[c].format
           /\ run'[c].seen = run[c].seen /\ run'[c].at = run[c].at
           /\ \/ run' = run /\ SnapshotOf(c) \in saved' /\ ~run[c].gaps
              \/ run'[c].warnings # {}
<1>1. reply = [d \in Clients |-> reply[d]] /\ run \in [Clients -> Runs]
  BY DEF CommandTypes
<1>2. CASE Warn(c, "skipped") /\ UNCHANGED storeVars
  <2>1. "skipped" \in Warnings
    BY DEF Warnings
  <2> QED
    BY <1>1, <1>2, <2>1, WarnAdds DEF storeVars
<1>3. CASE ~run[c].gaps /\ SaveSnapshot(c, SnapshotOf(c)) /\ UNCHANGED run
  BY <1>1, <1>3 DEF SaveSnapshot, Says
<1>4. CASE /\ RefuseCollision(c, SnapshotOf(c)) \/ FailOperation(c) \/ SaveUnconfirmed(c, SnapshotOf(c))
           /\ Warn(c, "failed")
  <2>1. "failed" \in Warnings
    BY DEF Warnings
  <2>2. saved' = saved \/ saved' = saved \cup {SnapshotOf(c)}
    BY <1>4 DEF RefuseCollision, FailOperation, SaveUnconfirmed
  <2>3. reply' = [d \in Clients |-> reply'[d]]
    BY <1>1, <1>4 DEF RefuseCollision, FailOperation, SaveUnconfirmed, Says
  <2> QED
    BY <1>4, <2>1, <2>2, <2>3, WarnAdds
<1> QED
  BY <1>2, <1>3, <1>4 DEF Persist

\* The stored snapshot shows what its stamp dates.
LEMMA PersistKeeps ==
    ASSUME CommandsInv, NEW c \in Clients, Persist(c)
    PROVE  CommandsInv'
<1>1. /\ CommandTypes /\ InspectBooks(c) /\ DiffBooks(c) /\ SharedBooks
      /\ run[c] \in Runs
  BY DEF CommandsInv, CommandTypes
<1>2. /\ pc[c] = "persist" /\ pc' = [pc EXCEPT ![c] = "close"]
      /\ UNCHANGED <<world, handle, report>>
  BY DEF Persist, Goes
<1>3. /\ saved' = saved \/ saved' = saved \cup {SnapshotOf(c)}
      /\ reply' = [d \in Clients |-> reply'[d]]
      /\ run' \in [Clients -> Runs] /\ \A d \in Clients \ {c} : run'[d] = run[d]
      /\ run'[c].target = run[c].target /\ run'[c].seen = run[c].seen /\ run'[c].at = run[c].at
      /\ \/ run' = run /\ SnapshotOf(c) \in saved' /\ ~run[c].gaps
         \/ run'[c].warnings # {}
  BY <1>1, PersistOutcome
<1>4. /\ SnapshotOf(c) \in SnapshotSet
      /\ SnapshotOf(c).metrics = {run[c].seen} /\ SnapshotOf(c).at = run[c].at
  <2>1. run[c].target \in Targets /\ run[c].at \in Times /\ run[c].seen \in Metrics
    BY <1>1, <1>2, CommandsAssumption DEF InspectBooks, Runs
  <2> QED
    BY <2>1 DEF SnapshotOf, SnapshotSet
<1>5. CommandTypes'
  <2>1. saved' \subseteq SnapshotSet
    BY <1>1, <1>3, <1>4 DEF CommandTypes
  <2> QED
    BY <1>1, <1>2, <1>3, <2>1 DEF CommandTypes, Places, world
<1>6. Alone(c)
  BY <1>1, <1>2, <1>3 DEF Alone, CommandTypes
<1>7. Grows
  BY <1>1, <1>2, <1>3, CommandsAssumption DEF Grows, world, CommandTypes
<1>8. SharedBooks'
  <2>1. Dated(object, clock)'
    BY <1>1, <1>2 DEF SharedBooks, Dated, world
  <2>2. ASSUME NEW s \in saved', NEW i \in s.metrics PROVE i <= object /\ Dated(i, s.at)
    <3>1. CASE s \in saved
      BY <1>1, <2>2, <3>1 DEF SharedBooks
    <3>2. CASE s = SnapshotOf(c)
      BY <1>1, <1>2, <1>4, <2>2, <3>2 DEF InspectBooks
    <3> QED
      BY <1>3, <3>1, <3>2
  <2> QED
    BY <1>2, <2>1, <2>2 DEF SharedBooks, Dated, world
<1>9. InspectBooks(c)' /\ DiffBooks(c)'
  <2>1. pc'[c] = "close"
    BY <1>1, <1>2 DEF CommandTypes
  <2>2. Told(c)'
    BY <1>3 DEF Told, SnapshotOf
  <2> QED
    BY <1>1, <1>2, <1>3, <2>1, <2>2 DEF InspectBooks, DiffBooks, world
<1> QED
  BY <1>5, <1>6, <1>7, <1>8, <1>9, ClientStep

\* Closing the history may add a warning and takes none back.
LEMMA CloseAfterInspectKeeps ==
    ASSUME CommandsInv, NEW c \in Clients, CloseAfterInspect(c)
    PROVE  CommandsInv'
<1>1. CommandTypes /\ InspectBooks(c) /\ DiffBooks(c)
  BY DEF CommandsInv
<1>2. /\ pc[c] = "close" /\ pc' = [pc EXCEPT ![c] = "render"]
      /\ handle' = [handle EXCEPT ![c] = "closed"]
      /\ UNCHANGED <<storeVars, world, report>>
  BY DEF CloseAfterInspect, Goes, Holds
<1>3. /\ run' \in [Clients -> Runs] /\ \A d \in Clients \ {c} : run'[d] = run[d]
      /\ run'[c].target = run[c].target /\ run'[c].seen = run[c].seen /\ run'[c].at = run[c].at
      /\ run'[c].gaps = run[c].gaps
      /\ run' = run \/ run'[c].warnings # {}
  <2>1. CASE run' = run
    BY <1>1, <2>1 DEF CommandTypes
  <2>2. CASE Warn(c, "close uncertain")
    BY <1>1, <2>2, WarnAdds DEF Warnings
  <2> QED
    BY <2>1, <2>2 DEF CloseAfterInspect
<1>4. CommandTypes'
  BY <1>1, <1>2, <1>3 DEF CommandTypes, Places, world, storeVars
<1>5. Alone(c)
  BY <1>1, <1>2, <1>3 DEF Alone, CommandTypes
<1>6. Grows /\ SharedBooks'
  BY <1>2, QuietWorld DEF storeVars
<1>7. InspectBooks(c)' /\ DiffBooks(c)'
  <2>1. pc'[c] = "render"
    BY <1>1, <1>2 DEF CommandTypes
  <2>2. Told(c)'
    BY <1>1, <1>2, <1>3 DEF InspectBooks, Told, SnapshotOf, storeVars
  <2> QED
    BY <1>1, <1>2, <1>3, <2>1, <2>2 DEF InspectBooks, DiffBooks, world
<1> QED
  BY <1>4, <1>5, <1>6, <1>7, ClientStep

\* The JSON report shows the run's warnings.
LEMMA RenderKeeps ==
    ASSUME CommandsInv, NEW c \in Clients, Render(c)
    PROVE  CommandsInv'
<1>1. CommandTypes /\ InspectBooks(c) /\ DiffBooks(c)
  BY DEF CommandsInv
<1>2. /\ pc[c] = "render" /\ pc' = [pc EXCEPT ![c] = "done"]
      /\ report' = [report EXCEPT ![c] =
                      [warnings |-> IF run[c].format = "json" THEN run[c].warnings ELSE {}]]
      /\ UNCHANGED <<storeVars, world, handle, run>>
  BY DEF Render, Goes
<1>3. CommandTypes'
  BY <1>1, <1>2 DEF CommandTypes, Places, world, storeVars
<1>4. Alone(c)
  BY <1>1, <1>2 DEF Alone, CommandTypes
<1>5. Grows /\ SharedBooks'
  BY <1>2, QuietWorld DEF storeVars
<1>6. InspectBooks(c)' /\ DiffBooks(c)'
  <2>1. pc'[c] = "done" /\ (run[c].format = "json" => report'[c].warnings = run[c].warnings)
    BY <1>1, <1>2 DEF CommandTypes
  <2>2. Told(c)'
    BY <1>1, <1>2 DEF InspectBooks, Told, SnapshotOf, storeVars
  <2> QED
    BY <1>1, <1>2, <2>1, <2>2 DEF InspectBooks, DiffBooks, world
<1> QED
  BY <1>3, <1>4, <1>5, <1>6, ClientStep

-----------------------------------------------------------------------------
(* diff *)

\* A diff starts from nothing.
LEMMA StartDiffKeeps ==
    ASSUME CommandsInv, NEW c \in Clients, NEW t \in Targets, StartDiff(c, t)
    PROVE  CommandsInv'
<1>1. CommandTypes /\ InspectBooks(c) /\ DiffBooks(c)
  BY DEF CommandsInv
<1>2. /\ run' = [run EXCEPT ![c] = [Fresh EXCEPT !.target = t]]
      /\ \/ pc' = [pc EXCEPT ![c] = "latest"] /\ handle' = [handle EXCEPT ![c] = "open"]
         \/ pc' = [pc EXCEPT ![c] = "failed"] /\ handle' = handle
      /\ UNCHANGED <<storeVars, world, report>>
  BY DEF StartDiff, Goes, Holds
<1>3. run'[c] \in Runs /\ run'[c].seen = 0 /\ run'[c].format = "text"
  <2>1. run'[c] = [target |-> t, format |-> "text", calls |-> 0, seen |-> 0, gaps |-> FALSE,
                   at |-> 0, warnings |-> {}, known |-> {}, current |-> Nothing]
    BY <1>1, <1>2 DEF CommandTypes, Fresh
  <2>2. 0 \in Times /\ 0 \in 0..MaxChanges
    BY CommandsAssumption
  <2> QED
    BY <2>1, <2>2 DEF Runs
<1>4. CommandTypes'
  BY <1>1, <1>2, <1>3 DEF CommandTypes, Places, world, storeVars
<1>5. Alone(c)
  BY <1>1, <1>2 DEF Alone, CommandTypes
<1>6. Grows /\ SharedBooks'
  BY <1>2, QuietWorld DEF storeVars
<1>7. InspectBooks(c)' /\ DiffBooks(c)'
  <2>1. pc'[c] \in {"latest", "failed"}
    BY <1>1, <1>2 DEF CommandTypes
  <2>2. 0 <= object'
    BY <1>4, CommandsAssumption DEF CommandTypes
  <2> QED
    BY <1>3, <2>1, <2>2 DEF InspectBooks, DiffBooks
<1> QED
  BY <1>4, <1>5, <1>6, <1>7, ClientStep

\* A query that found something found the newest snapshot of those asked for.
LEMMA AnswerFound ==
    ASSUME CommandTypes, NEW c \in Clients, NEW S \in SUBSET SnapshotSet,
           Answer(c, S) \/ Says(c, [op |-> "error"]), reply'[c].op = "found"
    PROVE  /\ reply'[c].snapshot \in S
           /\ \A r \in S : r.at <= reply'[c].snapshot.at
<1>1. reply = [d \in Clients |-> reply[d]]
  BY DEF CommandTypes
<1>2. CASE Says(c, [op |-> "error"])
  BY <1>1, <1>2 DEF Says
<1>3. CASE S = {} /\ Says(c, [op |-> "not found"])
  BY <1>1, <1>3 DEF Says
<1>4. CASE S # {} /\ Says(c, [op |-> "found", snapshot |-> Newest(S)])
  <2>1. reply'[c] = [op |-> "found", snapshot |-> Newest(S)]
    BY <1>1, <1>4 DEF Says
  <2>2. reply'[c].snapshot = Newest(S)
    BY <2>1
  <2> QED
    BY <1>4, <2>2, NewestIsNewest
<1> QED
  BY <1>2, <1>3, <1>4 DEF Answer

\* The first read: the latest snapshot of the target, with all that the
\* history has of it at this moment no later.
LEMMA DiffLatestKeeps ==
    ASSUME CommandsInv, NEW c \in Clients, DiffLatest(c)
    PROVE  CommandsInv'
<1> DEFINE S == {s \in saved : s.target = run[c].target}
<1>1. CommandTypes /\ InspectBooks(c) /\ DiffBooks(c) /\ run[c] \in Runs
  BY DEF CommandsInv, CommandTypes
<1>2. pc[c] = "latest" /\ UNCHANGED <<saved, world, handle, report>>
  BY DEF DiffLatest, Asks, Latest, FailOperation
<1>3. Answer(c, S) \/ Says(c, [op |-> "error"])
  BY DEF DiffLatest, Asks, Latest, FailOperation
<1>4. reply' = [d \in Clients |-> reply'[d]]
  BY <1>1, <1>3 DEF Answer, Says, CommandTypes
<1>5. Grows /\ SharedBooks'
  BY <1>2, QuietWorld
<1>6. S \in SUBSET SnapshotSet
  BY <1>1 DEF CommandTypes
<1>7. CASE reply'[c].op = "found"
  <2> DEFINE n == reply'[c].snapshot
  <2>1. n \in S /\ \A r \in S : r.at <= n.at
    BY <1>1, <1>6, <1>7, <1>3, AnswerFound
  <2>2. /\ run' = [run EXCEPT ![c].current = n, ![c].known = saved]
        /\ pc' = [pc EXCEPT ![c] = "previous"]
    BY <1>7 DEF DiffLatest, Goes
  <2>3. n \in saved /\ n.target = run[c].target /\ n \in SnapshotSet /\ saved \in SUBSET SnapshotSet
    BY <1>1, <2>1 DEF CommandTypes
  <2> HIDE DEF n
  <2>4. run' = [run EXCEPT ![c] = [run[c] EXCEPT !.current = n, !.known = saved]]
    BY <1>1, <2>2 DEF CommandTypes, Runs
  <2>5. /\ run'[c] \in Runs /\ run'[c].target = run[c].target /\ run'[c].format = run[c].format
        /\ run'[c].seen = run[c].seen /\ run'[c].current = n /\ run'[c].known = saved
    <3> DEFINE r == run[c]
    <3>1. run'[c] = [r EXCEPT !.current = n, !.known = saved]
      BY <1>1, <2>4 DEF CommandTypes
    <3>2. run'[c] = [target |-> r.target, format |-> r.format, calls |-> r.calls, seen |-> r.seen,
                     gaps |-> r.gaps, at |-> r.at, warnings |-> r.warnings, known |-> saved,
                     current |-> n]
      BY <1>1, <3>1 DEF Runs
    <3> QED
      BY <1>1, <2>3, <3>2 DEF Runs
  <2>6. CommandTypes'
    BY <1>1, <1>2, <1>4, <2>2, <2>4, <2>5 DEF CommandTypes, Places, world
  <2>7. Alone(c)
    BY <1>1, <1>2, <2>2, <2>4 DEF Alone, CommandTypes
  <2>8. pc'[c] = "previous"
    BY <1>1, <2>2 DEF CommandTypes
  <2>9. InspectBooks(c)'
    BY <1>1, <1>2, <2>5, <2>8 DEF InspectBooks, world
  <2>10. DiffBooks(c)'
    <3>1. run[c].format = "text"
      BY <1>1, <1>2 DEF DiffBooks
    <3>2. \A s \in saved : s.target = run[c].target => s.at <= n.at
      BY <2>1
    <3> QED
      BY <1>2, <2>3, <2>5, <2>8, <3>1, <3>2 DEF DiffBooks
  <2> QED
    BY <1>5, <2>6, <2>7, <2>9, <2>10, ClientStep
<1>8. CASE reply'[c].op # "found"
  <2>1. run' = run /\ pc' = [pc EXCEPT ![c] = "give up"]
    BY <1>8 DEF DiffLatest, Goes
  <2>2. CommandTypes'
    BY <1>1, <1>2, <1>4, <2>1 DEF CommandTypes, Places, world
  <2>3. Alone(c) /\ pc'[c] = "give up"
    BY <1>1, <1>2, <2>1 DEF Alone, CommandTypes
  <2>4. run[c].seen <= object /\ run[c].format = "text"
    BY <1>1, <1>2 DEF InspectBooks, DiffBooks
  <2>5. InspectBooks(c)'
    BY <1>2, <2>1, <2>3, <2>4 DEF InspectBooks, world
  <2>6. DiffBooks(c)'
    BY <1>2, <2>1, <2>3, <2>4 DEF DiffBooks
  <2> QED
    BY <1>5, <2>2, <2>3, <2>5, <2>6, ClientStep
<1> QED
  BY <1>7, <1>8

\* The second read: what was there at the first is there still, so that the
\* newest snapshot before the current one skips none of it.
LEMMA DiffPreviousKeeps ==
    ASSUME CommandsInv, NEW c \in Clients, DiffPrevious(c)
    PROVE  CommandsInv'
<1> DEFINE n == run[c].current
           S == {s \in saved : s.target = run[c].target /\ s.at < n.at}
<1>1. CommandTypes /\ InspectBooks(c) /\ DiffBooks(c) /\ run[c] \in Runs
  BY DEF CommandsInv, CommandTypes
<1>2. pc[c] = "previous" /\ UNCHANGED <<saved, world, handle, run>>
  BY DEF DiffPrevious, Asks, Previous, FailOperation
<1>3. Answer(c, S) \/ Says(c, [op |-> "error"])
  BY DEF DiffPrevious, Asks, Previous, FailOperation
<1>4. reply' = [d \in Clients |-> reply'[d]]
  BY <1>1, <1>3 DEF Answer, Says, CommandTypes
<1>5. Grows /\ SharedBooks'
  BY <1>2, QuietWorld
<1>6. S \in SUBSET SnapshotSet
  BY <1>1 DEF CommandTypes
<1>7. CASE reply'[c].op = "found"
  <2> DEFINE p == reply'[c].snapshot
  <2>1. p \in S /\ \A r \in S : r.at <= p.at
    BY <1>1, <1>6, <1>7, <1>3, AnswerFound
  <2>2. /\ report' = [report EXCEPT ![c] = [previous |-> p, current |-> n]]
        /\ pc' = [pc EXCEPT ![c] = "reported"]
    BY <1>7 DEF DiffPrevious, Goes
  <2>3. report'[c] = [previous |-> p, current |-> n] /\ pc'[c] = "reported"
    BY <1>1, <2>2 DEF CommandTypes
  <2>4. CommandTypes'
    BY <1>1, <1>2, <1>4, <2>2 DEF CommandTypes, Places, world
  <2>5. Alone(c)
    BY <1>1, <1>2, <2>2 DEF Alone, CommandTypes
  <2>6. /\ n \in saved /\ n.target = run[c].target /\ run[c].known \subseteq saved
        /\ \A s \in run[c].known : s.target = run[c].target => s.at <= n.at
        /\ run[c].format = "text"
    <3>1. DiffBooks(c) /\ pc[c] = "previous"
      BY <1>1, <1>2
    <3> QED
      BY <3>1 DEF DiffBooks
  <2>7. p \in saved /\ p.target = run[c].target /\ p.at < n.at
    BY <2>1
  <2>8. ASSUME NEW s \in run[c].known, s.target = p.target PROVE s.at <= p.at \/ s.at = n.at
    <3>1. s \in saved /\ s.at <= n.at /\ s.target = run[c].target
      BY <2>6, <2>7, <2>8
    <3>2. s.at \in Int /\ n.at \in Int
      <4>1. \A x \in SnapshotSet : x.at \in Int
        BY CommandsAssumption DEF SnapshotSet
      <4> QED
        BY <1>1, <2>6, <3>1, <4>1 DEF CommandTypes
    <3>3. s.at < n.at => s \in S
      BY <3>1
    <3> QED
      BY <2>1, <3>1, <3>2, <3>3
  <2>9. InspectBooks(c)'
    BY <1>1, <1>2, <2>3 DEF InspectBooks, world
  <2> HIDE DEF p, n
  <2>10. report'[c].previous = p /\ report'[c].current = n
    BY <2>3
  <2>11. DiffBooks(c)'
    BY <1>2, <2>3, <2>6, <2>7, <2>8, <2>10 DEF DiffBooks, n
  <2> QED
    BY <1>5, <2>4, <2>5, <2>9, <2>11, ClientStep
<1>8. CASE reply'[c].op # "found"
  <2>1. report' = report /\ pc' = [pc EXCEPT ![c] = "give up"]
    BY <1>8 DEF DiffPrevious, Goes
  <2>2. CommandTypes'
    BY <1>1, <1>2, <1>4, <2>1 DEF CommandTypes, Places, world
  <2>3. Alone(c) /\ pc'[c] = "give up"
    BY <1>1, <1>2, <2>1 DEF Alone, CommandTypes
  <2>4. run[c].seen <= object /\ run[c].format = "text"
    BY <1>1, <1>2 DEF InspectBooks, DiffBooks
  <2>5. InspectBooks(c)'
    BY <1>2, <2>1, <2>3, <2>4 DEF InspectBooks, world
  <2>6. DiffBooks(c)'
    BY <1>2, <2>1, <2>3, <2>4 DEF DiffBooks
  <2> QED
    BY <1>5, <2>2, <2>3, <2>5, <2>6, ClientStep
<1> QED
  BY <1>7, <1>8

\* A diff that has closed its history claims nothing any more.
LEMMA CloseAfterDiffKeeps ==
    ASSUME CommandsInv, NEW c \in Clients, CloseAfterDiff(c)
    PROVE  CommandsInv'
<1>1. CommandTypes /\ InspectBooks(c) /\ DiffBooks(c)
  BY DEF CommandsInv
<1>2. /\ pc[c] \in {"reported", "give up"}
      /\ pc' = [pc EXCEPT ![c] = "failed"] \/ pc' = [pc EXCEPT ![c] = "done"]
      /\ handle' = [handle EXCEPT ![c] = "closed"]
      /\ UNCHANGED <<storeVars, world, run, report>>
  BY DEF CloseAfterDiff, Goes, Holds
<1>3. CommandTypes'
  BY <1>1, <1>2 DEF CommandTypes, Places, world, storeVars
<1>4. Alone(c)
  BY <1>1, <1>2 DEF Alone, CommandTypes
<1>5. Grows /\ SharedBooks'
  BY <1>2, QuietWorld DEF storeVars
<1>6. InspectBooks(c)' /\ DiffBooks(c)'
  <2>1. pc'[c] \in {"failed", "done"} /\ run[c].format = "text"
    BY <1>1, <1>2 DEF CommandTypes, DiffBooks
  <2> QED
    BY <1>1, <1>2, <2>1 DEF InspectBooks, DiffBooks, world
<1> QED
  BY <1>3, <1>4, <1>5, <1>6, ClientStep

-----------------------------------------------------------------------------
(* both, and the world *)

\* A process that is gone leaves nothing behind but what it stored.
LEMMA ExitKeeps ==
    ASSUME CommandsInv, NEW c \in Clients, Exit(c)
    PROVE  CommandsInv'
<1>1. CommandTypes
  BY DEF CommandsInv
<1>2. /\ pc' = [pc EXCEPT ![c] = "idle"] /\ handle' = [handle EXCEPT ![c] = "none"]
      /\ run' = [run EXCEPT ![c] = Fresh] /\ report' = [report EXCEPT ![c] = Nothing]
      /\ UNCHANGED <<saved, world>>
  BY DEF Exit, Goes, Holds, Forget
<1>3. reply' = [d \in Clients |-> reply'[d]]
  BY <1>1 DEF Exit, Forget, Says, CommandTypes
<1>4. Fresh \in Runs /\ Fresh.seen = 0
  <2>1. 0 \in Times /\ 0 \in 0..MaxChanges
    BY CommandsAssumption
  <2> QED
    BY <2>1 DEF Fresh, Runs
<1>5. CommandTypes'
  BY <1>1, <1>2, <1>3, <1>4 DEF CommandTypes, Places, world
<1>6. Alone(c)
  BY <1>1, <1>2 DEF Alone, CommandTypes
<1>7. Grows /\ SharedBooks'
  BY <1>2, QuietWorld
<1>8. InspectBooks(c)' /\ DiffBooks(c)'
  <2>1. pc'[c] = "idle" /\ run'[c] = Fresh
    BY <1>1, <1>2 DEF CommandTypes
  <2>2. 0 <= object'
    BY <1>5, CommandsAssumption DEF CommandTypes
  <2> QED
    BY <1>4, <2>1, <2>2 DEF InspectBooks, DiffBooks
<1> QED
  BY <1>5, <1>6, <1>7, <1>8, ClientStep

\* A step of the world costs no client its books.
LEMMA WorldStep ==
    ASSUME CommandsInv, CommandTypes', Grows, SharedBooks', UNCHANGED <<pc, run, handle, report>>
    PROVE  CommandsInv'
<1>1. \A d \in Clients : InspectBooks(d)' /\ DiffBooks(d)'
  BY BooksStay
<1> QED
  BY <1>1 DEF CommandsInv

\* Time passing makes no date wrong.
LEMMA TickKeeps ==
    ASSUME CommandsInv, Tick
    PROVE  CommandsInv'
<1>1. CommandTypes /\ SharedBooks
  BY DEF CommandsInv
<1>2. /\ clock < MaxClock /\ clock' = clock + 1
      /\ UNCHANGED <<storeVars, high, object, changedAt, pc, handle, run, report>>
  BY DEF Tick
<1>3. clock \in Times /\ clock' \in Times /\ Times \subseteq Int
  BY <1>1, <1>2, CommandsAssumption DEF CommandTypes
<1>4. CommandTypes'
  BY <1>1, <1>2, <1>3 DEF CommandTypes, storeVars
<1>5. Grows
  BY <1>1, <1>2, CommandsAssumption DEF Grows, CommandTypes, storeVars
<1>6. SharedBooks'
  <2>1. Dated(object, clock)'
    <3> SUFFICES ASSUME NEW k \in 1..object
                 PROVE  changedAt[k] <= high \/ changedAt[k] <= clock'
      BY <1>2 DEF Dated
    <3>1. changedAt[k] \in Int
      <4>1. k \in 1..MaxChanges
        BY <1>1, CommandsAssumption DEF CommandTypes
      <4> QED
        BY <1>1, <1>3, <4>1 DEF CommandTypes
    <3>2. changedAt[k] <= high \/ changedAt[k] <= clock
      BY <1>1 DEF SharedBooks, Dated
    <3> QED
      BY <1>2, <1>3, <3>1, <3>2
  <2>2. \A s \in saved : \A i \in s.metrics : i <= object /\ Dated(i, s.at)
    BY <1>1 DEF SharedBooks
  <2> QED
    BY <1>2, <2>1, <2>2 DEF SharedBooks, Dated, storeVars
<1> QED
  BY <1>2, <1>4, <1>5, <1>6, WorldStep

\* A set-back is remembered: what was dated by the clock is dated by "high".
LEMMA SetBackKeeps ==
    ASSUME CommandsInv, SetBack
    PROVE  CommandsInv'
<1>1. CommandTypes /\ SharedBooks
  BY DEF CommandsInv
<1>2. PICK earlier \in 0..(clock - 1) : clock' = earlier
  BY DEF SetBack
<1>3. /\ high' = IF clock > high THEN clock ELSE high
      /\ UNCHANGED <<storeVars, object, changedAt, pc, handle, run, report>>
  BY DEF SetBack
<1>4. clock \in 0..MaxClock /\ MaxClock \in Nat /\ high \in Int
  BY <1>1, CommandsAssumption DEF CommandTypes
<1>5. clock' \in Times /\ high' \in Int /\ high <= high' /\ clock <= high'
  <2>1. clock' \in 0..MaxClock
    BY <1>2, <1>4
  <2> QED
    BY <1>3, <1>4, <2>1, CommandsAssumption
<1>6. CommandTypes'
  BY <1>1, <1>3, <1>5 DEF CommandTypes, storeVars
<1>7. Grows
  BY <1>1, <1>3, <1>5, CommandsAssumption DEF Grows, CommandTypes, storeVars
<1>8. SharedBooks'
  <2>1. Dated(object, clock)'
    <3> SUFFICES ASSUME NEW k \in 1..object
                 PROVE  changedAt[k] <= high'
      BY <1>3 DEF Dated
    <3>1. changedAt[k] \in Int
      <4>1. k \in 1..MaxChanges
        BY <1>1, CommandsAssumption DEF CommandTypes
      <4> QED
        BY <1>1, <4>1, CommandsAssumption DEF CommandTypes
    <3>2. changedAt[k] <= high \/ changedAt[k] <= clock
      BY <1>1 DEF SharedBooks, Dated
    <3> QED
      BY <1>4, <1>5, <3>1, <3>2
  <2>2. ASSUME NEW s \in saved, NEW i \in s.metrics PROVE i <= object /\ Dated(i, s.at)'
    <3>1. i \in Int /\ i <= object /\ Dated(i, s.at)
      <4>1. s.metrics \subseteq Metrics /\ Metrics \subseteq Int
        BY <1>1, CommandsAssumption DEF CommandTypes, SnapshotSet
      <4> QED
        BY <1>1, <4>1 DEF SharedBooks
    <3> QED
      BY <1>1, <1>6, <1>7, <3>1, StaysDated DEF Dated
  <2> QED
    BY <1>3, <2>1, <2>2 DEF SharedBooks, storeVars
<1> QED
  BY <1>3, <1>6, <1>7, <1>8, WorldStep

\* A change is dated by the clock, and no snapshot has seen it yet.
LEMMA ObjectChangesKeeps ==
    ASSUME CommandsInv, ObjectChanges
    PROVE  CommandsInv'
<1>1. CommandTypes /\ SharedBooks
  BY DEF CommandsInv
<1>2. /\ object < MaxChanges /\ object' = object + 1
      /\ changedAt' = [changedAt EXCEPT ![object + 1] = clock]
      /\ UNCHANGED <<storeVars, clock, high, pc, handle, run, report>>
  BY DEF ObjectChanges
<1>3. /\ object \in 0..MaxChanges /\ MaxChanges \in Nat /\ high \in Int /\ clock \in Times
      /\ Times \subseteq Int /\ changedAt \in [1..MaxChanges -> Times]
  BY <1>1, CommandsAssumption DEF CommandTypes
<1>4. changedAt' \in [1..MaxChanges -> Times] /\ object' \in 0..MaxChanges
  BY <1>2, <1>3
<1>5. CommandTypes'
  BY <1>1, <1>2, <1>4 DEF CommandTypes, storeVars
<1>6. \A k \in 1..object : changedAt'[k] = changedAt[k]
  <2> SUFFICES ASSUME NEW k \in 1..object PROVE changedAt'[k] = changedAt[k]
    OBVIOUS
  <2>1. k \in 1..MaxChanges /\ k # object + 1
    BY <1>3
  <2> QED
    BY <1>2, <1>3, <2>1
<1>7. Grows
  BY <1>2, <1>3, <1>6 DEF Grows, storeVars
<1>8. SharedBooks'
  <2>1. Dated(object, clock)'
    <3> SUFFICES ASSUME NEW k \in 1..(object + 1)
                 PROVE  changedAt'[k] <= high \/ changedAt'[k] <= clock
      BY <1>2 DEF Dated
    <3>1. CASE k = object + 1
      <4>1. changedAt'[k] = clock
        BY <1>2, <1>3, <3>1
      <4> QED
        BY <1>3, <4>1
    <3>2. CASE k # object + 1
      <4>1. k \in 1..object
        BY <1>3, <3>2
      <4>2. changedAt[k] <= high \/ changedAt[k] <= clock
        BY <1>1, <4>1 DEF SharedBooks, Dated
      <4> QED
        BY <1>6, <4>1, <4>2
    <3> QED
      BY <3>1, <3>2
  <2>2. ASSUME NEW s \in saved, NEW i \in s.metrics PROVE i <= object + 1 /\ Dated(i, s.at)'
    <3>1. i \in Int /\ i <= object /\ Dated(i, s.at)
      <4>1. s.metrics \subseteq Metrics /\ Metrics \subseteq Int
        BY <1>1, CommandsAssumption DEF CommandTypes, SnapshotSet
      <4> QED
        BY <1>1, <4>1 DEF SharedBooks
    <3>2. i <= object + 1
      BY <1>3, <3>1
    <3> QED
      BY <1>1, <1>5, <1>7, <3>1, <3>2, StaysDated DEF Dated
  <2> QED
    BY <1>2, <2>1, <2>2 DEF SharedBooks, storeVars
<1> QED
  BY <1>2, <1>5, <1>7, <1>8, WorldStep

-----------------------------------------------------------------------------
\* Every step keeps the invariant.
LEMMA CommandsKeep == CommandsInv /\ [CommandsNext]_commandVars => CommandsInv'
<1> SUFFICES ASSUME CommandsInv, [CommandsNext]_commandVars PROVE CommandsInv'
  OBVIOUS
<1>1. ASSUME NEW c \in Clients, Inspect(c) PROVE CommandsInv'
  BY <1>1, StartInspectKeeps, CollectKeeps, CollectFailsKeeps, StampReportKeeps, PersistKeeps,
     CloseAfterInspectKeeps, RenderKeeps DEF Inspect
<1>2. ASSUME NEW c \in Clients, Diff(c) PROVE CommandsInv'
  BY <1>2, StartDiffKeeps, DiffLatestKeeps, DiffPreviousKeeps, CloseAfterDiffKeeps DEF Diff
<1>3. CASE UNCHANGED commandVars
  <2>1. UNCHANGED <<saved, reply, clock, setBacks, high, object, changedAt, pc, handle, run, report>>
    BY <1>3 DEF commandVars, storeVars, world
  <2>2. Grows /\ SharedBooks'
    BY <2>1, QuietWorld DEF world
  <2>3. CommandTypes'
    BY <2>1 DEF CommandsInv, CommandTypes
  <2> QED
    BY <2>1, <2>2, <2>3, WorldStep
<1> QED
  BY <1>1, <1>2, <1>3, ExitKeeps, TickKeeps, SetBackKeeps, ObjectChangesKeeps DEF CommandsNext

-----------------------------------------------------------------------------
\* Inspectors and differs, their locals, the history and the dates agree with
\* each other at all times.
THEOREM CommandsBookkeeping == CommandsSpec => []CommandsInv
<1>1. CommandsInit => CommandsInv
  BY CommandsStart
<1>2. CommandsInv /\ [CommandsNext]_commandVars => CommandsInv'
  BY CommandsKeep
<1> QED
  BY <1>1, <1>2, PTL DEF CommandsSpec

\* An inspection that printed no warning has stored its complete evidence:
\* each way to lose it in persistHistory, or to have no history at all, adds
\* a warning before the report is rendered.
THEOREM SilentMeansStored == CommandsSpec => []StoredUnlessWarned
<1>1. CommandsInv => StoredUnlessWarned
  <2> SUFFICES ASSUME CommandsInv, NEW c \in Inspectors,
                      pc[c] = "done", run[c].format = "json", report[c].warnings = {}
               PROVE  SnapshotOf(c) \in saved /\ ~run[c].gaps
    BY DEF StoredUnlessWarned
  <2>1. InspectBooks(c)
    BY CommandsAssumption DEF CommandsInv
  <2> QED
    BY <2>1 DEF InspectBooks, Told
<1> QED
  BY <1>1, CommandsBookkeeping, PTL

\* diff compares two snapshots of the asked target and skips none that was
\* stored when it began, whatever is stored between its two queries.
THEOREM DiffIsOfNeighbours == CommandsSpec => []DiffSkipsNothing
<1>1. CommandsInv => DiffSkipsNothing
  <2> SUFFICES ASSUME CommandsInv, NEW c \in Clients, Reported(c)
               PROVE  LET p == report[c].previous
                          n == report[c].current
                      IN  /\ {p, n} \subseteq saved /\ p.at < n.at
                          /\ p.target = run[c].target /\ n.target = run[c].target
                          /\ \A s \in run[c].known : s.target = p.target => s.at <= p.at \/ s.at = n.at
    BY DEF DiffSkipsNothing
  <2>1. DiffBooks(c) /\ pc[c] = "reported"
    BY DEF CommandsInv, Reported
  <2> QED
    BY <2>1 DEF DiffBooks
<1> QED
  BY <1>1, CommandsBookkeeping, PTL

\* The upper end of the time range that diff prints with an event is right:
\* every change between the two states was over by the later time stamp, if
\* the clock has not been set back from a reading as late.
THEOREM ObservedBeforeIsRight == CommandsSpec => []ObservedBeforeHolds
<1>1. CommandsInv => ObservedBeforeHolds
  <2> SUFFICES ASSUME CommandsInv, NEW c \in Clients, Reported(c), AfterSetBacks(c),
                      NEW k \in ChangesBetween(report[c].previous, report[c].current)
               PROVE  changedAt[k] <= report[c].current.at
    BY DEF ObservedBeforeHolds
  <2> DEFINE p == report[c].previous
             n == report[c].current
  <2>1. p \in saved /\ n \in saved /\ p.at < n.at
    <3>1. DiffBooks(c) /\ pc[c] = "reported"
      BY DEF CommandsInv, Reported
    <3> QED
      BY <3>1 DEF DiffBooks
  <2>2. n.at > high
    BY DEF AfterSetBacks
  <2>3. PICK i \in p.metrics, j \in n.metrics : k \in (i + 1)..j \cup (j + 1)..i
    BY DEF ChangesBetween
  <2>4. k \in 1..MaxChanges
    BY CommandsAssumption DEF ChangesBetween
  <2> HIDE DEF p, n
  <2>5. p \in SnapshotSet /\ n \in SnapshotSet /\ CommandTypes /\ SharedBooks
    BY <2>1 DEF CommandsInv, CommandTypes
  <2>6. i \in Int /\ j \in Int /\ p.at \in Int /\ n.at \in Int /\ high \in Int /\ changedAt[k] \in Int
    BY <2>3, <2>4, <2>5, CommandsAssumption DEF SnapshotSet, CommandTypes
  <2>7. Dated(i, p.at) /\ Dated(j, n.at)
    BY <2>1, <2>3, <2>5 DEF SharedBooks
  <2>8. k \in 1..i \/ k \in 1..j
    BY <2>3, <2>4, <2>6
  <2>9. changedAt[k] <= high \/ changedAt[k] <= p.at \/ changedAt[k] <= n.at
    BY <2>7, <2>8 DEF Dated
  <2>10. changedAt[k] <= n.at
    BY <2>1, <2>2, <2>6, <2>9
  <2> QED
    BY <2>10 DEF n
<1> QED
  BY <1>1, CommandsBookkeeping, PTL

-----------------------------------------------------------------------------
(* one inspector *)

\* An empty history is in order.
LEMMA OrderStarts == CommandsInit => InOrder
  BY DEF CommandsInit, InOrder, HistoryInOrder, NextInOrder

\* Where nothing is stored, the order needs no more than that time passes or
\* is set back, and that the inspector stays where it is or is new.
LEMMA OrderStays ==
    ASSUME CommandsInv, CommandTypes', InOrder, saved' = saved, high <= high',
           clock' >= clock \/ clock <= high',
           \A d \in Clients : pc'[d] \in {"evaluate", "persist"} => NextInOrder(d)'
    PROVE  InOrder'
<1>1. high \in Int /\ high' \in Int /\ clock \in Int /\ clock' \in Int
  BY CommandsAssumption DEF CommandsInv, CommandTypes
<1>2. \A s \in saved : s.at \in Int
  BY CommandsAssumption DEF CommandsInv, CommandTypes, SnapshotSet
<1>3. \A s \in saved : s.at > high' => s.at > high
  BY <1>1, <1>2
<1>4. \A s \in saved : s.at > high' => s.at <= clock'
  BY <1>1, <1>2, <1>3 DEF InOrder, HistoryInOrder
<1>5. HistoryInOrder'
  BY <1>3, <1>4 DEF InOrder, HistoryInOrder
<1>6. \A d \in Clients : NextInOrder(d)'
  BY DEF NextInOrder
<1> QED
  BY <1>5, <1>6 DEF InOrder

\* A client that stays where it is keeps its place in the order.
LEMMA PlaceStays ==
    ASSUME CommandsInv, CommandTypes', InOrder, saved' = saved, high <= high',
           clock' >= clock \/ clock <= high',
           NEW d \in Clients, pc'[d] = pc[d], run'[d] = run[d]
    PROVE  NextInOrder(d)'
<1>1. high \in Int /\ high' \in Int /\ clock \in Int /\ clock' \in Int
  BY CommandsAssumption DEF CommandsInv, CommandTypes
<1>2. \A s \in saved : s.at \in Int
  BY CommandsAssumption DEF CommandsInv, CommandTypes, SnapshotSet
<1>3. run[d].at \in Int
  <2>1. run[d] \in Runs
    BY DEF CommandsInv, CommandTypes
  <2> QED
    BY <2>1, CommandsAssumption DEF Runs
<1>4. \A s \in saved : s.at > high' => s.at > high
  BY <1>1, <1>2
<1>5. NextInOrder(d)
  BY DEF InOrder
<1>6. run[d].at > high' /\ pc[d] = "persist" => run[d].at <= clock'
  BY <1>1, <1>3, <1>5 DEF NextInOrder
<1> QED
  BY <1>4, <1>5, <1>6 DEF NextInOrder

\* The collectors see no less than any snapshot shows.
LEMMA CollectsInOrder ==
    ASSUME CommandsInv, CommandsInv', InOrder, NEW c \in Clients, Collect(c)
    PROVE  InOrder'
<1>1. CommandTypes /\ CommandTypes' /\ SharedBooks /\ run[c] \in Runs
  BY DEF CommandsInv, CommandTypes
<1>2. PICK gaps \in BOOLEAN :
        run' = [run EXCEPT ![c].calls = @ + 1, ![c].seen = object, ![c].gaps = gaps]
  BY DEF Collect
<1>3. run' = [run EXCEPT ![c] = [run[c] EXCEPT !.calls = @ + 1, !.seen = object, !.gaps = gaps]]
  BY <1>1, <1>2 DEF CommandTypes, Runs
<1>4. /\ pc' = [pc EXCEPT ![c] = "evaluate"] /\ UNCHANGED <<saved, world>>
  BY DEF Collect, Goes, storeVars
<1>5. run'[c].seen = object /\ pc'[c] = "evaluate"
  BY <1>1, <1>3, <1>4 DEF CommandTypes, Runs
<1>6. high <= high' /\ clock' >= clock /\ saved' = saved
  BY <1>1, <1>4, CommandsAssumption DEF world, CommandTypes
<1>7. NextInOrder(c)'
  BY <1>1, <1>4, <1>5 DEF NextInOrder, SharedBooks
<1>8. ASSUME NEW d \in Clients PROVE NextInOrder(d)'
  <2>1. CASE d = c
    BY <1>7, <2>1
  <2>2. CASE d # c
    <3>1. pc'[d] = pc[d] /\ run'[d] = run[d]
      BY <1>1, <1>3, <1>4, <2>2 DEF CommandTypes
    <3> QED
      BY <1>1, <1>6, <3>1, PlaceStays
  <2> QED
    BY <2>1, <2>2
<1> QED
  BY <1>1, <1>6, <1>8, OrderStays

\* The stamp is no earlier than any other that the clock was not set back
\* before.
LEMMA StampsInOrder ==
    ASSUME CommandsInv, CommandsInv', InOrder, NEW c \in Clients, StampReport(c)
    PROVE  InOrder'
<1>1. CommandTypes /\ CommandTypes' /\ run[c] \in Runs
  BY DEF CommandsInv, CommandTypes
<1>2. run' = [run EXCEPT ![c] = [run[c] EXCEPT !.at = clock]]
  BY <1>1 DEF StampReport, CommandTypes, Runs
<1>3. /\ pc[c] = "evaluate" /\ UNCHANGED <<saved, world>>
      /\ pc' = [pc EXCEPT ![c] = IF handle[c] = "open" THEN "persist" ELSE "render"]
  BY DEF StampReport, Goes, storeVars
<1>4. run'[c].seen = run[c].seen /\ run'[c].at = clock
  BY <1>1, <1>2 DEF CommandTypes, Runs
<1>5. high <= high' /\ clock' >= clock /\ saved' = saved /\ clock \in Int
  BY <1>1, <1>3, CommandsAssumption DEF world, CommandTypes
<1>6. NextInOrder(c)'
  <2>1. NextInOrder(c) /\ HistoryInOrder
    BY DEF InOrder
  <2>2. /\ \A s \in saved : \A i \in s.metrics : i <= run[c].seen
        /\ \A s \in saved : s.at > high => s.at <= clock
    BY <1>3, <2>1 DEF NextInOrder, HistoryInOrder
  <2> QED
    BY <1>3, <1>4, <1>5, <2>2 DEF NextInOrder, world
<1>7. ASSUME NEW d \in Clients PROVE NextInOrder(d)'
  <2>1. CASE d = c
    BY <1>6, <2>1
  <2>2. CASE d # c
    <3>1. pc'[d] = pc[d] /\ run'[d] = run[d]
      BY <1>1, <1>2, <1>3, <2>2 DEF CommandTypes
    <3> QED
      BY <1>1, <1>5, <3>1, PlaceStays
  <2> QED
    BY <2>1, <2>2
<1> QED
  BY <1>1, <1>5, <1>7, OrderStays

\* What the only inspector stores is the end of the order.
LEMMA PersistsInOrder ==
    ASSUME OneInspector, CommandsInv, CommandsInv', InOrder, NEW c \in Clients, Persist(c)
    PROVE  InOrder'
<1> DEFINE n == SnapshotOf(c)
<1>1. CommandTypes /\ CommandTypes' /\ run[c] \in Runs /\ InspectBooks(c)
  BY DEF CommandsInv, CommandTypes
<1>2. /\ pc[c] = "persist" /\ pc' = [pc EXCEPT ![c] = "close"] /\ UNCHANGED world
  BY DEF Persist, Goes
<1>3. saved' = saved \/ saved' = saved \cup {n}
  BY <1>1, PersistOutcome
<1>4. n.at = run[c].at /\ n.metrics = {run[c].seen}
  BY DEF SnapshotOf
<1>5. /\ \A s \in saved : \A i \in s.metrics : i <= run[c].seen
      /\ run[c].at > high => run[c].at <= clock
      /\ \A s \in saved : s.at > high => s.at <= run[c].at
  BY <1>2 DEF InOrder, NextInOrder
<1>6. c \in Inspectors /\ pc'[c] = "close"
  BY <1>1, <1>2 DEF InspectBooks, CommandTypes
<1>7. ASSUME NEW d \in Clients PROVE pc'[d] \notin {"evaluate", "persist"}
  <2>1. CASE d = c
    BY <1>6, <2>1
  <2>2. CASE d # c
    <3>1. d \notin Inspectors
      BY <1>6, <2>2 DEF OneInspector
    <3>2. InspectBooks(d)
      BY DEF CommandsInv
    <3>3. pc'[d] = pc[d]
      BY <1>1, <1>2, <2>2 DEF CommandTypes
    <3> QED
      BY <3>1, <3>2, <3>3 DEF InspectBooks
  <2> QED
    BY <2>1, <2>2
<1>8. HistoryInOrder'
  <2> HIDE DEF n
  <2>1. \A s \in saved' : s.at \in Int
    BY <1>1, CommandsAssumption DEF CommandTypes, SnapshotSet
  <2>2. run[c].seen \in Int /\ run[c].at \in Int
    BY <1>1, CommandsAssumption DEF Runs
  <2>3. HistoryInOrder
    BY DEF InOrder
  <2>4. \A s \in saved' : s.at > high => s.at <= clock
    BY <1>3, <1>4, <1>5, <2>3 DEF HistoryInOrder
  <2>5. ASSUME NEW r \in saved', NEW s \in saved', s.at > high, r.at < s.at,
               NEW i \in r.metrics, NEW j \in s.metrics
        PROVE  i <= j
    <3>1. CASE r \in saved /\ s \in saved
      BY <2>3, <2>5, <3>1 DEF HistoryInOrder
    <3>2. CASE r \in saved /\ s = n
      BY <1>4, <1>5, <2>5, <3>2
    <3>3. CASE r = n /\ s \in saved
      BY <1>4, <1>5, <2>1, <2>2, <2>5, <3>3
    <3>4. CASE r = n /\ s = n
      BY <2>1, <2>5, <3>4
    <3> QED
      BY <1>3, <3>1, <3>2, <3>3, <3>4
  <2> QED
    BY <1>2, <2>4, <2>5 DEF HistoryInOrder, world
<1> QED
  BY <1>7, <1>8 DEF InOrder, NextInOrder

\* No other step of a client stores, or takes an inspector that far.
LEMMA OthersKeepTheOrder ==
    ASSUME CommandsInv, CommandsInv', InOrder, NEW c \in Clients, saved' = saved, UNCHANGED world,
           NEW place, place \notin {"evaluate", "persist"}, pc' = [pc EXCEPT ![c] = place],
           \A d \in Clients \ {c} : run'[d] = run[d]
    PROVE  InOrder'
<1>1. CommandTypes /\ CommandTypes'
  BY DEF CommandsInv
<1>2. high <= high' /\ clock' >= clock
  BY <1>1, CommandsAssumption DEF world, CommandTypes
<1>3. ASSUME NEW d \in Clients, pc'[d] \in {"evaluate", "persist"} PROVE NextInOrder(d)'
  <2>1. d # c /\ pc'[d] = pc[d]
    BY <1>1, <1>3 DEF CommandTypes
  <2> QED
    BY <1>1, <1>2, <2>1, PlaceStays
<1> QED
  BY <1>1, <1>2, <1>3, OrderStays

\* Each step of a client keeps the order.
LEMMA ClientsKeepTheOrder ==
    ASSUME OneInspector, CommandsInv, CommandsInv', InOrder, NEW c \in Clients,
           Inspect(c) \/ Diff(c) \/ Exit(c)
    PROVE  InOrder'
<1>1. CommandTypes
  BY DEF CommandsInv
<1>2. ASSUME NEW t \in Targets, NEW format \in Formats, StartInspect(c, t, format) PROVE InOrder'
  BY <1>1, <1>2, OthersKeepTheOrder DEF StartInspect, Goes, storeVars, CommandTypes
<1>3. CASE CollectFails(c)
  BY <1>1, <1>3, OthersKeepTheOrder DEF CollectFails, Goes, storeVars, CommandTypes
<1>4. CASE CloseAfterInspect(c)
  BY <1>1, <1>4, OthersKeepTheOrder DEF CloseAfterInspect, Goes, Warn, storeVars, CommandTypes
<1>5. CASE Render(c)
  BY <1>1, <1>5, OthersKeepTheOrder DEF Render, Goes, storeVars, CommandTypes
<1>6. ASSUME NEW t \in Targets, StartDiff(c, t) PROVE InOrder'
  BY <1>1, <1>6, OthersKeepTheOrder DEF StartDiff, Goes, storeVars, CommandTypes
<1>7. CASE DiffLatest(c)
  BY <1>1, <1>7, OthersKeepTheOrder DEF DiffLatest, Asks, Latest, FailOperation, Goes, CommandTypes
<1>8. CASE DiffPrevious(c)
  BY <1>1, <1>8, OthersKeepTheOrder DEF DiffPrevious, Asks, Previous, FailOperation, Goes
<1>9. CASE CloseAfterDiff(c)
  BY <1>1, <1>9, OthersKeepTheOrder DEF CloseAfterDiff, Goes, storeVars
<1>10. CASE Exit(c)
  BY <1>1, <1>10, OthersKeepTheOrder DEF Exit, Goes, Forget, CommandTypes
<1> QED
  BY <1>2, <1>3, <1>4, <1>5, <1>6, <1>7, <1>8, <1>9, <1>10,
     CollectsInOrder, StampsInOrder, PersistsInOrder DEF Inspect, Diff

\* A set-back exempts what it overtakes; time and change exempt nothing.
LEMMA WorldKeepsTheOrder ==
    ASSUME CommandsInv, CommandsInv', InOrder,
           Tick \/ SetBack \/ ObjectChanges \/ UNCHANGED commandVars
    PROVE  InOrder'
<1>1. CommandTypes /\ CommandTypes'
  BY DEF CommandsInv
<1>2. clock \in Int /\ high \in Int
  BY <1>1, CommandsAssumption DEF CommandTypes
<1>3. saved' = saved /\ pc' = pc /\ run' = run
  BY DEF Tick, SetBack, ObjectChanges, commandVars, storeVars
<1>4. high <= high' /\ (clock' >= clock \/ clock <= high')
  BY <1>2 DEF Tick, SetBack, ObjectChanges, commandVars, world
<1>5. \A d \in Clients : NextInOrder(d)'
  BY <1>1, <1>3, <1>4, PlaceStays
<1> QED
  BY <1>1, <1>3, <1>4, <1>5, OrderStays

\* With one inspector at a time, a diff shows the object as it went: what the
\* current snapshot saw is no older than what the previous one saw, unless the
\* clock was set back from a reading as late as the current stamp.
THEOREM DiffFollowsTheObject ==
    ASSUME OneInspector
    PROVE  CommandsSpec => []DiffFollowsTime
<1>1. CommandsInit => InOrder
  BY OrderStarts
<1>2. CommandsInv /\ CommandsInv' /\ InOrder /\ [CommandsNext]_commandVars => InOrder'
  BY ClientsKeepTheOrder, WorldKeepsTheOrder DEF CommandsNext
<1>3. CommandsInv /\ InOrder => DiffFollowsTime
  <2> SUFFICES ASSUME CommandsInv, InOrder, NEW c \in Clients, Reported(c), AfterSetBacks(c),
                      NEW i \in report[c].previous.metrics, NEW j \in report[c].current.metrics
               PROVE  i <= j
    BY DEF DiffFollowsTime
  <2>1. DiffBooks(c) /\ pc[c] = "reported"
    BY DEF CommandsInv, Reported
  <2>2. /\ report[c].previous \in saved /\ report[c].current \in saved
        /\ report[c].previous.at < report[c].current.at
    BY <2>1 DEF DiffBooks
  <2> QED
    BY <2>2 DEF InOrder, HistoryInOrder, AfterSetBacks
<1> QED
  BY <1>1, <1>2, <1>3, CommandsBookkeeping, PTL DEF CommandsSpec
=============================================================================
