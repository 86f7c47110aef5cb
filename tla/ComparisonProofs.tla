-------------------------- MODULE ComparisonProofs --------------------------
(***************************************************************************)
(* Theorems about what is compared.  About Comparison, for every content   *)
(* of the inspected target: diffs are patches, longer diffs agree with     *)
(* shorter ones, regressions are of latency, and the same two snapshots    *)
(* give the same report.  About SchemaFingerprint, by which two snapshots  *)
(* compare schemas, for every catalog and course of DDL: equal prints are  *)
(* of equal rows, and the limits are kept by the whole.                    *)
(***************************************************************************)
EXTENDS Comparison, SchemaFingerprint, FiniteSetTheorems, SequenceTheorems, TLAPS

-----------------------------------------------------------------------------
(* The inductive invariant *)

Stored == {Snapshot(o, d) : o \in Seq(Observations), d \in Seq(Deltas)}

\* What a report says is what the two snapshots it is about give.
ReportIsOf(r, before, now) ==
    LET regressions == Regressions(before.deltas, now.deltas)
    IN  /\ r = [current |-> r.current, changes |-> r.changes,
                regressions |-> r.regressions, events |-> r.events]
        /\ r.changes = Compare(before.observations, now.observations)
        /\ r.regressions \in SlowestFirst(regressions)
        /\ r.events \in InOrder(Events(r.changes, regressions))

ComparisonInv ==
    /\ database \in DOMAIN Databases
    /\ history \in Seq(Stored)
    /\ report # None =>
          /\ report.current \in 2..Len(history)
          /\ ReportIsOf(report, history[report.current - 1], history[report.current])

\* The history grows at its end only, so a report stays true.
LEMMA SaveKeeps ==
    ASSUME ComparisonInv, NEW o \in Databases[database].observations,
           NEW d \in Databases[database].deltas, Save(o, d)
    PROVE  ComparisonInv'
<1>1. Snapshot(o, d) \in Stored
  BY ComparisonAssumption DEF ComparisonInv, Stored
<1>2. history' = Append(history, Snapshot(o, d)) /\ database' = database /\ report' = report
  BY DEF Save
<1>3. history' \in Seq(Stored) /\ Len(history') = Len(history) + 1 /\ Len(history) \in Nat
      /\ \A i \in 1..Len(history) : history'[i] = history[i]
  BY <1>1, <1>2 DEF ComparisonInv
<1>4. ASSUME report # None
      PROVE  /\ report.current \in 2..Len(history')
             /\ ReportIsOf(report, history'[report.current - 1], history'[report.current])
  <2>1. report.current \in 2..Len(history)
        /\ ReportIsOf(report, history[report.current - 1], history[report.current])
    BY <1>4 DEF ComparisonInv
  <2>2. history'[report.current - 1] = history[report.current - 1]
        /\ history'[report.current] = history[report.current]
    BY <1>3, <2>1
  <2> QED
    BY <1>3, <2>1, <2>2
<1> QED
  BY <1>2, <1>3, <1>4 DEF ComparisonInv

\* A diff reports about the two latest snapshots.
LEMMA RunDiffReports ==
    ASSUME RunDiff
    PROVE  /\ Len(history) >= 2
           /\ report'.current = Len(history)
           /\ ReportIsOf(report', history[Len(history) - 1], history[Len(history)])
           /\ UNCHANGED <<database, history>>
<1> DEFINE p == history[Len(history) - 1]
           c == history[Len(history)]
           regressions == Regressions(p.deltas, c.deltas)
           changes == Compare(p.observations, c.observations)
<1>1. Len(history) >= 2 /\ UNCHANGED <<database, history>>
  BY DEF RunDiff
<1>2. PICK slow \in SlowestFirst(regressions), told \in InOrder(Events(changes, regressions)) :
        report' = [current |-> Len(history), changes |-> changes,
                   regressions |-> slow, events |-> told]
  BY DEF RunDiff
<1> HIDE DEF regressions, changes
<1>3. /\ report'.current = Len(history) /\ report'.changes = changes
      /\ report'.regressions = slow /\ report'.events = told
  BY <1>2
<1>4. report' = [current |-> report'.current, changes |-> report'.changes,
                 regressions |-> report'.regressions, events |-> report'.events]
  BY <1>2, <1>3
<1>5. ReportIsOf(report', p, c)
  BY <1>2, <1>3, <1>4 DEF ReportIsOf, regressions, changes
<1> QED
  BY <1>1, <1>3, <1>5

\* Such a report is true of the history.
LEMMA RunDiffKeeps ==
    ASSUME ComparisonInv, RunDiff
    PROVE  ComparisonInv'
<1>1. Len(history) \in Nat
  BY DEF ComparisonInv
<1>2. Len(history) \in 2..Len(history)
  BY <1>1, RunDiffReports
<1> QED
  BY <1>2, RunDiffReports DEF ComparisonInv

\* The invariant of a history and the last report about it.
THEOREM ReportsAreOfTheHistory == ComparisonSpec => []ComparisonInv
<1>1. ComparisonInit => ComparisonInv
  BY DEF ComparisonInit, ComparisonInv
<1>2. ComparisonInv /\ [ComparisonNext]_comparisonVars => ComparisonInv'
  <2> SUFFICES ASSUME ComparisonInv, [ComparisonNext]_comparisonVars PROVE ComparisonInv'
    OBVIOUS
  <2>1. CASE UNCHANGED comparisonVars
    BY <2>1 DEF comparisonVars, ComparisonInv
  <2>2. CASE ComparisonNext
    BY <2>2, SaveKeeps, RunDiffKeeps DEF ComparisonNext
  <2> QED
    BY <2>1, <2>2
<1> QED
  BY <1>1, <1>2, PTL DEF ComparisonSpec

-----------------------------------------------------------------------------
(* Lists and the last of some of their places *)

\* The least-number principle, without an operator for the property: the
\* library's well-foundedness of < says it of sets.
LEMMA LeastOf ==
    ASSUME NEW S \in SUBSET Nat, S # {}
    PROVE  \E m \in S : \A n \in S : m <= n
<1> DEFINE R == OpToRel(<, Nat)
<1>1. IsWellFoundedOn(R, Nat)
  BY NatLessThanWellFounded
<1>2. \A x, y \in Nat : x < y => <<x, y>> \in R
  BY DEF OpToRel
<1> HIDE DEF R
<1>3. PICK m \in S : \A n \in S : ~(<<n, m>> \in R)
  BY <1>1, WFMin
<1>4. \A n \in S : ~(n < m)
  BY <1>2, <1>3
<1> QED
  BY <1>3, <1>4

\* The last of some places is one of them.
LEMMA LastPlace ==
    ASSUME NEW n \in Nat, NEW S \in SUBSET (1..n), S # {}
    PROVE  Max(S) \in S
<1> DEFINE fromEnd == {n - i : i \in S}
<1>1. fromEnd \subseteq Nat /\ fromEnd # {}
  <2>1. \A i \in S : i \in Int /\ n - i \in Nat
    OBVIOUS
  <2> QED
    BY <2>1
<1> HIDE DEF fromEnd
<1>2. PICK m \in fromEnd : \A k \in fromEnd : m <= k
  BY <1>1, LeastOf
<1>3. PICK i \in S : m = n - i
  BY <1>2 DEF fromEnd
<1>4. ASSUME NEW k \in S PROVE i >= k
  <2>1. n - i <= n - k
    BY <1>2, <1>3 DEF fromEnd
  <2> QED
    BY <1>3, <2>1
<1>5. \E x \in S : \A y \in S : x >= y
  BY <1>3, <1>4
<1> QED
  BY <1>5 DEF Max

\* What a stored snapshot holds: observations at some of the places of the
\* report's list, and the report's deltas.
LEMMA StoredTypes ==
    ASSUME NEW s \in Stored
    PROVE  /\ \E n \in Nat : DOMAIN s.observations \subseteq 1..n
           /\ \A i \in DOMAIN s.observations : s.observations[i] \in Observations
           /\ s.deltas \in Seq(Deltas)
<1>1. PICK o \in Seq(Observations), d \in Seq(Deltas) : s = Snapshot(o, d)
  BY DEF Stored
<1>2. s.observations = [i \in Kept(o) |-> o[i]] /\ s.deltas = d
  BY <1>1 DEF Snapshot
<1>3. DOMAIN o = 1..Len(o) /\ Len(o) \in Nat /\ \A i \in 1..Len(o) : o[i] \in Observations
  OBVIOUS
<1>4. Kept(o) \subseteq 1..Len(o)
  BY <1>3 DEF Kept
<1> QED
  BY <1>2, <1>3, <1>4

\* The observation that is compared is one of its identity.
LEMMA ObservedIsOf ==
    ASSUME NEW s \in Stored, NEW id \in Identities(s.observations)
    PROVE  /\ Observed(s.observations, id) \in Observations
           /\ Observed(s.observations, id).id = id
           /\ Observed(s.observations, id) # None
<1> DEFINE list == s.observations
           S == Places(list, id)
<1>1. PICK n \in Nat : DOMAIN list \subseteq 1..n
  BY StoredTypes
<1>2. S # {} /\ S \subseteq 1..n
  BY <1>1 DEF Identities, Places
<1>3. Max(S) \in S
  BY <1>2, LastPlace
<1>4. Max(S) \in DOMAIN list /\ list[Max(S)].id = id
  BY <1>3 DEF Places
<1>5. list[Max(S)] \in Observations
  BY <1>4, StoredTypes
<1> QED
  BY <1>4, <1>5, ComparisonAssumption DEF Observed

-----------------------------------------------------------------------------
(* A diff is a patch *)

\* The three kinds of change, and what each says.
LEMMA ChangeKinds ==
    ASSUME NEW p, NEW c, NEW d \in Compare(p, c)
    PROVE  /\ d.id \in (Identities(p) \cup Identities(c)) \ Skipped(p, c)
           /\ \/ /\ d.id \notin Identities(p)
                 /\ d = Added(d.id, Observed(c, d.id))
                 /\ d.before = None /\ d.after = Observed(c, d.id)
              \/ /\ d.id \notin Identities(c)
                 /\ d = Removed(d.id, Observed(p, d.id))
                 /\ d.before = Observed(p, d.id) /\ d.after = None
              \/ /\ d.id \in Identities(p) \cap Identities(c)
                 /\ Observed(p, d.id) # Observed(c, d.id)
                 /\ d = Changed(d.id, Observed(p, d.id), Observed(c, d.id))
                 /\ d.before = Observed(p, d.id) /\ d.after = Observed(c, d.id)
<1> DEFINE had == Identities(p)
           has == Identities(c)
           skip == Skipped(p, c)
           both == {id \in (had \cap has) \ skip : Observed(p, id) # Observed(c, id)}
<1> HIDE DEF had, has, skip, both
<1>1. \/ \E id \in (has \ had) \ skip : d = Added(id, Observed(c, id))
      \/ \E id \in (had \ has) \ skip : d = Removed(id, Observed(p, id))
      \/ \E id \in both : d = Changed(id, Observed(p, id), Observed(c, id))
  BY DEF Compare, had, has, skip, both
<1>2. CASE \E id \in (has \ had) \ skip : d = Added(id, Observed(c, id))
  <2>1. PICK id \in (has \ had) \ skip : d = Added(id, Observed(c, id))
    BY <1>2
  <2>2. d.id = id /\ d.before = None /\ d.after = Observed(c, id)
    BY <2>1 DEF Added
  <2> QED
    BY <2>1, <2>2 DEF had, has, skip
<1>3. CASE \E id \in (had \ has) \ skip : d = Removed(id, Observed(p, id))
  <2>1. PICK id \in (had \ has) \ skip : d = Removed(id, Observed(p, id))
    BY <1>3
  <2>2. d.id = id /\ d.after = None /\ d.before = Observed(p, id)
    BY <2>1 DEF Removed
  <2> QED
    BY <2>1, <2>2 DEF had, has, skip
<1>4. CASE \E id \in both : d = Changed(id, Observed(p, id), Observed(c, id))
  <2>1. PICK id \in both : d = Changed(id, Observed(p, id), Observed(c, id))
    BY <1>4
  <2>2. d.id = id /\ d.before = Observed(p, id) /\ d.after = Observed(c, id)
    BY <2>1 DEF Changed
  <2> QED
    BY <2>1, <2>2 DEF had, has, skip, both
<1> QED
  BY <1>1, <1>2, <1>3, <1>4

\* What changed without ambiguity is in the diff.
LEMMA ChangesAreSeen ==
    ASSUME NEW p, NEW c,
           NEW id \in (Identities(p) \cup Identities(c)) \ Skipped(p, c)
    PROVE  /\ id \notin Identities(p) => Added(id, Observed(c, id)) \in Compare(p, c)
           /\ id \notin Identities(c) => Removed(id, Observed(p, id)) \in Compare(p, c)
           /\ id \in Identities(p) \cap Identities(c) /\ Observed(p, id) # Observed(c, id) =>
                  Changed(id, Observed(p, id), Observed(c, id)) \in Compare(p, c)
<1> DEFINE had == Identities(p)
           has == Identities(c)
           skip == Skipped(p, c)
           both == {i \in (had \cap has) \ skip : Observed(p, i) # Observed(c, i)}
           appeared == {Added(i, Observed(c, i)) : i \in (has \ had) \ skip}
           disappeared == {Removed(i, Observed(p, i)) : i \in (had \ has) \ skip}
           changed == {Changed(i, Observed(p, i), Observed(c, i)) : i \in both}
<1>1. Compare(p, c) = appeared \cup disappeared \cup changed
  BY DEF Compare
<1>2. id \notin had => Added(id, Observed(c, id)) \in appeared
  OBVIOUS
<1>3. id \notin has => Removed(id, Observed(p, id)) \in disappeared
  OBVIOUS
<1>4. id \in had \cap has /\ Observed(p, id) # Observed(c, id) =>
          Changed(id, Observed(p, id), Observed(c, id)) \in changed
  OBVIOUS
<1> QED
  BY <1>1, <1>2, <1>3, <1>4

\* What DiffIsAPatch says of the changes from p to c.
IsPatch(p, c, changes) ==
    LET clear == (Identities(p) \cup Identities(c)) \ (Ambiguous(p) \cup Ambiguous(c))
    IN  /\ Evidence(c, clear) =
             (Evidence(p, clear) \ {d.before : d \in changes})
                \cup ({d.after : d \in changes} \ {None})
        /\ \A d \in changes : d.id \in clear /\ d.before # d.after
        /\ \A d, e \in changes : d.id = e.id => d = e

\* The diff of two stored snapshots leads from the first to the second.
LEMMA CompareIsAPatch ==
    ASSUME NEW s \in Stored, NEW t \in Stored
    PROVE  IsPatch(s.observations, t.observations,
                   Compare(s.observations, t.observations))
<1> DEFINE p == s.observations
           c == t.observations
           changes == Compare(p, c)
           clear == (Identities(p) \cup Identities(c)) \ (Ambiguous(p) \cup Ambiguous(c))
           befores == {d.before : d \in changes}
           afters == {d.after : d \in changes}
<1>1. clear = (Identities(p) \cup Identities(c)) \ Skipped(p, c)
  BY DEF Skipped
<1>2. /\ \A id \in Identities(p) : Observed(p, id).id = id /\ Observed(p, id) # None
      /\ \A id \in Identities(c) : Observed(c, id).id = id /\ Observed(c, id) # None
  BY ObservedIsOf
<1> HIDE DEF p, c, changes, clear
<1>3. ASSUME NEW x \in Evidence(c, clear)
      PROVE  x \in (Evidence(p, clear) \ befores) \cup (afters \ {None})
  <2>1. PICK id \in Identities(c) \cap clear : x = Observed(c, id)
    BY DEF Evidence
  <2>2. CASE id \notin Identities(p)
    <3>1. Added(id, x) \in changes
      BY <1>1, <2>1, <2>2, ChangesAreSeen DEF changes
    <3>2. Added(id, x).after = x
      BY DEF Added
    <3> QED
      BY <1>2, <2>1, <3>1, <3>2
  <2>3. CASE id \in Identities(p) /\ Observed(p, id) # x
    <3>1. Changed(id, Observed(p, id), x) \in changes
      BY <1>1, <2>1, <2>3, ChangesAreSeen DEF changes
    <3>2. Changed(id, Observed(p, id), x).after = x
      BY DEF Changed
    <3> QED
      BY <1>2, <2>1, <3>1, <3>2
  <2>4. CASE id \in Identities(p) /\ Observed(p, id) = x
    <3>1. x \in Evidence(p, clear)
      BY <2>1, <2>4 DEF Evidence
    <3>2. ASSUME NEW d \in changes, d.before = x PROVE FALSE
      <4>1. x.id = id /\ x # None
        BY <1>2, <2>1
      <4>2. \/ d.id \notin Identities(c) /\ d.before = Observed(p, d.id)
               /\ d.id \in Identities(p)
            \/ /\ d.id \in Identities(p) /\ Observed(p, d.id) # Observed(c, d.id)
               /\ d.before = Observed(p, d.id)
        BY <3>2, <4>1, <1>1, ChangeKinds DEF changes, clear
      <4>3. d.id = id
        BY <3>2, <4>1, <4>2, <1>2
      <4> QED
        BY <2>1, <2>4, <4>2, <4>3
    <3> QED
      BY <3>1, <3>2
  <2> QED
    BY <2>2, <2>3, <2>4
<1>4. ASSUME NEW x \in Evidence(p, clear), x \notin befores
      PROVE  x \in Evidence(c, clear)
  <2>1. PICK id \in Identities(p) \cap clear : x = Observed(p, id)
    BY DEF Evidence
  <2>2. id \in Identities(c)
    <3> SUFFICES ASSUME id \notin Identities(c) PROVE FALSE
      OBVIOUS
    <3>1. Removed(id, x) \in changes
      BY <1>1, <2>1, ChangesAreSeen DEF changes
    <3>2. Removed(id, x).before = x
      BY DEF Removed
    <3> QED
      BY <1>4, <3>1, <3>2
  <2>3. Observed(c, id) = x
    <3> SUFFICES ASSUME Observed(p, id) # Observed(c, id) PROVE FALSE
      BY <2>1
    <3>1. Changed(id, x, Observed(c, id)) \in changes
      BY <1>1, <2>1, <2>2, ChangesAreSeen DEF changes
    <3>2. Changed(id, x, Observed(c, id)).before = x
      BY DEF Changed
    <3> QED
      BY <1>4, <3>1, <3>2
  <2> QED
    BY <2>1, <2>2, <2>3 DEF Evidence
<1>5. ASSUME NEW d \in changes, d.after # None
      PROVE  d.after \in Evidence(c, clear)
  <2>1. d.id \in clear /\ d.id \in Identities(c) /\ d.after = Observed(c, d.id)
    BY <1>1, <1>5, ChangeKinds DEF changes, clear
  <2> QED
    BY <2>1 DEF Evidence
<1>6. Evidence(c, clear) = (Evidence(p, clear) \ befores) \cup (afters \ {None})
  BY <1>3, <1>4, <1>5
<1>7. ASSUME NEW d \in changes PROVE d.id \in clear /\ d.before # d.after
  BY <1>1, <1>2, ChangeKinds DEF changes, clear
<1>8. ASSUME NEW d \in changes, NEW e \in changes, d.id = e.id PROVE d = e
  BY <1>8, ChangeKinds DEF changes
<1> QED
  BY <1>6, <1>7, <1>8 DEF IsPatch, p, c, changes, clear

\* Applied to what the previous snapshot says without ambiguity, a reported
\* diff gives what the current one says.
THEOREM DiffsArePatches == ComparisonSpec => []DiffIsAPatch
<1>1. ComparisonInv => DiffIsAPatch
  <2> SUFFICES ASSUME ComparisonInv, report # None PROVE DiffIsAPatch
    BY DEF DiffIsAPatch
  <2> DEFINE s == history[report.current - 1]
             t == history[report.current]
  <2>1. s \in Stored /\ t \in Stored
    BY DEF ComparisonInv
  <2>2. report.changes = Compare(s.observations, t.observations)
    BY DEF ComparisonInv, ReportIsOf
  <2>3. IsPatch(s.observations, t.observations, report.changes)
    BY <2>1, <2>2, CompareIsAPatch
  <2> QED
    BY <2>3 DEF DiffIsAPatch, IsPatch
<1> QED
  BY <1>1, ReportsAreOfTheHistory, PTL

-----------------------------------------------------------------------------
(* Longer diffs agree with shorter ones *)

\* Three numbers of one exactness: resets and deltas add up.
LEMMA StepsAddUp ==
    ASSUME NEW a \in Observations, NEW b \in Observations, NEW c \in Observations,
           a.exactness = b.exactness, b.exactness = c.exactness,
           IsNumber(a), IsNumber(b), IsNumber(c)
    PROVE  /\ Step(a, c).reset => Step(a, b).reset \/ Step(b, c).reset
           /\ ~(Step(a, c).reset \/ Step(a, b).reset \/ Step(b, c).reset) =>
                 Step(a, c).delta = Step(a, b).delta + Step(b, c).delta
           /\ a.exactness # "cumulative" => ~Step(a, c).reset
<1>1. a.value \in Int /\ b.value \in Int /\ c.value \in Int
  BY DEF Observations, IsNumber
<1>2. /\ IsReset(a, c) <=> a.exactness = "cumulative" /\ c.value < a.value
      /\ IsReset(a, b) <=> a.exactness = "cumulative" /\ b.value < a.value
      /\ IsReset(b, c) <=> a.exactness = "cumulative" /\ c.value < b.value
  BY DEF IsReset
<1>3. /\ ~IsReset(a, c) => NumericDelta(a, c) = c.value - a.value
      /\ ~IsReset(a, b) => NumericDelta(a, b) = b.value - a.value
      /\ ~IsReset(b, c) => NumericDelta(b, c) = c.value - b.value
  BY DEF NumericDelta
<1>4. /\ Step(a, c).reset = IsReset(a, c) /\ Step(a, c).delta = NumericDelta(a, c)
      /\ Step(a, b).reset = IsReset(a, b) /\ Step(a, b).delta = NumericDelta(a, b)
      /\ Step(b, c).reset = IsReset(b, c) /\ Step(b, c).delta = NumericDelta(b, c)
  BY DEF Step
<1>5. IsReset(a, c) => IsReset(a, b) \/ IsReset(b, c)
  BY <1>1, <1>2
<1>6. ASSUME ~IsReset(a, c), ~IsReset(a, b), ~IsReset(b, c)
      PROVE  NumericDelta(a, c) = NumericDelta(a, b) + NumericDelta(b, c)
  <2>1. c.value - a.value = (b.value - a.value) + (c.value - b.value)
    BY <1>1
  <2> QED
    BY <1>3, <1>6, <2>1
<1>7. a.exactness # "cumulative" => ~IsReset(a, c)
  BY <1>2
<1> QED
  BY <1>4, <1>5, <1>6, <1>7

\* Over any three snapshots of the history, numeric deltas add up and a reset
\* that the long diff reports is one that a short diff reports too.
THEOREM DiffsCompose == ComparisonSpec => []LongerDiffsAgree
<1>1. ComparisonInv => LongerDiffsAgree
  <2> SUFFICES ASSUME ComparisonInv,
                      NEW i \in DOMAIN history, NEW j \in DOMAIN history,
                      NEW k \in DOMAIN history, i < j /\ j < k,
                      NEW id \in Identities(history[i].observations)
                            \cap Identities(history[j].observations)
                            \cap Identities(history[k].observations)
               PROVE  LET a == Observed(history[i].observations, id)
                          b == Observed(history[j].observations, id)
                          c == Observed(history[k].observations, id)
                      IN  (a.exactness = b.exactness /\ b.exactness = c.exactness
                              /\ IsNumber(a) /\ IsNumber(b) /\ IsNumber(c)) =>
                            /\ Step(a, c).reset => Step(a, b).reset \/ Step(b, c).reset
                            /\ ~(Step(a, c).reset \/ Step(a, b).reset \/ Step(b, c).reset) =>
                                  Step(a, c).delta = Step(a, b).delta + Step(b, c).delta
                            /\ a.exactness # "cumulative" => ~Step(a, c).reset
    BY DEF LongerDiffsAgree
  <2>1. history[i] \in Stored /\ history[j] \in Stored /\ history[k] \in Stored
    BY DEF ComparisonInv
  <2>2. /\ Observed(history[i].observations, id) \in Observations
        /\ Observed(history[j].observations, id) \in Observations
        /\ Observed(history[k].observations, id) \in Observations
    BY <2>1, ObservedIsOf
  <2> QED
    BY <2>2, StepsAddUp
<1> QED
  BY <1>1, ReportsAreOfTheHistory, PTL

-----------------------------------------------------------------------------
(* Regressions are of latency *)

\* Products of numbers that may be negative with one that may not.
LEMMA TimesKeepsOrder ==
    ASSUME NEW a \in Int, NEW b \in Int, NEW n \in Nat, a <= b
    PROVE  a * n <= b * n
<1>1. (b - a) * n >= 0
  OBVIOUS
<1>2. (b - a) * n = b * n - a * n
  OBVIOUS
<1> QED
  BY <1>1, <1>2

\* A positive factor on both sides cancels.
LEMMA FactorCancels ==
    ASSUME NEW a \in Int, NEW b \in Int, NEW n \in Nat, n > 0, a * n <= b * n
    PROVE  a <= b
<1> SUFFICES ASSUME b < a PROVE FALSE
  OBVIOUS
<1>1. (b + 1) * n <= a * n
  BY TimesKeepsOrder
<1>2. (b + 1) * n = b * n + n
  OBVIOUS
<1>3. a * n \in Int /\ b * n \in Int
  OBVIOUS
<1> QED
  BY <1>1, <1>2, <1>3

\* Means that rise by the policy's increase and ratio twice in a row rise by
\* both from the first to the last.  The letters are latencies and calls.
LEMMA RisesAddUp ==
    ASSUME NEW l \in Int, NEW c \in Nat, NEW m \in Int, NEW d \in Nat,
           NEW n \in Int, NEW e \in Nat, c > 0, d > 0, e > 0, l > 0,
           m * c - l * d >= 5 * d * c, m * c >= 2 * l * d,
           n * d - m * e >= 5 * e * d, n * d >= 2 * m * e
    PROVE  n * c - l * e >= 5 * e * c /\ n * c >= 2 * l * e
<1> DEFINE mc == m * c
           ld == l * d
           dc == d * c
           nd == n * d
           me == m * e
           ed == e * d
<1>1. mc \in Int /\ ld \in Int /\ dc \in Int /\ nd \in Int /\ me \in Int /\ ed \in Int
  OBVIOUS
<1>2. mc >= ld + 5 * dc /\ mc >= 2 * ld /\ nd >= me + 5 * ed /\ nd >= 2 * me
  <2>1. 5 * d * c = 5 * dc /\ 2 * l * d = 2 * ld /\ 5 * e * d = 5 * ed /\ 2 * m * e = 2 * me
    OBVIOUS
  <2> QED
    BY <1>1, <2>1
<1> HIDE DEF mc, ld, dc, nd, me, ed
<1>3. /\ (me + 5 * ed) * c <= nd * c /\ (2 * me) * c <= nd * c
      /\ (ld + 5 * dc) * e <= mc * e /\ (2 * ld) * e <= mc * e
  BY <1>1, <1>2, TimesKeepsOrder
<1> DEFINE lde == (l * e) * d
           dce == (e * c) * d
           ndc == (n * c) * d
           mce == (m * c) * e
<1>4. lde \in Int /\ dce \in Nat /\ ndc \in Int /\ mce \in Int
  OBVIOUS
<1>5. /\ nd * c = ndc /\ me * c = mce /\ mc * e = mce /\ ld * e = lde
      /\ ed * c = dce /\ dc * e = dce
  BY DEF mc, ld, dc, nd, me, ed
<1>6. /\ (me + 5 * ed) * c = me * c + 5 * (ed * c) /\ (2 * me) * c = 2 * (me * c)
      /\ (ld + 5 * dc) * e = ld * e + 5 * (dc * e) /\ (2 * ld) * e = 2 * (ld * e)
  BY <1>1
<1> HIDE DEF lde, dce, ndc, mce
<1>7. lde + 10 * dce <= ndc
  BY <1>3, <1>4, <1>5, <1>6
<1>8. 2 * mce <= ndc /\ 2 * lde <= mce
  BY <1>3, <1>4, <1>5, <1>6
<1>9. 0 <= lde
  <2>1. l * e \in Nat
    BY l > 0
  <2> QED
    BY <2>1 DEF lde
<1>10. 2 * lde <= ndc /\ lde + 5 * dce <= ndc
  BY <1>4, <1>7, <1>8, <1>9
<1>11. (2 * (l * e)) * d <= (n * c) * d /\ (l * e + 5 * (e * c)) * d <= (n * c) * d
  <2>1. (2 * (l * e)) * d = 2 * lde /\ (l * e + 5 * (e * c)) * d = lde + 5 * dce
    BY DEF lde, dce
  <2> QED
    BY <1>10, <2>1 DEF ndc
<1>12. 2 * (l * e) <= n * c /\ l * e + 5 * (e * c) <= n * c
  <2>1. 2 * (l * e) \in Int /\ n * c \in Int /\ l * e + 5 * (e * c) \in Int
    OBVIOUS
  <2> QED
    BY <1>11, <2>1, FactorCancels
<1>13. 2 * (l * e) = 2 * l * e /\ 5 * (e * c) = 5 * e * c
  OBVIOUS
<1>14. l * e \in Int /\ n * c \in Int /\ e * c \in Int
  OBVIOUS
<1> QED
  BY <1>12, <1>13, <1>14

\* A metric of a sampled object is one of its deltas, and not negative.
LEMMA MetricIsSampled ==
    ASSUME NEW list \in Seq(Deltas), NEW object \in Windows(list),
           NEW key \in {"calls", "latency"}
    PROVE  Metric(list, object, key) \in Nat
<1> DEFINE S == Samples(list, object, key)
<1>1. DOMAIN list = 1..Len(list) /\ Len(list) \in Nat
  OBVIOUS
<1>2. S # {} /\ S \subseteq 1..Len(list)
  BY <1>1 DEF Windows, Samples
<1>3. Max(S) \in S
  BY <1>1, <1>2, LastPlace
<1>4. Max(S) \in 1..Len(list) /\ list[Max(S)].value >= 0
  BY <1>1, <1>3 DEF Samples
<1>5. list[Max(S)] \in Deltas
  BY <1>4
<1> QED
  BY <1>4, <1>5 DEF Metric, Deltas

\* What makes a window a regression.
LEMMA RegressedWindow ==
    ASSUME NEW p \in Seq(Deltas), NEW c \in Seq(Deltas), NEW w \in Regressions(p, c)
    PROVE  /\ w.object \in Windows(p) \cap Windows(c)
           /\ w = Window(p, c, w.object)
           /\ Regressed(w)
           /\ w.calls = Metric(c, w.object, "calls") /\ w.calls \in Nat
           /\ w.latency = Metric(c, w.object, "latency") /\ w.latency \in Nat
           /\ w.previousCalls = Metric(p, w.object, "calls") /\ w.previousCalls \in Nat
           /\ w.previousLatency = Metric(p, w.object, "latency") /\ w.previousLatency \in Nat
<1>1. PICK o \in Windows(p) \cap Windows(c) : w = Window(p, c, o)
  BY DEF Regressions
<1>2. Regressed(w)
  BY DEF Regressions
<1>3. /\ w.object = o
      /\ w.calls = Metric(c, o, "calls") /\ w.latency = Metric(c, o, "latency")
      /\ w.previousCalls = Metric(p, o, "calls")
      /\ w.previousLatency = Metric(p, o, "latency")
  BY <1>1 DEF Window
<1>4. /\ Metric(c, o, "calls") \in Nat /\ Metric(c, o, "latency") \in Nat
      /\ Metric(p, o, "calls") \in Nat /\ Metric(p, o, "latency") \in Nat
  BY <1>1, MetricIsSampled
<1> QED
  BY <1>1, <1>2, <1>3, <1>4

\* The policy's conditions, with its numbers.
LEMMA RegressedMeans ==
    ASSUME NEW w
    PROVE  Regressed(w) <=>
              /\ w.calls >= 10 /\ w.previousCalls >= 5
              /\ w.calls > 0 /\ w.previousCalls > 0 /\ w.previousLatency > 0
              /\ w.latency * w.previousCalls - w.previousLatency * w.calls
                   >= 5 * w.calls * w.previousCalls
              /\ w.latency * w.previousCalls >= 2 * w.previousLatency * w.calls
<1>1. /\ Policy.currentCalls = 10 /\ Policy.previousCalls = 5
      /\ Policy.increase = 5 /\ Policy.ratio = 2
  BY DEF Policy
<1> QED
  BY <1>1 DEF Regressed

\* A call of a regressed query takes longer.
LEMMA RegressedIsSlower ==
    ASSUME NEW p \in Seq(Deltas), NEW c \in Seq(Deltas), NEW w \in Regressions(p, c)
    PROVE  w.latency * w.previousCalls > w.previousLatency * w.calls
<1>1. /\ w.calls \in Nat /\ w.latency \in Nat
      /\ w.previousCalls \in Nat /\ w.previousLatency \in Nat
  BY RegressedWindow
<1>2. /\ w.calls > 0 /\ w.previousCalls > 0
      /\ w.latency * w.previousCalls - w.previousLatency * w.calls
           >= 5 * w.calls * w.previousCalls
  BY RegressedWindow, RegressedMeans
<1> DEFINE a == w.calls
           b == w.previousCalls
           x == w.latency * b
           y == w.previousLatency * a
<1>3. x \in Int /\ y \in Int /\ x - y >= 5 * a * b /\ a \in Nat /\ b \in Nat /\ a > 0 /\ b > 0
  BY <1>1, <1>2
<1> HIDE DEF a, b, x, y
<1>4. 5 * a * b > 0
  BY <1>3
<1>5. x > y
  <2>1. 5 * a * b \in Int
    BY <1>3
  <2> QED
    BY <1>3, <1>4, <2>1
<1> QED
  BY <1>5 DEF a, b, x, y

\* A slowdown over two intervals is one from the first to the last.
LEMMA SlowdownsAddUp ==
    ASSUME NEW p \in Seq(Deltas), NEW q \in Seq(Deltas), NEW c \in Seq(Deltas),
           NEW v \in Regressions(p, q), NEW w \in Regressions(q, c), v.object = w.object
    PROVE  \E u \in Regressions(p, c) : u.object = v.object
<1> DEFINE o == v.object
           u == Window(p, c, o)
<1>1. /\ o \in Windows(p) \cap Windows(q) /\ Regressed(v)
      /\ v.calls = Metric(q, o, "calls") /\ v.calls \in Nat
      /\ v.latency = Metric(q, o, "latency") /\ v.latency \in Nat
      /\ v.previousCalls = Metric(p, o, "calls") /\ v.previousCalls \in Nat
      /\ v.previousLatency = Metric(p, o, "latency") /\ v.previousLatency \in Nat
  BY RegressedWindow
<1>2. /\ o \in Windows(q) \cap Windows(c) /\ Regressed(w)
      /\ w.calls = Metric(c, o, "calls") /\ w.calls \in Nat
      /\ w.latency = Metric(c, o, "latency") /\ w.latency \in Nat
      /\ w.previousCalls = Metric(q, o, "calls") /\ w.previousCalls \in Nat
      /\ w.previousLatency = Metric(q, o, "latency") /\ w.previousLatency \in Nat
  BY RegressedWindow
<1>3. w.previousCalls = v.calls /\ w.previousLatency = v.latency
  BY <1>1, <1>2
<1>4. /\ v.calls >= 10 /\ v.previousCalls >= 5 /\ v.previousCalls > 0 /\ v.calls > 0
      /\ v.previousLatency > 0
      /\ v.latency * v.previousCalls - v.previousLatency * v.calls
           >= 5 * v.calls * v.previousCalls
      /\ v.latency * v.previousCalls >= 2 * v.previousLatency * v.calls
  BY <1>1, RegressedMeans
<1>5. /\ w.calls >= 10 /\ w.calls > 0
      /\ w.latency * v.calls - v.latency * w.calls >= 5 * w.calls * v.calls
      /\ w.latency * v.calls >= 2 * v.latency * w.calls
  BY <1>2, <1>3, RegressedMeans
<1>6. /\ w.latency * v.previousCalls - v.previousLatency * w.calls
           >= 5 * w.calls * v.previousCalls
      /\ w.latency * v.previousCalls >= 2 * v.previousLatency * w.calls
  <2>1. /\ v.latency \in Int /\ w.latency \in Int /\ v.previousLatency \in Int
        /\ v.calls \in Nat /\ w.calls \in Nat /\ v.previousCalls \in Nat
    BY <1>1, <1>2
  <2> QED
    BY <2>1, <1>4, <1>5, RisesAddUp
<1>7. /\ u.object = o
      /\ u.calls = w.calls /\ u.latency = w.latency
      /\ u.previousCalls = v.previousCalls /\ u.previousLatency = v.previousLatency
  BY <1>1, <1>2 DEF Window
<1>8. Regressed(u)
  <2> HIDE DEF u
  <2>1. Regressed(u) <=>
              /\ u.calls >= 10 /\ u.previousCalls >= 5
              /\ u.calls > 0 /\ u.previousCalls > 0 /\ u.previousLatency > 0
              /\ u.latency * u.previousCalls - u.previousLatency * u.calls
                   >= 5 * u.calls * u.previousCalls
              /\ u.latency * u.previousCalls >= 2 * u.previousLatency * u.calls
    BY RegressedMeans
  <2> QED
    BY <2>1, <1>4, <1>5, <1>6, <1>7
<1>9. u \in Regressions(p, c)
  BY <1>1, <1>2, <1>8 DEF Regressions
<1> QED
  BY <1>7, <1>9

\* A query is reported only when a call of it takes longer, and a slowdown
\* over two intervals is also seen across both.
THEOREM RegressionsAreSlower == ComparisonSpec => []RegressionsAreOfLatency
<1>1. ComparisonInv => RegressionsAreOfLatency
  <2> SUFFICES ASSUME ComparisonInv PROVE RegressionsAreOfLatency
    OBVIOUS
  <2>1. \A i \in DOMAIN history : history[i].deltas \in Seq(Deltas)
    <3> SUFFICES ASSUME NEW i \in DOMAIN history PROVE history[i].deltas \in Seq(Deltas)
      OBVIOUS
    <3>1. history[i] \in Stored
      BY DEF ComparisonInv
    <3> QED
      BY <3>1, StoredTypes
  <2>2. \A i, j \in DOMAIN history : \A w \in Regressions(history[i].deltas, history[j].deltas) :
            w.latency * w.previousCalls > w.previousLatency * w.calls
    BY <2>1, RegressedIsSlower
  <2>3. \A i, j, k \in DOMAIN history :
            \A v \in Regressions(history[i].deltas, history[j].deltas),
               w \in Regressions(history[j].deltas, history[k].deltas) :
               v.object = w.object =>
                   \E u \in Regressions(history[i].deltas, history[k].deltas) :
                       u.object = v.object
    BY <2>1, SlowdownsAddUp
  <2> QED
    BY <2>2, <2>3 DEF RegressionsAreOfLatency
<1> QED
  BY <1>1, ReportsAreOfTheHistory, PTL

-----------------------------------------------------------------------------
(* Reports are reproducible *)

\* An order that decides between any two members leaves one arrangement.  At
\* the first place where two differ, each has its member later in the other.
LEMMA OneArrangement ==
    ASSUME NEW S, IsFiniteSet(S), NEW less,
           \A x, y \in S : x # y => <<x, y>> \in less \/ <<y, x>> \in less,
           NEW s \in Arrangements(S, less), NEW t \in Arrangements(S, less)
    PROVE  s = t
<1> DEFINE n == Cardinality(S)
           D == {i \in 1..n : s[i] # t[i]}
<1>1. n \in Nat
  BY FS_CardinalityType
<1>2. /\ s \in [1..n -> S] /\ \A x \in S : \E i \in 1..n : s[i] = x
      /\ \A i, k \in 1..n : s[i] = s[k] => i = k
      /\ \A i, k \in 1..n : i < k => <<s[k], s[i]>> \notin less
  BY DEF Arrangements, Bijection, Injection, Surjection, IsInjective
<1>3. /\ t \in [1..n -> S] /\ \A x \in S : \E i \in 1..n : t[i] = x
      /\ \A i, k \in 1..n : t[i] = t[k] => i = k
      /\ \A i, k \in 1..n : i < k => <<t[k], t[i]>> \notin less
  BY DEF Arrangements, Bijection, Injection, Surjection, IsInjective
<1> HIDE DEF n
<1>4. ASSUME D # {} PROVE FALSE
  <2>1. D \subseteq Nat
    BY <1>1
  <2>2. PICK m \in D : \A i \in D : m <= i
    BY <1>4, <2>1, LeastOf
  <2>3. m \in 1..n /\ s[m] # t[m] /\ s[m] \in S /\ t[m] \in S
    BY <1>2, <1>3, <2>2
  <2>4. \A i \in 1..n : i < m => s[i] = t[i]
    BY <1>1, <2>2
  <2>5. PICK k \in 1..n : s[k] = t[m]
    BY <1>2, <2>3
  <2>6. PICK l \in 1..n : t[l] = s[m]
    BY <1>3, <2>3
  <2>7. k > m
    <3>1. k # m
      BY <2>3, <2>5
    <3>2. ~(k < m)
      BY <1>1, <1>3, <2>3, <2>4, <2>5
    <3> QED
      BY <1>1, <2>3, <3>1, <3>2
  <2>8. l > m
    <3>1. l # m
      BY <2>3, <2>6
    <3>2. ~(l < m)
      BY <1>1, <1>2, <2>3, <2>4, <2>6
    <3> QED
      BY <1>1, <2>3, <3>1, <3>2
  <2>9. <<t[m], s[m]>> \notin less
    BY <1>2, <2>3, <2>5, <2>7
  <2>10. <<s[m], t[m]>> \notin less
    BY <1>3, <2>3, <2>6, <2>8
  <2> QED
    BY <2>3, <2>9, <2>10
<1>5. \A i \in 1..n : s[i] = t[i]
  BY <1>4
<1> HIDE DEF D
<1>6. s = [i \in 1..n |-> s[i]] /\ t = [i \in 1..n |-> t[i]]
  BY <1>2, <1>3
<1> QED
  BY <1>5, <1>6

\* The values of a function on a finite set are finitely many.
LEMMA ValuesAreFinite ==
    ASSUME NEW S, IsFiniteSet(S), NEW f
    PROVE  IsFiniteSet({f[x] : x \in S})
<1> DEFINE T == {f[x] : x \in S}
           g == [x \in S |-> f[x]]
<1>1. g \in Surjection(S, T)
  BY DEF Surjection
<1> QED
  BY <1>1, FS_Surjection

\* What a list of deltas shows are finitely many objects with natural numbers.
LEMMA SampledObjects ==
    ASSUME NEW list \in Seq(Deltas)
    PROVE  /\ IsFiniteSet(Sampled(list))
           /\ Sampled(list) \subseteq Nat
<1>1. DOMAIN list = 1..Len(list) /\ Len(list) \in Nat /\ \A i \in 1..Len(list) : list[i] \in Deltas
  OBVIOUS
<1>2. IsFiniteSet(1..Len(list))
  BY <1>1, FS_Interval
<1> DEFINE f == [i \in 1..Len(list) |-> list[i].object]
<1>3. Sampled(list) = {f[i] : i \in 1..Len(list)}
  BY <1>1 DEF Sampled
<1> HIDE DEF f
<1>4. IsFiniteSet(Sampled(list))
  BY <1>2, <1>3, ValuesAreFinite
<1>5. Sampled(list) \subseteq Nat
  BY <1>1 DEF Sampled, Deltas
<1> QED
  BY <1>4, <1>5

\* The regressions are finitely many, one of an object at most, and the
\* comparison of the sort decides between any two of them.
LEMMA RegressionsAreOrdered ==
    ASSUME NEW p \in Seq(Deltas), NEW c \in Seq(Deltas)
    PROVE  /\ IsFiniteSet(Regressions(p, c))
           /\ \A v, w \in Regressions(p, c) :
                  v # w => SlowerFirst(v, w) \/ SlowerFirst(w, v)
<1> DEFINE objects == Windows(p) \cap Windows(c)
           f == [o \in objects |-> Window(p, c, o)]
<1>1. objects \subseteq Sampled(p)
  BY DEF Windows
<1>2. IsFiniteSet(objects) /\ objects \subseteq Nat
  BY <1>1, SampledObjects, FS_Subset
<1>3. Regressions(p, c) \subseteq {f[o] : o \in objects}
  BY DEF Regressions
<1> HIDE DEF objects, f
<1>4. IsFiniteSet({f[o] : o \in objects})
  BY <1>2, ValuesAreFinite
<1>5. IsFiniteSet(Regressions(p, c))
  BY <1>3, <1>4, FS_Subset
<1>6. ASSUME NEW v \in Regressions(p, c), NEW w \in Regressions(p, c), v # w
      PROVE  SlowerFirst(v, w) \/ SlowerFirst(w, v)
  <2>1. /\ v.object \in Nat /\ v = Window(p, c, v.object)
        /\ v.latency \in Nat /\ v.calls \in Nat
        /\ v.previousLatency \in Nat /\ v.previousCalls \in Nat
    BY <1>2, RegressedWindow DEF objects
  <2>2. /\ w.object \in Nat /\ w = Window(p, c, w.object)
        /\ w.latency \in Nat /\ w.calls \in Nat
        /\ w.previousLatency \in Nat /\ w.previousCalls \in Nat
    BY <1>2, RegressedWindow DEF objects
  <2>3. v.object # w.object
    BY <1>6, <2>1, <2>2
  <2> DEFINE a == (v.latency * v.previousCalls - v.previousLatency * v.calls) * w.previousCalls
             b == (w.latency * w.previousCalls - w.previousLatency * w.calls) * v.previousCalls
  <2>4. a \in Int /\ b \in Int
    <3>1. \A x, y, z, u, m \in Nat : (x * y - z * u) * m \in Int
      OBVIOUS
    <3> QED
      BY <2>1, <2>2, <3>1
  <2>5. AddedLatency(v, w) = a - b /\ AddedLatency(w, v) = b - a
    BY DEF AddedLatency
  <2> HIDE DEF a, b
  <2>6. AddedLatency(v, w) > 0 \/ AddedLatency(w, v) > 0
        \/ (AddedLatency(v, w) = 0 /\ AddedLatency(w, v) = 0)
    BY <2>4, <2>5
  <2>7. v.object < w.object \/ w.object < v.object
    BY <2>1, <2>2, <2>3
  <2> QED
    BY <2>6, <2>7 DEF SlowerFirst
<1> QED
  BY <1>5, <1>6

\* What a list of observations shows are finitely many identities.
LEMMA IdentitiesAreFinite ==
    ASSUME NEW s \in Stored
    PROVE  /\ IsFiniteSet(Identities(s.observations))
           /\ Identities(s.observations) \subseteq Nat \X Nat
<1> DEFINE list == s.observations
           f == [i \in DOMAIN list |-> list[i].id]
<1>1. PICK n \in Nat : DOMAIN list \subseteq 1..n
  BY StoredTypes
<1>2. IsFiniteSet(DOMAIN list)
  BY <1>1, FS_Interval, FS_Subset
<1>3. Identities(list) = {f[i] : i \in DOMAIN list}
  BY DEF Identities
<1>4. IsFiniteSet(Identities(list))
  <2> HIDE DEF f
  <2> QED
    BY <1>2, <1>3, ValuesAreFinite
<1>5. Identities(list) \subseteq Nat \X Nat
  BY StoredTypes DEF Identities, Observations
<1> QED
  BY <1>4, <1>5

\* There is one change of an identity at most, so the changes are finitely
\* many.
LEMMA ChangesAreFinite ==
    ASSUME NEW s \in Stored, NEW t \in Stored
    PROVE  IsFiniteSet(Compare(s.observations, t.observations))
<1> DEFINE ids == Identities(s.observations) \cup Identities(t.observations)
           changes == Compare(s.observations, t.observations)
           f == [d \in changes |-> d.id]
<1>1. IsFiniteSet(ids)
  BY IdentitiesAreFinite, FS_Union
<1>2. \A d \in changes : d.id \in ids
  BY ChangeKinds
<1>3. \A d, e \in changes : d.id = e.id => d = e
  BY ChangeKinds
<1> HIDE DEF ids, changes
<1>4. f \in Injection(changes, ids)
  BY <1>2, <1>3 DEF Injection, IsInjective
<1>5. IsFiniteSet(changes)
  BY <1>1, <1>4, FS_Injection
<1> QED
  BY <1>5 DEF changes

EventTypes == {"object_appeared", "object_disappeared", "query_regression", "signal_reset"}

\* The rank of a type tells it.
LEMMA RankTells ==
    ASSUME NEW d, d.type \in EventTypes
    PROVE  TypeRank(d) \in 1..4 /\ TypeOrder[TypeRank(d)] = d.type
<1>1. \E i \in 1..4 : TypeOrder[i] = d.type
  BY DEF TypeOrder, EventTypes
<1> QED
  BY <1>1 DEF TypeRank

\* The events of a diff are finitely many, and the comparison of the sort
\* decides between any two of them.
LEMMA EventsAreOrdered ==
    ASSUME NEW s \in Stored, NEW t \in Stored
    PROVE  LET events == Events(Compare(s.observations, t.observations),
                                Regressions(s.deltas, t.deltas))
           IN  /\ IsFiniteSet(events)
               /\ \A d, e \in events : d # e => EventFirst(d, e) \/ EventFirst(e, d)
<1> DEFINE changes == Compare(s.observations, t.observations)
           regressions == Regressions(s.deltas, t.deltas)
           kinds == {d \in changes : d.kind # "changed"}
           f == [c \in kinds |-> [type |-> EventType(c.kind), object |-> c.id[2], key |-> c.id[1]]]
           g == [w \in regressions |-> [type |-> "query_regression", object |-> w.object, key |-> 0]]
           F == {f[c] : c \in kinds}
           G == {g[w] : w \in regressions}
<1>1. Events(changes, regressions) = F \cup G
  BY DEF Events
<1>2. s.deltas \in Seq(Deltas) /\ t.deltas \in Seq(Deltas)
  BY StoredTypes
<1>3. IsFiniteSet(changes) /\ IsFiniteSet(regressions)
  BY <1>2, ChangesAreFinite, RegressionsAreOrdered
<1>4. IsFiniteSet(kinds)
  BY <1>3, FS_Subset
<1>5. ASSUME NEW e \in G
      PROVE  e.type \in EventTypes /\ e.object \in Nat /\ e.key \in Nat
             /\ e = [type |-> e.type, object |-> e.object, key |-> e.key]
  <2>1. PICK w \in regressions :
            e = [type |-> "query_regression", object |-> w.object, key |-> 0]
    OBVIOUS
  <2>2. w.object \in Windows(s.deltas)
    BY <1>2, RegressedWindow
  <2>3. w.object \in Nat
    BY <1>2, <2>2, SampledObjects DEF Windows
  <2> QED
    BY <2>1, <2>3 DEF EventTypes
<1>6. ASSUME NEW e \in F
      PROVE  e.type \in EventTypes /\ e.object \in Nat /\ e.key \in Nat
             /\ e = [type |-> e.type, object |-> e.object, key |-> e.key]
  <2>1. PICK c \in kinds :
            e = [type |-> EventType(c.kind), object |-> c.id[2], key |-> c.id[1]]
    OBVIOUS
  <2>2. c.id \in Identities(s.observations) \cup Identities(t.observations)
    BY <2>1, ChangeKinds
  <2>3. c.id \in Nat \X Nat
    BY <2>2, IdentitiesAreFinite
  <2>4. c.kind \in {"added", "removed", "reset"}
    <3>1. \/ c = Added(c.id, Observed(t.observations, c.id))
          \/ c = Removed(c.id, Observed(s.observations, c.id))
          \/ c = Changed(c.id, Observed(s.observations, c.id), Observed(t.observations, c.id))
      BY <2>1, ChangeKinds
    <3>2. \/ c.kind = "added" \/ c.kind = "removed" \/ c.kind = "reset" \/ c.kind = "changed"
      BY <3>1 DEF Added, Removed, Changed
    <3> QED
      BY <2>1, <3>2
  <2>5. EventType(c.kind) \in EventTypes
    BY <2>4 DEF EventType, EventTypes
  <2> QED
    BY <2>1, <2>3, <2>5
<1> HIDE DEF F, G, kinds, f, g
<1>7. IsFiniteSet(F) /\ IsFiniteSet(G)
  BY <1>3, <1>4, ValuesAreFinite DEF F, G
<1>8. IsFiniteSet(F \cup G)
  BY <1>7, FS_Union
<1>9. ASSUME NEW d \in F \cup G, NEW e \in F \cup G, d # e
      PROVE  EventFirst(d, e) \/ EventFirst(e, d)
  <2>1. /\ d.type \in EventTypes /\ d.object \in Nat /\ d.key \in Nat
        /\ d = [type |-> d.type, object |-> d.object, key |-> d.key]
    BY <1>5, <1>6
  <2>2. /\ e.type \in EventTypes /\ e.object \in Nat /\ e.key \in Nat
        /\ e = [type |-> e.type, object |-> e.object, key |-> e.key]
    BY <1>5, <1>6
  <2>3. /\ TypeRank(d) \in 1..4 /\ TypeOrder[TypeRank(d)] = d.type
        /\ TypeRank(e) \in 1..4 /\ TypeOrder[TypeRank(e)] = e.type
    BY <2>1, <2>2, RankTells
  <2>4. d.type # e.type \/ d.object # e.object \/ d.key # e.key
    BY <1>9, <2>1, <2>2
  <2>5. TypeRank(d) # TypeRank(e) \/ d.object # e.object \/ d.key # e.key
    BY <2>3, <2>4
  <2> QED
    BY <2>1, <2>2, <2>3, <2>5 DEF EventFirst
<1> QED
  BY <1>1, <1>8, <1>9

\* Two reports about the same two snapshots are the same report.
LEMMA OneReport ==
    ASSUME NEW s \in Stored, NEW t \in Stored, NEW r, NEW q,
           ReportIsOf(r, s, t), ReportIsOf(q, s, t), r.current = q.current
    PROVE  r = q
<1> DEFINE regressions == Regressions(s.deltas, t.deltas)
           events == Events(Compare(s.observations, t.observations), regressions)
<1>1. r.changes = q.changes /\ r.changes = Compare(s.observations, t.observations)
  BY DEF ReportIsOf
<1>2. /\ r.regressions \in SlowestFirst(regressions) /\ q.regressions \in SlowestFirst(regressions)
      /\ r.events \in InOrder(events) /\ q.events \in InOrder(events)
  BY <1>1 DEF ReportIsOf
<1>3. s.deltas \in Seq(Deltas) /\ t.deltas \in Seq(Deltas)
  BY StoredTypes
<1>4. /\ IsFiniteSet(regressions)
      /\ \A v, w \in regressions : v # w => SlowerFirst(v, w) \/ SlowerFirst(w, v)
  BY <1>3, RegressionsAreOrdered
<1>5. /\ IsFiniteSet(events)
      /\ \A d, e \in events : d # e => EventFirst(d, e) \/ EventFirst(e, d)
  BY EventsAreOrdered
<1> HIDE DEF regressions, events
<1>6. r.regressions = q.regressions
  <2> DEFINE less == {p \in regressions \X regressions : SlowerFirst(p[1], p[2])}
  <2>1. \A v, w \in regressions : v # w => <<v, w>> \in less \/ <<w, v>> \in less
    BY <1>4
  <2>2. r.regressions \in Arrangements(regressions, less)
        /\ q.regressions \in Arrangements(regressions, less)
    BY <1>2 DEF SlowestFirst
  <2> HIDE DEF less
  <2> QED
    BY <1>4, <2>1, <2>2, OneArrangement
<1>7. r.events = q.events
  <2> DEFINE less == {p \in events \X events : EventFirst(p[1], p[2])}
  <2>1. \A d, e \in events : d # e => <<d, e>> \in less \/ <<e, d>> \in less
    BY <1>5
  <2>2. r.events \in Arrangements(events, less) /\ q.events \in Arrangements(events, less)
    BY <1>2 DEF InOrder
  <2> HIDE DEF less
  <2> QED
    BY <1>5, <2>1, <2>2, OneArrangement
<1> QED
  BY <1>1, <1>6, <1>7 DEF ReportIsOf

\* The same two snapshots give the same report, although maps are visited in
\* any order and the sort is not stable.
THEOREM DiffsAreReproducible == ComparisonSpec => ReportIsReproducible
<1>1. ComparisonInv /\ [ComparisonNext]_comparisonVars =>
          [report # None /\ report'.current = report.current => report' = report]_comparisonVars
  <2> SUFFICES ASSUME ComparisonInv, ComparisonNext,
                      report # None, report'.current = report.current
               PROVE  report' = report
    BY DEF comparisonVars
  <2>1. CASE \E o \in Databases[database].observations,
                d \in Databases[database].deltas : Save(o, d)
    BY <2>1 DEF Save
  <2>2. CASE RunDiff
    <3> DEFINE s == history[report.current - 1]
               t == history[report.current]
    <3>1. report.current \in 2..Len(history) /\ ReportIsOf(report, s, t) /\ history \in Seq(Stored)
      BY DEF ComparisonInv
    <3>2. ReportIsOf(report', s, t)
      BY <2>2, RunDiffReports
    <3>3. s \in Stored /\ t \in Stored
      BY <3>1
    <3> HIDE DEF s, t
    <3> QED
      BY <3>1, <3>2, <3>3, OneReport
  <2> QED
    BY <2>1, <2>2 DEF ComparisonNext
<1> QED
  BY <1>1, ReportsAreOfTheHistory, PTL DEF ComparisonSpec, ReportIsReproducible

-----------------------------------------------------------------------------
(* Schema fingerprints: texts, place by place *)

\* What holds at a place, and at the next wherever it holds, holds from there on.
LEMMA FromHereOn ==
    ASSUME NEW i \in Nat, NEW j \in Nat, NEW Good, i \in Good,
           \A m \in i..j : m \in Good /\ m < j => m + 1 \in Good
    PROVE  \A m \in i..j : m \in Good
<1> DEFINE Bad == {m \in i..j : m \notin Good}
<1>1. ASSUME Bad # {} PROVE FALSE
  <2>1. Bad \in SUBSET Nat
    OBVIOUS
  <2>2. PICK m \in Bad : \A n \in Bad : m <= n
    <3> HIDE DEF Bad
    <3> QED
      BY <1>1, <2>1, LeastOf
  <2>3. m \in i..j /\ m # i
    OBVIOUS
  <2>4. m - 1 \in i..j /\ ~(m <= m - 1) /\ m - 1 < j /\ (m - 1) + 1 = m
    BY <2>3
  <2>5. m - 1 \in Good
    BY <2>2, <2>4
  <2> QED
    BY <2>2, <2>4, <2>5
<1> QED
  BY <1>1

-----------------------------------------------------------------------------
(* Texts strung together *)

ByteStrings == Seq(Nat)

\* What a text is made of when it is made of two.
LEMMA Concatenated ==
    ASSUME NEW s \in ByteStrings, NEW t \in ByteStrings
    PROVE  /\ s \o t \in ByteStrings /\ Len(s) \in Nat /\ Len(t) \in Nat /\ Len(s \o t) = Len(s) + Len(t)
           /\ \A k \in 1..Len(s) : (s \o t)[k] = s[k]
           /\ \A k \in 1..Len(t) : (s \o t)[Len(s) + k] = t[k]
           /\ <<>> \o t = t /\ <<>> \in ByteStrings /\ Len(<<>>) = 0
<1>1. s \o t \in ByteStrings /\ Len(s) \in Nat /\ Len(t) \in Nat /\ Len(s \o t) = Len(s) + Len(t)
  BY DEF ByteStrings
<1>2. \A k \in 1..Len(s) : (s \o t)[k] = s[k]
  BY DEF ByteStrings
<1>3. \A k \in 1..Len(t) : (s \o t)[Len(s) + k] = t[k]
  BY DEF ByteStrings
<1>4. <<>> \in ByteStrings /\ <<>> \o t = t /\ Len(<<>>) = 0
  BY ConcatEmptySeq DEF ByteStrings
<1> QED
  BY <1>1, <1>2, <1>3, <1>4

\* ByteStrings of the same length with the same members are the same.
LEMMA SameText ==
    ASSUME NEW s \in ByteStrings, NEW t \in ByteStrings, Len(s) = Len(t), \A k \in 1..Len(s) : s[k] = t[k]
    PROVE  s = t
BY SeqEqual DEF ByteStrings

Begins(s, z) == Len(s) <= Len(z) /\ \A k \in 1..Len(s) : z[k] = s[k]

\* A text begins what it is put in front of, and what that begins.
LEMMA BeginsOnwards ==
    ASSUME NEW s \in ByteStrings, NEW t \in ByteStrings, NEW z \in ByteStrings
    PROVE  /\ Begins(s, s) /\ Begins(s, s \o t)
           /\ Begins(s, t) /\ Begins(t, z) => Begins(s, z)
<1>1. Begins(s, s) /\ Begins(s, s \o t)
  BY Concatenated DEF Begins
<1>2. ASSUME Begins(s, t), Begins(t, z) PROVE Begins(s, z)
  <2>1. Len(s) \in Nat /\ Len(t) \in Nat /\ Len(z) \in Nat
    BY Concatenated
  <2> QED
    BY <1>2, <2>1 DEF Begins
<1> QED
  BY <1>1, <1>2

\* Growing is a's beginnings, strung together.
Strings(a, growing) ==
    /\ growing \in [0..Len(a) -> ByteStrings] /\ growing[0] = <<>>
    /\ \A i \in 1..Len(a) : growing[i] = growing[i - 1] \o a[i]

\* Strung together up to some place, and so up to the last.
LEMMA StringsExist ==
    ASSUME NEW a \in Seq(ByteStrings)
    PROVE  \E growing : Strings(a, growing)
<1> DEFINE n == Len(a)
           Up(m, g) == /\ g \in [0..m -> ByteStrings] /\ g[0] = <<>>
                       /\ \A i \in 1..m : g[i] = g[i - 1] \o a[i]
           Good == {m \in 0..n : \E g : Up(m, g)}
<1>1. n \in Nat /\ \A i \in 1..n : a[i] \in ByteStrings
  OBVIOUS
<1> HIDE DEF n
<1>2. 0 \in Good
  <2> DEFINE g == [i \in 0..0 |-> <<>>]
  <2>1. g \in [0..0 -> ByteStrings] /\ g[0] = <<>>
    BY DEF ByteStrings
  <2>2. Up(0, g)
    BY <2>1
  <2>3. \E f : Up(0, f)
    BY <2>2
  <2> HIDE DEF Up
  <2> QED
    BY <1>1, <2>3
<1>3. ASSUME NEW m \in 0..n, m \in Good, m < n PROVE m + 1 \in Good
  <2>1. PICK h : Up(m, h)
    BY <1>3
  <2> DEFINE g == [i \in 0..(m + 1) |-> IF i = m + 1 THEN h[m] \o a[m + 1] ELSE h[i]]
  <2>2. m \in Nat /\ m + 1 \in 1..n /\ m + 1 \in 0..n
    BY <1>1, <1>3
  <2>3. h[m] \o a[m + 1] \in ByteStrings
    BY <1>1, <2>1, <2>2, Concatenated
  <2>4. g \in [0..(m + 1) -> ByteStrings]
    BY <2>1, <2>2, <2>3
  <2>5. \A i \in 0..(m + 1) : g[i] = IF i = m + 1 THEN h[m] \o a[m + 1] ELSE h[i]
    OBVIOUS
  <2> HIDE DEF g
  <2>6. g[0] = <<>>
    BY <2>1, <2>2, <2>5
  <2>7. ASSUME NEW i \in 1..(m + 1) PROVE g[i] = g[i - 1] \o a[i]
    <3>1. i \in 0..(m + 1) /\ i - 1 \in 0..(m + 1) /\ i - 1 # m + 1 /\ (i # m + 1 => i \in 1..m)
          /\ (i = m + 1 => i - 1 = m)
      BY <2>2
    <3>2. g[i - 1] = h[i - 1]
      BY <2>5, <3>1
    <3> QED
      BY <2>1, <2>5, <3>1, <3>2
  <2>8. Up(m + 1, g)
    BY <2>4, <2>6, <2>7
  <2> QED
    BY <2>2, <2>8
<1>4. n \in Good
  <2>1. 0 \in Nat /\ n \in 0..n
    BY <1>1
  <2> HIDE DEF Good
  <2> QED
    BY <1>1, <1>2, <1>3, <2>1, FromHereOn
<1> QED
  BY <1>4 DEF Strings, n

\* There is one way to string together, and FlattenSeq goes it.
LEMMA FlattenStrings ==
    ASSUME NEW a \in Seq(ByteStrings)
    PROVE  \E growing : Strings(a, growing) /\ FlattenSeq(a) = growing[Len(a)]
<1>1. PICK h : Strings(a, h)
  BY StringsExist
<1>2. Len(a) \in Nat
  OBVIOUS
<1>3. CASE Len(a) = 0
  <2>1. a = <<>> /\ h[0] = <<>>
    BY <1>1, <1>3 DEF Strings
  <2>2. FlattenSeq(a) = a
    BY <1>3 DEF FlattenSeq
  <2> QED
    BY <1>1, <1>3, <2>1, <2>2
<1>4. CASE Len(a) # 0
  <2> DEFINE n == Len(a)
             Is(f) == f = [i \in 1..n |-> IF i = 1 THEN a[i] ELSE f[i - 1] \o a[i]]
             f1 == [i \in 1..n |-> h[i]]
             f2 == CHOOSE f : Is(f)
  <2>1. FlattenSeq(a) = f2[n]
    BY <1>4 DEF FlattenSeq
  <2>2. n \in Nat /\ n >= 1 /\ \A i \in 1..n : a[i] \in ByteStrings
    BY <1>2, <1>4
  <2>3. h[0] = <<>> /\ \A i \in 1..n : h[i] = h[i - 1] \o a[i]
    BY <1>1 DEF Strings
  <2> HIDE DEF n
  <2>4. ASSUME NEW i \in 1..n PROVE h[i] = IF i = 1 THEN a[i] ELSE h[i - 1] \o a[i]
    <3>1. CASE i = 1
      <4>1. i - 1 = 0 /\ a[i] \in ByteStrings
        BY <2>2, <3>1
      <4>2. h[i] = <<>> \o a[i]
        BY <2>3, <4>1
      <4>3. <<>> \o a[i] = a[i]
        BY <4>1, Concatenated
      <4> QED
        BY <3>1, <4>2, <4>3
    <3>2. CASE i # 1
      BY <2>3, <3>2
    <3> QED
      BY <3>1, <3>2
  <2>5. Is(f1)
    <3>1. ASSUME NEW i \in 1..n PROVE (IF i = 1 THEN a[i] ELSE f1[i - 1] \o a[i]) = h[i]
      <4>1. i # 1 => i - 1 \in 1..n
        BY <2>2
      <4>2. i # 1 => f1[i - 1] = h[i - 1]
        BY <4>1
      <4> QED
        BY <2>4, <4>2
    <3> QED
      BY <3>1
  <2>6. Is(f2)
    BY <2>5
  <2> DEFINE Good == {i \in 1..n : f2[i] = h[i]}
  <2>7. \A i \in 1..n : f2[i] = IF i = 1 THEN a[i] ELSE f2[i - 1] \o a[i]
    BY <2>6
  <2> HIDE DEF f1, f2, Is
  <2>8. 1 \in Good
    BY <2>2, <2>4, <2>7
  <2>9. ASSUME NEW m \in 1..n, m \in Good, m < n PROVE m + 1 \in Good
    <3>1. m + 1 \in 1..n /\ (m + 1) - 1 = m /\ m + 1 # 1
      BY <2>2, <2>9
    <3>2. f2[m] = h[m]
      BY <2>9
    <3> QED
      BY <2>4, <2>7, <3>1, <3>2
  <2>10. n \in Good
    <3>1. 1 \in Nat /\ n \in 1..n
      BY <2>2
    <3> HIDE DEF Good
    <3> QED
      BY <2>2, <2>8, <2>9, <3>1, FromHereOn
  <2> QED
    BY <1>1, <2>1, <2>10 DEF n
<1> QED
  BY <1>3, <1>4

\* What was strung together earlier is what a later one begins with.
LEMMA StringsGrow ==
    ASSUME NEW a \in Seq(ByteStrings), NEW growing, Strings(a, growing),
           NEW i \in 0..Len(a), NEW j \in 0..Len(a), i <= j
    PROVE  Begins(growing[i], growing[j])
<1> DEFINE n == Len(a)
           Good == {m \in i..j : Begins(growing[i], growing[m])}
<1>1. n \in Nat /\ \A m \in 1..n : a[m] \in ByteStrings
  OBVIOUS
<1>2. (\A m \in 0..n : growing[m] \in ByteStrings) /\ \A m \in 1..n : growing[m] = growing[m - 1] \o a[m]
  BY DEF Strings
<1>3. i \in 0..n /\ j \in 0..n
  OBVIOUS
<1> HIDE DEF n
<1>4. i \in Good
  BY <1>1, <1>2, <1>3, BeginsOnwards
<1>5. ASSUME NEW m \in i..j, m \in Good, m < j PROVE m + 1 \in Good
  <2>1. m \in 0..n /\ m + 1 \in 1..n /\ m + 1 \in 0..n /\ (m + 1) - 1 = m /\ m + 1 \in i..j
    BY <1>1, <1>3, <1>5
  <2>2. growing[m + 1] = growing[m] \o a[m + 1]
    BY <1>2, <2>1
  <2>3. Begins(growing[i], growing[m])
    BY <1>5
  <2>4. Begins(growing[m], growing[m + 1])
    BY <1>1, <1>2, <2>1, <2>2, BeginsOnwards
  <2>5. Begins(growing[i], growing[m + 1])
    BY <1>2, <1>3, <2>1, <2>3, <2>4, BeginsOnwards
  <2> QED
    BY <2>1, <2>5
<1>6. j \in Good
  <2>1. i \in Nat /\ j \in Nat /\ j \in i..j
    BY <1>1, <1>3
  <2> HIDE DEF Good
  <2> QED
    BY <1>4, <1>5, <2>1, FromHereOn
<1> QED
  BY <1>6

\* A text with its length in front.
LEMMA PrefixedFacts ==
    ASSUME NEW x \in ByteStrings
    PROVE  /\ LengthPrefixed(x) \in ByteStrings /\ Len(LengthPrefixed(x)) = Len(x) + 1 /\ Len(x) \in Nat
           /\ LengthPrefixed(x)[1] = Len(x)
           /\ \A k \in 1..Len(x) : LengthPrefixed(x)[k + 1] = x[k]
<1>1. Len(x) \in Nat /\ <<Len(x)>> \in ByteStrings /\ Len(<<Len(x)>>) = 1 /\ <<Len(x)>>[1] = Len(x)
  BY DEF ByteStrings
<1>2. LengthPrefixed(x) = <<Len(x)>> \o x
  BY DEF LengthPrefixed
<1> DEFINE w == <<Len(x)>>
<1> HIDE DEF w
<1>3. /\ w \o x \in ByteStrings /\ Len(w \o x) = Len(w) + Len(x)
      /\ \A k \in 1..Len(w) : (w \o x)[k] = w[k]
      /\ \A k \in 1..Len(x) : (w \o x)[Len(w) + k] = x[k]
  BY <1>1, Concatenated DEF w
<1>5. LengthPrefixed(x) = w \o x /\ Len(w) = 1 /\ w[1] = Len(x)
  BY <1>1, <1>2 DEF w
<1>4. \A k \in 1..Len(x) : k + 1 = 1 + k
  BY <1>1
<1> QED
  BY <1>1, <1>3, <1>4, <1>5

\* After the same beginning, the length says where a value ends.
LEMMA LengthTells ==
    ASSUME NEW p \in ByteStrings, NEW x \in ByteStrings, NEW y \in ByteStrings, NEW z \in ByteStrings,
           Begins(p \o LengthPrefixed(x), z), Begins(p \o LengthPrefixed(y), z)
    PROVE  x = y
<1>1. ASSUME NEW v \in ByteStrings, Begins(p \o LengthPrefixed(v), z)
      PROVE  Len(v) \in Nat /\ z[Len(p) + 1] = Len(v) /\ \A k \in 1..Len(v) : z[Len(p) + (k + 1)] = v[k]
  <2> DEFINE u == LengthPrefixed(v)
  <2>1. u \in ByteStrings /\ Len(u) = Len(v) + 1 /\ Len(v) \in Nat /\ u[1] = Len(v) /\ \A k \in 1..Len(v) : u[k + 1] = v[k]
    BY PrefixedFacts
  <2> HIDE DEF u
  <2>2. /\ Len(p) \in Nat /\ Len(p \o u) = Len(p) + Len(u)
        /\ \A k \in 1..Len(u) : (p \o u)[Len(p) + k] = u[k]
    BY <2>1, Concatenated
  <2>3. \A k \in 1..Len(p \o u) : z[k] = (p \o u)[k]
    BY <1>1 DEF Begins, u
  <2>4. ASSUME NEW k \in 1..Len(u) PROVE z[Len(p) + k] = u[k]
    <3>1. Len(p) + k \in 1..Len(p \o u)
      BY <2>1, <2>2
    <3> QED
      BY <2>2, <2>3, <3>1
  <2>5. 1 \in 1..Len(u) /\ \A k \in 1..Len(v) : k + 1 \in 1..Len(u)
    BY <2>1
  <2> QED
    BY <2>1, <2>4, <2>5
<1>2. Len(x) = Len(y) /\ \A k \in 1..Len(x) : x[k] = y[k]
  BY <1>1
<1> QED
  BY <1>2, SameText

Prefixed(texts) == [i \in DOMAIN texts |-> LengthPrefixed(texts[i])]

\* The texts of a list, each with its length in front of it.
LEMMA PrefixedTexts ==
    ASSUME NEW x \in Seq(ByteStrings)
    PROVE  /\ Prefixed(x) \in Seq(ByteStrings) /\ Len(x) \in Nat /\ Len(Prefixed(x)) = Len(x)
           /\ \A i \in 1..Len(x) : x[i] \in ByteStrings /\ Prefixed(x)[i] = LengthPrefixed(x[i])
<1>1. Len(x) \in Nat /\ DOMAIN x = 1..Len(x) /\ \A i \in 1..Len(x) : x[i] \in ByteStrings
  OBVIOUS
<1>2. \A i \in 1..Len(x) : LengthPrefixed(x[i]) \in ByteStrings
  BY <1>1, PrefixedFacts
<1> QED
  BY <1>1, <1>2 DEF Prefixed

\* Of two lists of values that make the same text, the shorter is how the
\* longer begins.
LEMMA PrefixedAgree ==
    ASSUME NEW x \in Seq(ByteStrings), NEW y \in Seq(ByteStrings), NEW g, NEW h,
           Strings(Prefixed(x), g), Strings(Prefixed(y), h),
           g[Len(x)] = h[Len(y)], Len(x) <= Len(y)
    PROVE  /\ \A i \in 1..Len(x) : x[i] = y[i]
           /\ g[Len(x)] = h[Len(x)]
<1> DEFINE n == Len(x)
           a == Prefixed(x)
           b == Prefixed(y)
           z == g[n]
           Good == {m \in 0..n : g[m] = h[m] /\ \A i \in 1..m : x[i] = y[i]}
<1>1. /\ a \in Seq(ByteStrings) /\ n \in Nat /\ Len(a) = n
      /\ b \in Seq(ByteStrings) /\ Len(y) \in Nat /\ Len(b) = Len(y) /\ n <= Len(y)
      /\ \A i \in 1..n : x[i] \in ByteStrings /\ a[i] = LengthPrefixed(x[i])
      /\ \A i \in 1..Len(y) : y[i] \in ByteStrings /\ b[i] = LengthPrefixed(y[i])
  BY PrefixedTexts
<1>2. /\ g[0] = <<>> /\ \A i \in 1..n : g[i] = g[i - 1] \o a[i]
      /\ h[0] = <<>> /\ \A i \in 1..Len(y) : h[i] = h[i - 1] \o b[i]
      /\ \A i \in 0..n : g[i] \in ByteStrings
      /\ \A i \in 0..Len(y) : h[i] \in ByteStrings
  BY <1>1 DEF Strings
<1>3. z = h[Len(y)]
  OBVIOUS
<1>4. \A i \in 0..n : Begins(g[i], z)
  <2>1. \A i \in 0..n : i \in 0..Len(a) /\ n \in 0..Len(a) /\ i <= n
    BY <1>1
  <2> QED
    BY <1>1, <2>1, StringsGrow
<1>5. \A i \in 0..Len(y) : Begins(h[i], z)
  <2>1. \A i \in 0..Len(y) : i \in 0..Len(b) /\ Len(y) \in 0..Len(b) /\ i <= Len(y)
    BY <1>1
  <2> QED
    BY <1>1, <1>3, <2>1, StringsGrow
<1>6. z \in ByteStrings
  BY <1>1, <1>2
<1> HIDE DEF n, a, b, z
<1>7. 0 \in Good
  BY <1>1, <1>2
<1>8. ASSUME NEW m \in 0..n, m \in Good, m < n PROVE m + 1 \in Good
  <2> DEFINE k == m + 1
  <2>1. k \in 1..n /\ k \in 1..Len(y) /\ k \in 0..n /\ k \in 0..Len(y) /\ k - 1 = m
    BY <1>1, <1>8
  <2>2. g[m] = h[m] /\ g[m] \in ByteStrings /\ \A i \in 1..m : x[i] = y[i]
    BY <1>2, <1>8
  <2>3. \A i \in 1..k : i = k \/ i \in 1..m
    BY <1>1
  <2> HIDE DEF k
  <2>4. g[k] = g[m] \o LengthPrefixed(x[k]) /\ h[k] = g[m] \o LengthPrefixed(y[k])
    BY <1>1, <1>2, <2>1, <2>2
  <2>5. Begins(g[k], z) /\ Begins(h[k], z) /\ x[k] \in ByteStrings /\ y[k] \in ByteStrings
    BY <1>1, <1>4, <1>5, <2>1
  <2>6. x[k] = y[k]
    BY <1>6, <2>2, <2>4, <2>5, LengthTells
  <2>7. g[k] = h[k] /\ \A i \in 1..k : x[i] = y[i]
    BY <2>2, <2>3, <2>4, <2>6
  <2> QED
    BY <2>1, <2>7 DEF k
<1>9. n \in Good
  <2>1. 0 \in Nat /\ n \in 0..n
    BY <1>1
  <2> HIDE DEF Good
  <2> QED
    BY <1>1, <1>7, <1>8, <2>1, FromHereOn
<1> QED
  BY <1>9 DEF n

\* And nothing is left over.
LEMMA NothingLeft ==
    ASSUME NEW x \in Seq(ByteStrings), NEW y \in Seq(ByteStrings), NEW g, NEW h,
           Strings(Prefixed(x), g), Strings(Prefixed(y), h),
           g[Len(x)] = h[Len(y)]
    PROVE  ~(Len(x) < Len(y))
<1> SUFFICES ASSUME Len(x) < Len(y) PROVE FALSE
  OBVIOUS
<1> DEFINE n == Len(x)
           b == Prefixed(y)
<1>1. /\ n \in Nat /\ b \in Seq(ByteStrings) /\ Len(y) \in Nat /\ Len(b) = Len(y) /\ n < Len(y)
      /\ \A i \in 1..Len(y) : y[i] \in ByteStrings /\ b[i] = LengthPrefixed(y[i])
  BY PrefixedTexts
<1>2. g[n] = h[n] /\ g[n] = h[Len(y)]
  BY <1>1, PrefixedAgree
<1>3. /\ \A i \in 1..Len(y) : h[i] = h[i - 1] \o b[i]
      /\ \A i \in 0..Len(y) : h[i] \in ByteStrings
  BY <1>1 DEF Strings
<1>4. \A i \in 0..Len(y) : Begins(h[i], h[Len(y)])
  <2>1. \A i \in 0..Len(y) : i \in 0..Len(b) /\ Len(y) \in 0..Len(b) /\ i <= Len(y)
    BY <1>1
  <2> QED
    BY <1>1, <2>1, StringsGrow
<1> HIDE DEF n, b
<1> DEFINE k == n + 1
<1>5. k \in 1..Len(y) /\ k \in 0..Len(y) /\ n \in 0..Len(y) /\ k - 1 = n
  BY <1>1
<1> HIDE DEF k
<1>6. h[k] = h[n] \o LengthPrefixed(y[k]) /\ y[k] \in ByteStrings /\ h[n] \in ByteStrings
  BY <1>1, <1>3, <1>5
<1>7. LengthPrefixed(y[k]) \in ByteStrings /\ Len(LengthPrefixed(y[k])) = Len(y[k]) + 1 /\ Len(y[k]) \in Nat
  BY <1>6, PrefixedFacts
<1>8. Len(h[k]) = Len(h[n]) + (Len(y[k]) + 1) /\ Len(h[n]) \in Nat
  <2>1. ASSUME NEW s \in ByteStrings, NEW t \in ByteStrings PROVE Len(s) \in Nat /\ Len(s \o t) = Len(s) + Len(t)
    BY Concatenated
  <2>2. Len(h[n]) \in Nat /\ Len(h[n] \o LengthPrefixed(y[k])) = Len(h[n]) + Len(LengthPrefixed(y[k]))
    BY <1>6, <1>7, <2>1
  <2> QED
    BY <1>6, <1>7, <2>2
<1>9. Len(h[k]) <= Len(h[n])
  BY <1>2, <1>4, <1>5 DEF Begins
<1>10. \A p, q, r \in Nat : ~(p + (q + 1) <= p)
  OBVIOUS
<1> QED
  BY <1>7, <1>8, <1>9, <1>10

\* So what values make together says what they are.
LEMMA PrefixedTell ==
    ASSUME NEW x \in Seq(ByteStrings), NEW y \in Seq(ByteStrings),
           FlattenSeq(Prefixed(x)) = FlattenSeq(Prefixed(y))
    PROVE  x = y
<1>1. /\ Prefixed(x) \in Seq(ByteStrings) /\ Len(Prefixed(x)) = Len(x)
      /\ Prefixed(y) \in Seq(ByteStrings) /\ Len(Prefixed(y)) = Len(y)
      /\ Len(x) \in Nat /\ Len(y) \in Nat
  BY PrefixedTexts
<1>2. PICK g : Strings(Prefixed(x), g) /\ FlattenSeq(Prefixed(x)) = g[Len(x)]
  BY <1>1, FlattenStrings
<1>3. PICK h : Strings(Prefixed(y), h) /\ FlattenSeq(Prefixed(y)) = h[Len(y)]
  BY <1>1, FlattenStrings
<1>4. g[Len(x)] = h[Len(y)]
  BY <1>2, <1>3
<1>5. Len(x) = Len(y)
  BY <1>1, <1>2, <1>3, <1>4, NothingLeft
<1>6. \A i \in 1..Len(x) : x[i] = y[i]
  BY <1>1, <1>2, <1>3, <1>4, <1>5, PrefixedAgree
<1> QED
  BY <1>5, <1>6, SeqEqual

\* What is in front of a text, and the text, are known by where it begins.
LEMMA Cancel ==
    ASSUME NEW s \in ByteStrings, NEW t \in ByteStrings, NEW u \in ByteStrings, NEW v \in ByteStrings,
           s \o t = u \o v, Len(s) = Len(u)
    PROVE  s = u /\ t = v
<1>1. /\ Len(s) \in Nat /\ Len(t) \in Nat /\ Len(s \o t) = Len(s) + Len(t)
      /\ \A k \in 1..Len(s) : (s \o t)[k] = s[k]
      /\ \A k \in 1..Len(t) : (s \o t)[Len(s) + k] = t[k]
  BY Concatenated
<1>2. /\ Len(u) \in Nat /\ Len(v) \in Nat /\ Len(u \o v) = Len(u) + Len(v)
      /\ \A k \in 1..Len(u) : (u \o v)[k] = u[k]
      /\ \A k \in 1..Len(v) : (u \o v)[Len(u) + k] = v[k]
  BY Concatenated
<1>3. Len(t) = Len(v)
  <2>1. Len(s) + Len(t) = Len(s) + Len(v)
    BY <1>1, <1>2
  <2> QED
    BY <1>1, <1>2, <2>1
<1>4. \A k \in 1..Len(s) : s[k] = u[k]
  BY <1>1, <1>2
<1>5. \A k \in 1..Len(t) : t[k] = v[k]
  BY <1>1, <1>2, <1>3
<1> QED
  BY <1>3, <1>4, <1>5, SameText

\* What the values of a list make is a text.
LEMMA FlatIsText ==
    ASSUME NEW x \in Seq(ByteStrings)
    PROVE  FlattenSeq(Prefixed(x)) \in ByteStrings
<1>1. Prefixed(x) \in Seq(ByteStrings) /\ Len(Prefixed(x)) \in Nat
  BY PrefixedTexts
<1>2. PICK g : Strings(Prefixed(x), g) /\ FlattenSeq(Prefixed(x)) = g[Len(Prefixed(x))]
  BY <1>1, FlattenStrings
<1> QED
  BY <1>1, <1>2 DEF Strings

-----------------------------------------------------------------------------
(* Rows and records *)

Rows == {row \in Seq(ByteStrings \cup {Null}) : row # <<>>}

\* There are six groups of rows, each of a kind of its own.
LEMMA KindsDiffer ==
    /\ DOMAIN Groups = 1..6 /\ Len(Groups) = 6
    /\ \A i \in 1..6 : Groups[i] \in Kinds
    /\ \A i, j \in 1..6 : Groups[i] = Groups[j] => i = j
    /\ \A k \in Kinds : \E i \in 1..6 : Groups[i] = k
<1>1. DOMAIN Groups = 1..6 /\ Len(Groups) = 6
  BY DEF Groups
<1>2. \A i, j \in 1..6 : Groups[i] = Groups[j] => i = j
  <2>1. /\ Groups[1] = "table" /\ Groups[2] = "column" /\ Groups[3] = "index"
        /\ Groups[4] = "constraint" /\ Groups[5] = "check" /\ Groups[6] = "referential"
    BY DEF Groups
  <2>2. \A i \in 1..6 : i = 1 \/ i = 2 \/ i = 3 \/ i = 4 \/ i = 5 \/ i = 6
    OBVIOUS
  <2> QED
    BY <2>1, <2>2
<1> QED
  BY <1>1, <1>2 DEF Kinds, Range

\* The name a record starts with tells its kind.
LEMMA KindNames ==
    ASSUME NEW k \in Kinds
    PROVE  /\ KindName(k) \in ByteStrings /\ Len(KindName(k)) = 1
           /\ \A l \in Kinds : KindName(k) = KindName(l) => k = l
<1> DEFINE At(l) == CHOOSE i \in DOMAIN Groups : Groups[i] = l
<1>1. \A l \in Kinds : At(l) \in 1..6 /\ Groups[At(l)] = l
  BY KindsDiffer
<1>2. \A l \in Kinds : KindName(l) = <<At(l)>>
  BY DEF KindName
<1> HIDE DEF At
<1>3. At(k) \in Nat /\ KindName(k) = <<At(k)>>
  BY <1>1, <1>2
<1>4. KindName(k) \in ByteStrings /\ Len(KindName(k)) = 1
  BY <1>3 DEF ByteStrings
<1>5. ASSUME NEW l \in Kinds, KindName(k) = KindName(l) PROVE k = l
  <2>1. At(k) = At(l)
    BY <1>2, <1>5
  <2> QED
    BY <1>1, <2>1
<1> QED
  BY <1>4, <1>5

\* The SELECT list makes texts of a row.
LEMMA FieldsOfRow ==
    ASSUME NEW kind, NEW row \in Rows
    PROVE  /\ Len(row) \in Nat \ {0} /\ DOMAIN row = 1..Len(row)
           /\ \A i \in 1..Len(row) : row[i] \in ByteStrings \cup {Null}
           /\ Fields(kind, row) \in Seq(ByteStrings)
           /\ Len(Fields(kind, row)) = IF kind = "column" THEN Len(row) + 1 ELSE Len(row)
           /\ \A i \in 1..Len(row) : Fields(kind, row)[i] = Coalesce(row[i])
           /\ kind = "column" => Fields(kind, row)[Len(row) + 1] = IF row[Len(row)] = Null THEN <<1>> ELSE <<0>>
<1> DEFINE n == Len(row)
           text == [i \in DOMAIN row |-> Coalesce(row[i])]
           flag == IF row[n] = Null THEN <<1>> ELSE <<0>>
<1>1. n \in Nat \ {0} /\ DOMAIN row = 1..n /\ \A i \in 1..n : row[i] \in ByteStrings \cup {Null}
  BY DEF Rows
<1>2. <<>> \in ByteStrings /\ flag \in ByteStrings
  BY DEF ByteStrings
<1>3. \A i \in 1..n : Coalesce(row[i]) \in ByteStrings
  BY <1>1, <1>2 DEF Coalesce
<1>4. Fields(kind, row) = IF kind = "column" THEN Append(text, flag) ELSE text
  BY DEF Fields, Last
<1>5. text \in Seq(ByteStrings) /\ Len(text) = n /\ \A i \in 1..n : text[i] = Coalesce(row[i])
  BY <1>1, <1>3
<1> HIDE DEF n, text, flag
<1>6. /\ Append(text, flag) \in Seq(ByteStrings) /\ Len(Append(text, flag)) = n + 1
      /\ \A i \in 1..n : Append(text, flag)[i] = text[i]
      /\ Append(text, flag)[n + 1] = flag
  BY <1>1, <1>2, <1>5
<1> QED
  BY <1>1, <1>4, <1>5, <1>6 DEF n, flag

\* A name of one letter takes two places, its length in front of it.
LEMMA OneLetter ==
    ASSUME NEW t \in ByteStrings, Len(t) = 1
    PROVE  LengthPrefixed(t) \in ByteStrings /\ Len(LengthPrefixed(t)) = 2 /\ LengthPrefixed(t)[2] = t[1]
<1>1. 1 \in 1..Len(t) /\ 1 + 1 = 2
  OBVIOUS
<1>2. LengthPrefixed(t)[1 + 1] = t[1]
  BY <1>1, PrefixedFacts
<1>3. Len(LengthPrefixed(t)) = Len(t) + 1 /\ LengthPrefixed(t) \in ByteStrings
  BY PrefixedFacts
<1>4. Len(LengthPrefixed(t)) = 2
  BY <1>1, <1>3
<1> QED
  BY <1>1, <1>2, <1>3, <1>4

\* A record is a text that begins with three numbers, the second its kind and
\* the third the number of its fields.
LEMMA RecordIsText ==
    ASSUME NEW kind \in Kinds, NEW fields \in Seq(ByteStrings)
    PROVE  /\ LengthPrefixed(KindName(kind)) \o <<Len(fields)>> \in ByteStrings
           /\ Len(LengthPrefixed(KindName(kind)) \o <<Len(fields)>>) = 3
           /\ FlattenSeq(Prefixed(fields)) \in ByteStrings
<1>1. LengthPrefixed(KindName(kind)) \in ByteStrings /\ Len(LengthPrefixed(KindName(kind))) = 2
  BY KindNames, OneLetter
<1>2. <<Len(fields)>> \in ByteStrings /\ Len(<<Len(fields)>>) = 1
  <2>1. Len(fields) \in Nat
    OBVIOUS
  <2> QED
    BY <2>1 DEF ByteStrings
<1>3. \A s, t \in ByteStrings : Len(s) = 2 /\ Len(t) = 1 => s \o t \in ByteStrings /\ Len(s \o t) = 3
  <2> SUFFICES ASSUME NEW s \in ByteStrings, NEW t \in ByteStrings, Len(s) = 2, Len(t) = 1
               PROVE  s \o t \in ByteStrings /\ Len(s \o t) = 3
    OBVIOUS
  <2>1. s \o t \in ByteStrings /\ Len(s \o t) = Len(s) + Len(t)
    BY Concatenated
  <2>2. Len(s) + Len(t) = 3
    OBVIOUS
  <2> QED
    BY <2>1, <2>2
<1> QED
  BY <1>1, <1>2, <1>3, FlatIsText

\* A record says what its kind and its fields are.
LEMMA RecordTells ==
    ASSUME NEW k \in Kinds, NEW l \in Kinds, NEW row \in Rows, NEW other \in Rows
    PROVE  /\ Record(k, row) \in ByteStrings
           /\ Record(k, row) = Record(l, other) => k = l /\ Fields(k, row) = Fields(l, other)
<1> DEFINE Heading(kind, fields) == LengthPrefixed(KindName(kind)) \o <<Len(fields)>>
           Body(fields) == FlattenSeq(Prefixed(fields))
           x == Fields(k, row)
           y == Fields(l, other)
<1>1. x \in Seq(ByteStrings) /\ y \in Seq(ByteStrings)
  BY FieldsOfRow
<1>2. Record(k, row) = Heading(k, x) \o Body(x) /\ Record(l, other) = Heading(l, y) \o Body(y)
  BY DEF Record, Prefixed
<1> HIDE DEF x, y
<1>3. /\ Heading(k, x) \in ByteStrings /\ Len(Heading(k, x)) = 3 /\ Body(x) \in ByteStrings
      /\ Heading(l, y) \in ByteStrings /\ Len(Heading(l, y)) = 3 /\ Body(y) \in ByteStrings
  BY <1>1, RecordIsText
<1>4. Record(k, row) \in ByteStrings
  BY <1>2, <1>3, Concatenated
<1>5. ASSUME Record(k, row) = Record(l, other) PROVE k = l /\ x = y
  <2>1. Heading(k, x) = Heading(l, y) /\ Body(x) = Body(y)
    <3> HIDE DEF Heading, Body
    <3> QED
      BY <1>2, <1>3, <1>5, Cancel
  <2>2. x = y
    BY <1>1, <2>1, PrefixedTell
  <2>3. k = l
    <3> DEFINE a == KindName(k)
               b == KindName(l)
               c == <<Len(x)>>
               d == <<Len(y)>>
    <3>1. /\ a \in ByteStrings /\ Len(a) = 1 /\ b \in ByteStrings /\ Len(b) = 1
          /\ c \in ByteStrings /\ d \in ByteStrings
      <4>1. Len(x) \in Nat /\ Len(y) \in Nat
        BY <1>1
      <4> QED
        BY <4>1, KindNames DEF ByteStrings
    <3>2. LengthPrefixed(a) \o c = LengthPrefixed(b) \o d
      BY <2>1
    <3>3. a = b => k = l
      BY KindNames
    <3> HIDE DEF a, b, c, d
    <3>4. /\ LengthPrefixed(a) \in ByteStrings /\ LengthPrefixed(b) \in ByteStrings
          /\ Len(LengthPrefixed(a)) = Len(LengthPrefixed(b))
          /\ LengthPrefixed(a)[2] = a[1] /\ LengthPrefixed(b)[2] = b[1]
      BY <3>1, OneLetter
    <3>5. LengthPrefixed(a) = LengthPrefixed(b)
      BY <3>1, <3>2, <3>4, Cancel
    <3>6. a[1] = b[1]
      BY <3>4, <3>5
    <3>7. \A i \in 1..1 : a[i] = b[i]
      BY <3>6
    <3>8. a = b
      BY <3>1, <3>7, SameText
    <3> QED
      BY <3>3, <3>8
  <2> QED
    BY <2>2, <2>3
<1> QED
  BY <1>4, <1>5 DEF x, y

\* What catalogs have are rows.
LEMMA CatalogRows ==
    ASSUME NEW c \in Catalogs, NEW k \in Kinds
    PROVE  IsFiniteSet(c[k]) /\ (\A s \in SUBSET c[k] : s # Null) /\ c[k] \subseteq Rows
BY FingerprintAssumption DEF Rows, ByteStrings

\* And the fields say what the row is, of whatever catalog.
LEMMA RecordsDiffer ==
    ASSUME NEW c \in Catalogs, NEW d \in Catalogs, NEW k \in Kinds, NEW l \in Kinds,
           NEW row \in c[k], NEW other \in d[l], Record(k, row) = Record(l, other)
    PROVE  k = l /\ row = other
<1>1. row \in Rows /\ other \in Rows
  BY CatalogRows
<1>2. k = l /\ Fields(k, row) = Fields(k, other)
  BY <1>1, RecordTells
<1> DEFINE n == Len(row)
<1>3. /\ n \in Nat \ {0} /\ DOMAIN row = 1..n /\ \A i \in 1..n : row[i] \in ByteStrings \cup {Null}
      /\ DOMAIN other = 1..Len(other) /\ \A i \in 1..Len(other) : other[i] \in ByteStrings \cup {Null}
      /\ Len(other) \in Nat \ {0}
      /\ Len(other) = n
  BY <1>1, <1>2, FieldsOfRow
<1>4. \A i \in 1..n : Coalesce(row[i]) = Coalesce(other[i])
  BY <1>1, <1>2, <1>3, FieldsOfRow
<1>5. k = "column" => (row[n] = Null <=> other[n] = Null)
  <2>1. ASSUME k = "column" PROVE row[n] = Null <=> other[n] = Null
    <3>1. (IF row[n] = Null THEN <<1>> ELSE <<0>>) = (IF other[n] = Null THEN <<1>> ELSE <<0>>)
      BY <1>1, <1>2, <1>3, <2>1, FieldsOfRow
    <3>2. <<1>> # <<0>>
      OBVIOUS
    <3> QED
      BY <3>1, <3>2
  <2> QED
    BY <2>1
<1> HIDE DEF n
<1>6. Null \notin ByteStrings
  BY FingerprintAssumption DEF ByteStrings
<1>7. \A i \in 1..n : /\ row[i] = Null /\ other[i] = <<>> => k = "column" /\ i = n
                      /\ other[i] = Null /\ row[i] = <<>> => k = "column" /\ i = n
  <2>1. \A i \in DOMAIN row \cap DOMAIN other : row[i] = Null /\ other[i] = <<>> => k = "column" /\ i = Len(row)
    BY <1>2, FingerprintAssumption
  <2>2. \A i \in DOMAIN other \cap DOMAIN row : other[i] = Null /\ row[i] = <<>> => k = "column" /\ i = Len(other)
    BY <1>2, FingerprintAssumption
  <2> QED
    BY <1>3, <2>1, <2>2 DEF n
<1>8. ASSUME NEW i \in 1..n PROVE row[i] = other[i]
  <2>1. CASE row[i] = Null /\ other[i] # Null
    BY <1>4, <1>5, <1>6, <1>7, <2>1 DEF Coalesce
  <2>2. CASE row[i] # Null /\ other[i] = Null
    BY <1>4, <1>5, <1>6, <1>7, <2>2 DEF Coalesce
  <2>3. CASE row[i] # Null /\ other[i] # Null
    BY <1>4, <2>3 DEF Coalesce
  <2> QED
    BY <2>1, <2>2, <2>3
<1>9. row \in Seq(ByteStrings \cup {Null}) /\ other \in Seq(ByteStrings \cup {Null})
  BY <1>1 DEF Rows
<1> QED
  BY <1>2, <1>3, <1>8, <1>9, SeqEqual DEF n

-----------------------------------------------------------------------------
(* The order of records *)

\* Where a text comes before another: they agree up to there, and then it ends
\* or has the smaller number.
FirstAt(a, b, m) ==
    /\ m \in Nat \ {0} /\ m - 1 <= Len(a) /\ m <= Len(b)
    /\ \A i \in 1..(m - 1) : a[i] = b[i]
    /\ m = Len(a) + 1 \/ (m <= Len(a) /\ a[m] < b[m])

\* One text is before another if there is a first place they differ at, or it
\* only begins the other; of two texts, one is before the other.
LEMMA BeforeMeans ==
    ASSUME NEW a \in ByteStrings, NEW b \in ByteStrings
    PROVE  /\ Before(a, b) <=> \E m : FirstAt(a, b, m)
           /\ a # b => Before(a, b) \/ Before(b, a)
<1> DEFINE differ == {i \in DOMAIN a \cap DOMAIN b : a[i] # b[i]}
           common == {i \in DOMAIN b \cap DOMAIN a : b[i] # a[i]}
<1>1. /\ Len(a) \in Nat /\ DOMAIN a = 1..Len(a) /\ \A i \in 1..Len(a) : a[i] \in Nat
      /\ Len(b) \in Nat /\ DOMAIN b = 1..Len(b) /\ \A i \in 1..Len(b) : b[i] \in Nat
  BY DEF ByteStrings
<1>2. common = differ
  OBVIOUS
<1>3. /\ Before(a, b) <=> IF differ = {} THEN Len(a) < Len(b) ELSE a[Min(differ)] < b[Min(differ)]
      /\ Before(b, a) <=> IF differ = {} THEN Len(b) < Len(a) ELSE b[Min(differ)] < a[Min(differ)]
  <2>1. Before(a, b) <=> IF differ = {} THEN Len(a) < Len(b) ELSE a[Min(differ)] < b[Min(differ)]
    BY DEF Before
  <2>2. Before(b, a) <=> IF common = {} THEN Len(b) < Len(a) ELSE b[Min(common)] < a[Min(common)]
    BY DEF Before
  <2> QED
    BY <1>2, <2>1, <2>2
<1>4. \A i : i \in differ <=> i \in 1..Len(a) /\ i \in 1..Len(b) /\ a[i] # b[i]
  BY <1>1
<1>5. differ # {} => Min(differ) \in differ /\ \A i \in differ : Min(differ) <= i
  <2> SUFFICES ASSUME differ # {} PROVE Min(differ) \in differ /\ \A i \in differ : Min(differ) <= i
    OBVIOUS
  <2>1. differ \in SUBSET Nat
    BY <1>4
  <2> HIDE DEF differ
  <2>2. \E m \in differ : \A i \in differ : m <= i
    BY <2>1, LeastOf
  <2> QED
    BY <2>2 DEF Min
<1> HIDE DEF differ, common
<1>6. CASE differ = {}
  <2>1. \A i \in 1..Len(a) : i <= Len(b) => a[i] = b[i]
    BY <1>1, <1>4, <1>6
  <2>2. ASSUME Len(a) < Len(b) PROVE FirstAt(a, b, Len(a) + 1)
    BY <1>1, <2>1, <2>2 DEF FirstAt
  <2>3. ASSUME NEW m, FirstAt(a, b, m) PROVE Len(a) < Len(b)
    BY <1>1, <2>1, <2>3 DEF FirstAt
  <2>4. ASSUME Len(a) = Len(b) PROVE a = b
    BY <1>1, <2>1, <2>4, SameText
  <2>5. (Before(a, b) <=> Len(a) < Len(b)) /\ (Before(b, a) <=> Len(b) < Len(a))
    BY <1>3, <1>6
  <2>6. a # b => Len(a) < Len(b) \/ Len(b) < Len(a)
    <3>1. \A p, q \in Nat : p = q \/ p < q \/ q < p
      OBVIOUS
    <3> QED
      BY <1>1, <2>4, <3>1
  <2>7. Len(a) < Len(b) <=> \E m : FirstAt(a, b, m)
    BY <2>2, <2>3
  <2> QED
    BY <2>5, <2>6, <2>7
<1>7. CASE differ # {}
  <2> DEFINE d == Min(differ)
  <2>1. d \in 1..Len(a) /\ d \in 1..Len(b) /\ a[d] # b[d] /\ d \in Nat \ {0}
    BY <1>1, <1>4, <1>5, <1>7
  <2>2. \A i \in 1..(d - 1) : a[i] = b[i]
    <3> SUFFICES ASSUME NEW i \in 1..(d - 1), a[i] # b[i] PROVE FALSE
      OBVIOUS
    <3>1. i \in 1..Len(a) /\ i \in 1..Len(b) /\ ~(d <= i)
      BY <1>1, <2>1
    <3> QED
      BY <1>4, <1>5, <1>7, <3>1
  <2>3. (Before(a, b) <=> a[d] < b[d]) /\ (Before(b, a) <=> b[d] < a[d])
    BY <1>3, <1>7
  <2> HIDE DEF d
  <2>4. ASSUME a[d] < b[d] PROVE FirstAt(a, b, d)
    BY <1>1, <2>1, <2>2, <2>4 DEF FirstAt
  <2>5. ASSUME NEW m, FirstAt(a, b, m) PROVE a[d] < b[d]
    <3>1. m <= d
      BY <1>1, <2>1, <2>5 DEF FirstAt
    <3>2. m >= d
      BY <1>1, <2>1, <2>2, <2>5 DEF FirstAt
    <3> QED
      BY <1>1, <2>1, <2>5, <3>1, <3>2 DEF FirstAt
  <2>6. a[d] < b[d] \/ b[d] < a[d]
    BY <1>1, <2>1
  <2> QED
    BY <2>3, <2>4, <2>5, <2>6
<1> QED
  BY <1>6, <1>7

\* bytes.Compare is a strict order of all texts.
LEMMA BeforeIsOrder ==
    ASSUME NEW a \in ByteStrings, NEW b \in ByteStrings, NEW c \in ByteStrings
    PROVE  /\ ~Before(a, a)
           /\ Before(a, b) /\ Before(b, c) => Before(a, c)
           /\ a # b => Before(a, b) \/ Before(b, a)
<1>1. /\ Len(a) \in Nat /\ \A i \in 1..Len(a) : a[i] \in Nat
      /\ Len(b) \in Nat /\ \A i \in 1..Len(b) : b[i] \in Nat
      /\ Len(c) \in Nat /\ \A i \in 1..Len(c) : c[i] \in Nat
  BY DEF ByteStrings
<1>2. ~Before(a, a)
  <2>1. \A m : ~FirstAt(a, a, m)
    BY <1>1 DEF FirstAt
  <2> QED
    BY <2>1, BeforeMeans
<1>3. ASSUME Before(a, b), Before(b, c) PROVE Before(a, c)
  <2>1. PICK m : FirstAt(a, b, m)
    BY <1>3, BeforeMeans
  <2>2. PICK k : FirstAt(b, c, k)
    BY <1>3, BeforeMeans
  <2>3. CASE m < k
    <3>1. FirstAt(a, c, m)
      BY <1>1, <2>1, <2>2, <2>3 DEF FirstAt
    <3> QED
      BY <3>1, BeforeMeans
  <2>4. CASE k < m
    <3>1. FirstAt(a, c, k)
      BY <1>1, <2>1, <2>2, <2>4 DEF FirstAt
    <3> QED
      BY <3>1, BeforeMeans
  <2>5. CASE k = m
    <3>1. FirstAt(a, c, k)
      BY <1>1, <2>1, <2>2, <2>5 DEF FirstAt
    <3> QED
      BY <3>1, BeforeMeans
  <2> QED
    BY <2>1, <2>2, <2>3, <2>4, <2>5 DEF FirstAt
<1> QED
  BY <1>2, <1>3, BeforeMeans

\* How many come before a member of a set.
Place(X, x) == Cardinality({y \in X : Before(y, x)})

\* Every place up to the last is taken by one member.
LEMMA PlacesAreTaken ==
    ASSUME NEW X \in SUBSET ByteStrings, IsFiniteSet(X)
    PROVE  /\ Cardinality(X) \in Nat
           /\ \A x \in X : Place(X, x) \in 0..(Cardinality(X) - 1)
           /\ \A x, y \in X : Place(X, x) = Place(X, y) => x = y
           /\ \A p \in 0..(Cardinality(X) - 1) : \E x \in X : Place(X, x) = p
<1> DEFINE n == Cardinality(X)
           Lower(x) == {y \in X : Before(y, x)}
           f == [x \in X |-> Place(X, x)]
<1>1. n \in Nat
  BY FS_CardinalityType
<1>2. \A x \in X : IsFiniteSet(Lower(x)) /\ Cardinality(Lower(x)) \in Nat /\ Place(X, x) = Cardinality(Lower(x))
  <2> SUFFICES ASSUME NEW x \in X
               PROVE  IsFiniteSet(Lower(x)) /\ Cardinality(Lower(x)) \in Nat /\ Place(X, x) = Cardinality(Lower(x))
    OBVIOUS
  <2>1. Lower(x) \in SUBSET X
    OBVIOUS
  <2>2. IsFiniteSet(Lower(x))
    BY <2>1, FS_Subset
  <2> QED
    BY <2>2, FS_CardinalityType DEF Place
<1>3. ASSUME NEW x \in X, NEW S \in SUBSET X, Lower(x) \in SUBSET S, x \in S
      PROVE  Cardinality(Lower(x)) < Cardinality(S) /\ Cardinality(S) \in Nat
  <2>1. IsFiniteSet(S) /\ Cardinality(S) \in Nat
    BY FS_Subset, FS_CardinalityType
  <2>2. x \notin Lower(x)
    BY BeforeIsOrder
  <2>3. Cardinality(Lower(x)) <= Cardinality(S) /\ (Cardinality(S) = Cardinality(Lower(x)) => S = Lower(x))
    <3> HIDE DEF Lower
    <3> QED
      BY <1>3, <2>1, FS_Subset
  <2>4. S # Lower(x)
    BY <1>3, <2>2
  <2> HIDE DEF Lower
  <2> QED
    BY <1>2, <2>1, <2>3, <2>4
<1>4. \A x \in X : Place(X, x) \in 0..(n - 1)
  <2> SUFFICES ASSUME NEW x \in X PROVE Place(X, x) \in 0..(n - 1)
    OBVIOUS
  <2>1. Cardinality(Lower(x)) < n
    <3>1. Lower(x) \in SUBSET X /\ X \in SUBSET X
      OBVIOUS
    <3> HIDE DEF Lower
    <3> QED
      BY <1>3, <3>1
  <2> HIDE DEF Lower, n
  <2> QED
    BY <1>1, <1>2, <2>1
<1>5. \A x, y \in X : Before(x, y) => Place(X, x) < Place(X, y)
  <2> SUFFICES ASSUME NEW x \in X, NEW y \in X, Before(x, y) PROVE Place(X, x) < Place(X, y)
    OBVIOUS
  <2>1. x \in Lower(y) /\ Lower(y) \in SUBSET X
    OBVIOUS
  <2>2. Lower(x) \in SUBSET Lower(y)
    BY BeforeIsOrder
  <2> HIDE DEF Lower
  <2> QED
    BY <1>2, <1>3, <2>1, <2>2
<1>6. ASSUME NEW x \in X, NEW y \in X, Place(X, x) = Place(X, y) PROVE x = y
  <2>1. Place(X, x) \in Nat /\ Place(X, y) \in Nat
    BY <1>2
  <2>2. ~Before(x, y) /\ ~Before(y, x)
    BY <1>5, <1>6, <2>1
  <2> QED
    BY <2>2, BeforeIsOrder
<1>7. ASSUME NEW p \in 0..(n - 1) PROVE \E x \in X : Place(X, x) = p
  <2>1. f \in Injection(X, 0..(n - 1))
    <3> HIDE DEF n
    <3> QED
      BY <1>4, <1>6 DEF Injection, IsInjective
  <2>2. IsFiniteSet(0..(n - 1)) /\ Cardinality(0..(n - 1)) = n
    <3> HIDE DEF n
    <3>1. 0 \in Int /\ n - 1 \in Int
      BY <1>1
    <3>2. IsFiniteSet(0..(n - 1)) /\ Cardinality(0..(n - 1)) = IF 0 > n - 1 THEN 0 ELSE (n - 1) - 0 + 1
      BY <3>1, FS_Interval
    <3> QED
      BY <1>1, <3>2
  <2>3. f \in Surjection(X, 0..(n - 1))
    <3> HIDE DEF f
    <3> QED
      BY <2>1, <2>2, FS_Injection
  <2> QED
    BY <2>3 DEF Surjection
<1> QED
  BY <1>1, <1>4, <1>6, <1>7

-----------------------------------------------------------------------------
(* What is hashed *)

\* A list of records that has each of a set's once.
Lists(rs, X) ==
    /\ rs \in Seq(ByteStrings) /\ X = {rs[i] : i \in 1..Len(rs)}
    /\ \A i, j \in 1..Len(rs) : rs[i] = rs[j] => i = j

\* The sort puts each record in its place, whatever order they came in.
LEMMA SortedPlaces ==
    ASSUME NEW rs, NEW X, Lists(rs, X)
    PROVE  /\ X \in SUBSET ByteStrings /\ IsFiniteSet(X) /\ Cardinality(X) = Len(rs)
           /\ Sorted(rs) \in Seq(ByteStrings) /\ Len(Sorted(rs)) = Len(rs)
           /\ \A i \in 1..Len(rs) : Sorted(rs)[i] \in X /\ Place(X, Sorted(rs)[i]) = i - 1
<1> DEFINE n == Len(rs)
           Ahead(j) == {k \in DOMAIN rs : Before(rs[k], rs[j]) \/ (rs[k] = rs[j] /\ k < j)}
           Lower(x) == {y \in X : Before(y, x)}
           pick(i) == CHOOSE j \in DOMAIN rs : Cardinality(Ahead(j)) = i - 1
<1>1. n \in Nat /\ DOMAIN rs = 1..n /\ \A i \in 1..n : rs[i] \in ByteStrings /\ rs[i] \in X
  BY DEF Lists
<1>2. /\ \A x \in X : \E i \in 1..n : rs[i] = x
      /\ \A i, j \in 1..n : rs[i] = rs[j] => i = j
  BY DEF Lists
<1>3. X \in SUBSET ByteStrings
  BY <1>1, <1>2
<1>4. Sorted(rs) = [i \in 1..n |-> rs[pick(i)]]
  BY <1>1 DEF Sorted
<1>5. IsFiniteSet(1..n) /\ Cardinality(1..n) = n
  <2>1. 1 \in Int /\ n \in Int
    BY <1>1
  <2> HIDE DEF n
  <2>2. IsFiniteSet(1..n) /\ Cardinality(1..n) = IF 1 > n THEN 0 ELSE n - 1 + 1
    BY <2>1, FS_Interval
  <2> QED
    BY <1>1, <2>2
<1> HIDE DEF n
<1>6. IsFiniteSet(X) /\ Cardinality(X) = n
  <2> DEFINE f == [i \in 1..n |-> rs[i]]
  <2>1. f \in [1..n -> X] /\ \A i \in 1..n : f[i] = rs[i]
    BY <1>1
  <2> HIDE DEF f
  <2>2. f \in Bijection(1..n, X)
    BY <1>2, <2>1 DEF Bijection, Injection, Surjection, IsInjective
  <2>3. ExistsBijection(1..n, X)
    BY <2>2 DEF ExistsBijection
  <2> QED
    BY <1>5, <2>3, FS_Bijection
<1>7. ASSUME NEW j \in 1..n PROVE Cardinality(Ahead(j)) = Place(X, rs[j])
  <2> DEFINE A == Ahead(j)
             L == Lower(rs[j])
             f == [k \in A |-> rs[k]]
  <2>1. \A k : k \in A <=> k \in 1..n /\ Before(rs[k], rs[j])
    <3>1. ASSUME NEW k \in 1..n, rs[k] = rs[j] PROVE ~(k < j)
      BY <1>1, <1>2, <1>7, <3>1
    <3> QED
      BY <1>1, <3>1
  <2>2. \A x : x \in L <=> x \in X /\ Before(x, rs[j])
    OBVIOUS
  <2>3. (\A k \in A : f[k] = rs[k]) /\ DOMAIN f = A /\ f = [k \in A |-> f[k]]
    OBVIOUS
  <2> HIDE DEF A, L, f
  <2>4. f \in [A -> L]
    BY <1>1, <2>1, <2>2, <2>3
  <2>5. f \in Bijection(A, L)
    <3>1. \A k, m \in A : f[k] = f[m] => k = m
      BY <1>2, <2>1, <2>3
    <3>2. \A x \in L : \E k \in A : f[k] = x
      BY <1>2, <2>1, <2>2, <2>3
    <3> QED
      BY <2>4, <3>1, <3>2 DEF Bijection, Injection, Surjection, IsInjective
  <2>6. IsFiniteSet(A)
    <3>1. A \in SUBSET (1..n)
      BY <2>1
    <3> QED
      BY <1>5, <3>1, FS_Subset
  <2>7. Cardinality(L) = Cardinality(A)
    <3>1. ExistsBijection(A, L)
      BY <2>5 DEF ExistsBijection
    <3> QED
      BY <2>6, <3>1, FS_Bijection
  <2> QED
    BY <2>7 DEF A, L, Place
<1>8. ASSUME NEW i \in 1..n PROVE pick(i) \in 1..n /\ Cardinality(Ahead(pick(i))) = i - 1
  <2>1. i - 1 \in 0..(n - 1)
    BY <1>1
  <2>2. PICK x \in X : Place(X, x) = i - 1
    BY <1>3, <1>6, <2>1, PlacesAreTaken
  <2>3. PICK j \in 1..n : rs[j] = x
    BY <1>2
  <2>4. Cardinality(Ahead(j)) = i - 1
    BY <1>7, <2>2, <2>3
  <2> HIDE DEF Ahead
  <2> QED
    BY <1>1, <2>4
<1> HIDE DEF pick, Ahead
<1>9. ASSUME NEW i \in 1..n
      PROVE  /\ Sorted(rs)[i] \in ByteStrings /\ Sorted(rs)[i] \in X
             /\ Place(X, Sorted(rs)[i]) = i - 1
  <2>1. Sorted(rs)[i] = rs[pick(i)]
    BY <1>4
  <2> QED
    BY <1>1, <1>7, <1>8, <2>1
<1>10. Sorted(rs) \in Seq(ByteStrings) /\ Len(Sorted(rs)) = n
  <2>1. DOMAIN Sorted(rs) = 1..n
    BY <1>4
  <2>2. Sorted(rs) \in [1..n -> ByteStrings]
    BY <1>1, <1>4, <1>8
  <2> QED
    BY <1>1, <2>1, <2>2
<1> QED
  BY <1>3, <1>6, <1>9, <1>10 DEF n

\* What is hashed is the same exactly for the same set of records.
LEMMA HashTells ==
    ASSUME NEW rs, NEW X, Lists(rs, X), NEW qs, NEW Y, Lists(qs, Y)
    PROVE  /\ HashSchemaRecords(rs) \in ByteStrings
           /\ HashSchemaRecords(rs) = HashSchemaRecords(qs) <=> X = Y
<1> DEFINE s == Sorted(rs)
           t == Sorted(qs)
<1>1. /\ X \in SUBSET ByteStrings /\ IsFiniteSet(X) /\ Cardinality(X) = Len(rs)
      /\ s \in Seq(ByteStrings) /\ Len(s) = Len(rs)
      /\ \A i \in 1..Len(rs) : s[i] \in X /\ Place(X, s[i]) = i - 1
  BY SortedPlaces
<1>2. /\ Y \in SUBSET ByteStrings /\ IsFiniteSet(Y) /\ Cardinality(Y) = Len(qs)
      /\ t \in Seq(ByteStrings) /\ Len(t) = Len(qs)
      /\ \A i \in 1..Len(qs) : t[i] \in Y /\ Place(Y, t[i]) = i - 1
  BY SortedPlaces
<1>3. HashSchemaRecords(rs) = FlattenSeq(Prefixed(s)) /\ HashSchemaRecords(qs) = FlattenSeq(Prefixed(t))
  BY DEF HashSchemaRecords, Prefixed
<1> HIDE DEF s, t
<1>4. HashSchemaRecords(rs) = HashSchemaRecords(qs) <=> s = t
  BY <1>1, <1>2, <1>3, PrefixedTell
<1>5. ASSUME X = Y PROVE s = t
  <2>1. ASSUME NEW i \in 1..Len(s) PROVE s[i] = t[i]
    <3>1. s[i] \in X /\ t[i] \in X /\ Place(X, s[i]) = i - 1 /\ Place(X, t[i]) = i - 1
      BY <1>1, <1>2, <1>5, <2>1
    <3> QED
      BY <1>1, <3>1, PlacesAreTaken
  <2> QED
    BY <1>1, <1>2, <1>5, <2>1, SeqEqual
<1>6. ASSUME s = t PROVE X = Y
  <2>1. ASSUME NEW Z, NEW u, Z \in SUBSET ByteStrings, IsFiniteSet(Z), Cardinality(Z) = Len(u),
               \A i \in 1..Len(u) : u[i] \in Z /\ Place(Z, u[i]) = i - 1
        PROVE  Z = {u[i] : i \in 1..Len(u)}
    <3> SUFFICES ASSUME NEW x \in Z PROVE \E i \in 1..Len(u) : x = u[i]
      BY <2>1
    <3>1. Place(Z, x) \in 0..(Cardinality(Z) - 1) /\ Cardinality(Z) \in Nat
      BY <2>1, PlacesAreTaken
    <3> DEFINE i == Place(Z, x) + 1
    <3>2. i \in 1..Len(u) /\ Place(Z, x) = i - 1
      BY <2>1, <3>1
    <3> HIDE DEF i
    <3>3. u[i] \in Z /\ Place(Z, u[i]) = i - 1
      BY <2>1, <3>2
    <3>4. x = u[i]
      BY <2>1, <3>2, <3>3, PlacesAreTaken
    <3> QED
      BY <3>2, <3>4
  <2>2. X = {s[i] : i \in 1..Len(s)}
    BY <1>1, <2>1
  <2>3. Y = {t[i] : i \in 1..Len(t)}
    BY <1>2, <2>1
  <2> QED
    BY <1>6, <2>2, <2>3
<1> QED
  BY <1>1, <1>3, <1>4, <1>5, <1>6, FlatIsText

-----------------------------------------------------------------------------
(* What was read *)

\* The rows of a statement read so far: p are the catalogs there have been, s
\* the catalog of each statement, and u what is unread of the last.
Got(p, s, u, i) ==
    IF i = Len(s) /\ u # Null THEN p[s[i]][Groups[i]] \ u ELSE p[s[i]][Groups[i]]

ReadPairs(p, s, u) == UNION {{Groups[i]} \X Got(p, s, u, i) : i \in 1..Len(s)}

RecordsOf(pairs) == {Record(r[1], r[2]) : r \in pairs}

Fitting(p, s, u) ==
    /\ \A i \in 1..Len(s) : Cardinality(Got(p, s, u, i)) <= MaxRowsPerGroup
    /\ \A r \in ReadPairs(p, s, u) :
         /\ \A field \in Range(Fields(r[1], r[2])) : Len(field) <= MaxFieldBytes
         /\ Size(r[1], r[2]) <= MaxRecordBytes
    /\ Cardinality(Bytes(ReadPairs(p, s, u))) <= MaxTotalBytes

\* Statements of some catalogs, the last of them with rows unread.
Sound(p, s) ==
    /\ p \in Seq(Catalogs) /\ s \in Seq(Nat) /\ Len(s) <= 6
    /\ \A i \in 1..Len(s) : s[i] \in 1..Len(p)

Reading(p, s, u) == u # Null => Len(s) > 0 /\ u \subseteq p[s[Len(s)]][Groups[Len(s)]]

AllPairs == UNION {UNION {{k} \X c[k] : c \in Catalogs} : k \in Kinds}

\* Which rows were read, of which kind.
LEMMA PairsRead ==
    ASSUME NEW p, NEW s, NEW u, Sound(p, s)
    PROVE  /\ Len(s) \in 0..6
           /\ \A i \in 1..Len(s) : /\ p[s[i]] \in Catalogs /\ Groups[i] \in Kinds
                                   /\ IsFiniteSet(p[s[i]][Groups[i]])
                                   /\ \A v \in SUBSET p[s[i]][Groups[i]] : v # Null
                                   /\ Got(p, s, u, i) \in SUBSET p[s[i]][Groups[i]]
                                   /\ IsFiniteSet(Got(p, s, u, i))
           /\ \A r : r \in ReadPairs(p, s, u) <=>
                     \E i \in 1..Len(s) : \E row \in Got(p, s, u, i) : r = <<Groups[i], row>>
           /\ \A i \in 1..Len(s) : \A row :
                 <<Groups[i], row>> \in ReadPairs(p, s, u) <=> row \in Got(p, s, u, i)
           /\ ReadPairs(p, s, u) \in SUBSET AllPairs
           /\ IsFiniteSet(ReadPairs(p, s, u))
<1> DEFINE n == Len(s)
           R == ReadPairs(p, s, u)
           part(i) == {Groups[i]} \X Got(p, s, u, i)
           f == [i \in 1..n |-> part(i)]
           T == {part(i) : i \in 1..n}
<1>1. n \in 0..6 /\ \A i \in 1..n : i \in 1..6 /\ s[i] \in 1..Len(p)
  <2>1. n \in Nat /\ n <= 6 /\ \A i \in 1..n : s[i] \in 1..Len(p)
    BY DEF Sound
  <2> HIDE DEF n
  <2> QED
    BY <2>1
<1>2. ASSUME NEW i \in 1..n
      PROVE  /\ p[s[i]] \in Catalogs /\ Groups[i] \in Kinds
             /\ IsFiniteSet(p[s[i]][Groups[i]])
             /\ \A v \in SUBSET p[s[i]][Groups[i]] : v # Null
             /\ Got(p, s, u, i) \in SUBSET p[s[i]][Groups[i]]
             /\ IsFiniteSet(Got(p, s, u, i))
  <2>1. p[s[i]] \in Catalogs
    <3>1. p \in Seq(Catalogs) /\ s[i] \in 1..Len(p)
      BY <1>1 DEF Sound
    <3> QED
      BY <3>1
  <2>2. Groups[i] \in Kinds
    BY <1>1, KindsDiffer
  <2>3. IsFiniteSet(p[s[i]][Groups[i]]) /\ \A v \in SUBSET p[s[i]][Groups[i]] : v # Null
    BY <2>1, <2>2, CatalogRows
  <2>4. Got(p, s, u, i) \in SUBSET p[s[i]][Groups[i]]
    BY DEF Got
  <2> QED
    BY <2>1, <2>2, <2>3, <2>4, FS_Subset
<1>3. \A r : r \in R <=> \E i \in 1..n : \E row \in Got(p, s, u, i) : r = <<Groups[i], row>>
  <2>1. \A r : r \in R <=> \E i \in 1..n : r \in part(i)
    BY DEF ReadPairs
  <2>2. \A i \in 1..n : \A r : r \in part(i) <=> \E row \in Got(p, s, u, i) : r = <<Groups[i], row>>
    OBVIOUS
  <2> HIDE DEF part
  <2> QED
    BY <2>1, <2>2
<1>4. \A i \in 1..n : \A row : <<Groups[i], row>> \in R <=> row \in Got(p, s, u, i)
  <2> SUFFICES ASSUME NEW i \in 1..n, NEW row
               PROVE  <<Groups[i], row>> \in R <=> row \in Got(p, s, u, i)
    OBVIOUS
  <2>1. ASSUME <<Groups[i], row>> \in R PROVE row \in Got(p, s, u, i)
    <3>1. PICK j \in 1..n : \E other \in Got(p, s, u, j) : <<Groups[i], row>> = <<Groups[j], other>>
      BY <1>3, <2>1
    <3>2. Groups[i] = Groups[j] /\ row \in Got(p, s, u, j)
      BY <3>1
    <3>3. i = j
      BY <1>1, <3>2, KindsDiffer
    <3> QED
      BY <3>2, <3>3
  <2> QED
    BY <1>3, <2>1
<1>5. R \in SUBSET AllPairs
  <2> SUFFICES ASSUME NEW r \in R PROVE r \in AllPairs
    OBVIOUS
  <2>1. PICK i \in 1..n : \E row \in Got(p, s, u, i) : r = <<Groups[i], row>>
    BY <1>3
  <2>2. PICK row \in Got(p, s, u, i) : r = <<Groups[i], row>>
    BY <2>1
  <2>3. row \in p[s[i]][Groups[i]] /\ p[s[i]] \in Catalogs /\ Groups[i] \in Kinds
    BY <1>2
  <2>4. r \in {Groups[i]} \X p[s[i]][Groups[i]]
    BY <2>2, <2>3
  <2> QED
    BY <2>3, <2>4 DEF AllPairs
<1>6. IsFiniteSet(R)
  <2>1. \A i \in 1..n : IsFiniteSet(part(i))
    BY <1>2, FS_Singleton, FS_Product
  <2>2. R = UNION T
    BY DEF ReadPairs
  <2> HIDE DEF part
  <2>3. IsFiniteSet(1..n)
    BY <1>1, FS_Interval
  <2>4. f \in Surjection(1..n, T)
    BY DEF Surjection
  <2>5. IsFiniteSet(T)
    BY <2>3, <2>4, FS_Surjection
  <2>6. \A S \in T : IsFiniteSet(S)
    BY <2>1
  <2> QED
    BY <2>2, <2>5, <2>6, FS_UNION
<1> QED
  BY <1>1, <1>2, <1>3, <1>4, <1>5, <1>6

\* Rows that may be read have records that tell them apart.
LEMMA PairsTold ==
    ASSUME NEW r \in AllPairs, NEW q \in AllPairs
    PROVE  /\ Record(r[1], r[2]) \in ByteStrings /\ Size(r[1], r[2]) \in Nat
           /\ Record(r[1], r[2]) = Record(q[1], q[2]) => r = q
<1>1. PICK k \in Kinds : \E c \in Catalogs : \E row \in c[k] : r = <<k, row>>
  BY DEF AllPairs
<1>2. PICK c \in Catalogs : \E row \in c[k] : r = <<k, row>>
  BY <1>1
<1>3. PICK row \in c[k] : r = <<k, row>>
  BY <1>2
<1>4. PICK l \in Kinds : \E d \in Catalogs : \E other \in d[l] : q = <<l, other>>
  BY DEF AllPairs
<1>5. PICK d \in Catalogs : \E other \in d[l] : q = <<l, other>>
  BY <1>4
<1>6. PICK other \in d[l] : q = <<l, other>>
  BY <1>5
<1>7. row \in Rows /\ other \in Rows
  BY CatalogRows
<1>8. r[1] = k /\ r[2] = row /\ q[1] = l /\ q[2] = other
  BY <1>3, <1>6
<1>9. Record(k, row) \in ByteStrings
  BY <1>7, RecordTells
<1>10. Len(Record(k, row)) \in Nat
  BY <1>9, Concatenated
<1>11. Record(k, row) = Record(l, other) => k = l /\ row = other
  BY RecordsDiffer
<1> QED
  BY <1>3, <1>6, <1>8, <1>9, <1>10, <1>11 DEF Size

\* Hence two sets of rows have the same records only if they are the same.
LEMMA RecordsSayRows ==
    ASSUME NEW X \in SUBSET AllPairs, NEW Y \in SUBSET AllPairs
    PROVE  RecordsOf(X) = RecordsOf(Y) <=> X = Y
<1> SUFFICES ASSUME RecordsOf(X) = RecordsOf(Y) PROVE X = Y
  OBVIOUS
<1>1. ASSUME NEW A \in SUBSET AllPairs, NEW B \in SUBSET AllPairs, RecordsOf(A) = RecordsOf(B), NEW r \in A
      PROVE  r \in B
  <2>1. Record(r[1], r[2]) \in RecordsOf(B)
    BY <1>1 DEF RecordsOf
  <2>2. PICK q \in B : Record(r[1], r[2]) = Record(q[1], q[2])
    BY <2>1 DEF RecordsOf
  <2>3. r = q
    BY <1>1, <2>2, PairsTold
  <2> QED
    BY <2>2, <2>3
<1>2. X \subseteq Y /\ Y \subseteq X
  BY <1>1
<1> QED
  BY <1>2

\* One row more is one record more in the list.
LEMMA OneMoreRecord ==
    ASSUME NEW X \in SUBSET AllPairs, NEW r \in AllPairs, r \notin X, NEW rs, Lists(rs, RecordsOf(X))
    PROVE  Lists(Append(rs, Record(r[1], r[2])), RecordsOf(X \cup {r}))
<1> DEFINE n == Len(rs)
           x == Record(r[1], r[2])
           qs == Append(rs, x)
<1>1. x \in ByteStrings /\ x \notin RecordsOf(X)
  BY PairsTold DEF RecordsOf
<1>2. RecordsOf(X \cup {r}) = RecordsOf(X) \cup {x}
  BY DEF RecordsOf
<1>3. /\ rs \in Seq(ByteStrings) /\ n \in Nat
      /\ RecordsOf(X) = {rs[i] : i \in 1..n}
      /\ \A i, j \in 1..n : rs[i] = rs[j] => i = j
  BY DEF Lists
<1> HIDE DEF x
<1>4. /\ qs \in Seq(ByteStrings) /\ Len(qs) = n + 1 /\ qs[n + 1] = x
      /\ \A i \in 1..n : qs[i] = rs[i]
  BY <1>1, <1>3
<1> HIDE DEF n, qs
<1>5. \A i \in 1..(n + 1) : i \in 1..n \/ i = n + 1
  BY <1>3
<1>6. {qs[i] : i \in 1..(n + 1)} = RecordsOf(X) \cup {x}
  <2>1. ASSUME NEW i \in 1..(n + 1) PROVE qs[i] \in RecordsOf(X) \cup {x}
    BY <1>3, <1>4, <1>5
  <2>2. ASSUME NEW y \in RecordsOf(X) \cup {x} PROVE \E i \in 1..(n + 1) : y = qs[i]
    <3>1. CASE y = x
      BY <1>3, <1>4, <3>1
    <3>2. CASE y # x
      <4>1. PICK i \in 1..n : y = rs[i]
        BY <1>3, <2>2, <3>2
      <4>2. i \in 1..(n + 1)
        BY <1>3
      <4> QED
        BY <1>4, <4>1, <4>2
    <3> QED
      BY <3>1, <3>2
  <2> QED
    BY <2>1, <2>2
<1>7. ASSUME NEW i \in 1..(n + 1), NEW j \in 1..(n + 1), qs[i] = qs[j] PROVE i = j
  <2>1. \A k \in 1..n : qs[k] \in RecordsOf(X) /\ qs[k] # x
    BY <1>1, <1>3, <1>4
  <2> QED
    BY <1>3, <1>4, <1>5, <1>7, <2>1
<1> QED
  BY <1>2, <1>4, <1>6, <1>7 DEF Lists, x, qs

\* And its bytes more in all.
LEMMA BytesOfPairs ==
    ASSUME NEW X \in SUBSET AllPairs, IsFiniteSet(X)
    PROVE  /\ IsFiniteSet(Bytes(X)) /\ Cardinality(Bytes(X)) \in Nat
           /\ \A Y \in SUBSET X : Cardinality(Bytes(Y)) <= Cardinality(Bytes(X))
           /\ \A r \in AllPairs \ X : Cardinality(Bytes(X \cup {r})) = Cardinality(Bytes(X)) + Size(r[1], r[2])
<1> DEFINE part(r) == {r} \X (1..Size(r[1], r[2]))
           T == {part(r) : r \in X}
           f == [r \in X |-> part(r)]
<1>1. ASSUME NEW r \in AllPairs
      PROVE  IsFiniteSet(part(r)) /\ Cardinality(part(r)) = Size(r[1], r[2]) /\ Size(r[1], r[2]) \in Nat
  <2> DEFINE n == Size(r[1], r[2])
  <2>1. n \in Nat
    BY PairsTold
  <2> HIDE DEF n
  <2>2. IsFiniteSet(1..n) /\ Cardinality(1..n) = n
    <3>1. IsFiniteSet(1..n) /\ Cardinality(1..n) = IF 1 > n THEN 0 ELSE n - 1 + 1
      BY <2>1, FS_Interval
    <3> QED
      BY <2>1, <3>1
  <2>3. IsFiniteSet({r}) /\ Cardinality({r}) = 1
    BY FS_Singleton
  <2>4. IsFiniteSet({r} \X (1..n)) /\ Cardinality({r} \X (1..n)) = 1 * n
    BY <2>2, <2>3, FS_Product
  <2> QED
    BY <2>1, <2>4 DEF n
<1>2. \A Y : \A b : b \in Bytes(Y) <=> \E r \in Y : b \in part(r)
  BY DEF Bytes
<1>3. \A r, q, b : b \in part(r) /\ b \in part(q) => r = q
  OBVIOUS
<1>4. Bytes(X) = UNION T
  BY DEF Bytes
<1> HIDE DEF part
<1>5. IsFiniteSet(Bytes(X))
  <2>1. f \in Surjection(X, T)
    BY DEF Surjection
  <2>2. IsFiniteSet(T) /\ \A S \in T : IsFiniteSet(S)
    BY <1>1, <2>1, FS_Surjection
  <2> QED
    BY <1>4, <2>2, FS_UNION
<1>6. Cardinality(Bytes(X)) \in Nat
  BY <1>5, FS_CardinalityType
<1>7. ASSUME NEW Y \in SUBSET X PROVE Cardinality(Bytes(Y)) <= Cardinality(Bytes(X))
  <2>1. Bytes(Y) \in SUBSET Bytes(X)
    BY <1>2
  <2> QED
    BY <1>5, <2>1, FS_Subset
<1>8. ASSUME NEW r \in AllPairs \ X
      PROVE  Cardinality(Bytes(X \cup {r})) = Cardinality(Bytes(X)) + Size(r[1], r[2])
  <2>1. Bytes(X \cup {r}) = Bytes(X) \cup part(r)
    <3>1. \A b : b \in Bytes(X \cup {r}) <=> b \in Bytes(X) \/ b \in part(r)
      BY <1>2
    <3> QED
      BY <3>1
  <2>2. Bytes(X) \cap part(r) = {}
    BY <1>2, <1>3
  <2>3. Cardinality(Bytes(X) \cup part(r)) = Cardinality(Bytes(X)) + Cardinality(part(r)) - Cardinality(Bytes(X) \cap part(r))
    BY <1>1, <1>5, FS_Union
  <2>4. Cardinality(Bytes(X) \cap part(r)) = 0
    BY <2>2, FS_EmptySet
  <2>5. Cardinality(part(r)) = Size(r[1], r[2]) /\ Size(r[1], r[2]) \in Nat
    BY <1>1
  <2>6. \A a, b \in Nat : a + b - 0 = a + b
    OBVIOUS
  <2> QED
    BY <1>6, <2>1, <2>3, <2>4, <2>5, <2>6
<1> QED
  BY <1>5, <1>6, <1>7, <1>8

\* What was read depends on the groups' rows only.
LEMMA SameRows ==
    ASSUME NEW p, NEW s, NEW u, NEW q, NEW t, NEW v, Len(s) = Len(t),
           \A i \in 1..Len(s) : Got(p, s, u, i) = Got(q, t, v, i)
    PROVE  /\ ReadPairs(p, s, u) = ReadPairs(q, t, v)
           /\ Fitting(p, s, u) <=> Fitting(q, t, v)
<1>1. ReadPairs(p, s, u) = ReadPairs(q, t, v)
  BY DEF ReadPairs
<1> QED
  BY <1>1 DEF Fitting

\* DDL changes nothing about what was read.
LEMMA PastStays ==
    ASSUME NEW p, NEW s, NEW u, Sound(p, s), NEW c \in Catalogs
    PROVE  /\ Sound(Append(p, c), s)
           /\ Reading(p, s, u) => Reading(Append(p, c), s, u)
           /\ \A i \in 1..Len(s) : Got(Append(p, c), s, u, i) = Got(p, s, u, i)
           /\ ReadPairs(Append(p, c), s, u) = ReadPairs(p, s, u)
           /\ Fitting(Append(p, c), s, u) <=> Fitting(p, s, u)
<1> DEFINE q == Append(p, c)
<1>1. /\ Len(p) \in Nat /\ Len(s) \in Nat /\ p \in Seq(Catalogs)
      /\ \A i \in 1..Len(s) : s[i] \in 1..Len(p)
  BY DEF Sound
<1>2. q \in Seq(Catalogs) /\ Len(q) = Len(p) + 1 /\ \A i \in 1..Len(p) : q[i] = p[i]
  BY <1>1
<1> HIDE DEF q
<1>3. \A i \in 1..Len(s) : q[s[i]] = p[s[i]] /\ s[i] \in 1..Len(q)
  BY <1>1, <1>2
<1>4. Sound(q, s)
  BY <1>2, <1>3 DEF Sound
<1>5. \A i \in 1..Len(s) : Got(q, s, u, i) = Got(p, s, u, i)
  BY <1>3 DEF Got
<1>6. ASSUME Reading(p, s, u) PROVE Reading(q, s, u)
  <2>1. Len(s) > 0 => Len(s) \in 1..Len(s)
    BY <1>1
  <2> QED
    BY <1>3, <1>6, <2>1 DEF Reading
<1> QED
  BY <1>4, <1>5, <1>6, SameRows DEF q

\* A group of which nothing was read adds nothing.
LEMMA NothingOfGroup ==
    ASSUME NEW p, NEW s, Sound(p, s), NEW t, NEW v, Sound(p, t), Len(t) = Len(s) + 1,
           Got(p, t, v, Len(t)) = {}, \A i \in 1..Len(s) : Got(p, t, v, i) = Got(p, s, Null, i)
    PROVE  ReadPairs(p, t, v) = ReadPairs(p, s, Null)
<1> DEFINE n == Len(s)
<1>1. \A r : r \in ReadPairs(p, t, v) <=> \E i \in 1..Len(t) : \E row \in Got(p, t, v, i) : r = <<Groups[i], row>>
  BY PairsRead
<1>2. \A r : r \in ReadPairs(p, s, Null) <=> \E i \in 1..n : \E row \in Got(p, s, Null, i) : r = <<Groups[i], row>>
  BY PairsRead
<1>3. n \in Nat /\ Len(t) = n + 1
  BY PairsRead
<1> HIDE DEF n
<1>4. (\A i \in 1..n : i \in 1..(n + 1)) /\ \A i \in 1..(n + 1) : i \in 1..n \/ i = n + 1
  BY <1>3
<1>5. ASSUME NEW r PROVE r \in ReadPairs(p, t, v) <=> r \in ReadPairs(p, s, Null)
  <2>1. ASSUME r \in ReadPairs(p, t, v) PROVE r \in ReadPairs(p, s, Null)
    <3>1. PICK i \in 1..(n + 1) : \E row \in Got(p, t, v, i) : r = <<Groups[i], row>>
      BY <1>1, <1>3, <2>1
    <3>2. i \in 1..n
      BY <1>3, <1>4, <3>1
    <3>3. Got(p, t, v, i) = Got(p, s, Null, i)
      BY <3>2 DEF n
    <3> QED
      BY <1>2, <3>1, <3>2, <3>3
  <2>2. ASSUME r \in ReadPairs(p, s, Null) PROVE r \in ReadPairs(p, t, v)
    <3>1. PICK i \in 1..n : \E row \in Got(p, s, Null, i) : r = <<Groups[i], row>>
      BY <1>2, <2>2
    <3>2. Got(p, t, v, i) = Got(p, s, Null, i) /\ i \in 1..(n + 1)
      BY <1>4, <3>1 DEF n
    <3> QED
      BY <1>1, <1>3, <3>1, <3>2
  <2> QED
    BY <2>1, <2>2
<1> QED
  BY <1>5

\* The next statement has read nothing yet.
LEMMA GroupOpens ==
    ASSUME NEW p, NEW s, Sound(p, s), p # <<>>, Len(s) < 6,
           NEW t, NEW v, t = Append(s, Len(p)), v = Last(p)[Groups[Len(s) + 1]]
    PROVE  /\ Sound(p, t) /\ Len(t) = Len(s) + 1 /\ v # Null /\ Reading(p, t, v)
           /\ Got(p, t, v, Len(t)) = {}
           /\ ReadPairs(p, t, v) = ReadPairs(p, s, Null)
           /\ Fitting(p, s, Null) => Fitting(p, t, v)
<1> DEFINE n == Len(s)
           k == Groups[n + 1]
<1>1. n \in 0..5 /\ Len(p) \in Nat \ {0} /\ p \in Seq(Catalogs) /\ s \in Seq(Nat)
      /\ \A i \in 1..n : s[i] \in 1..Len(p)
  <2>1. n \in 0..6
    BY PairsRead
  <2>2. p \in Seq(Catalogs) /\ s \in Seq(Nat) /\ \A i \in 1..n : s[i] \in 1..Len(p)
    BY DEF Sound
  <2>3. Len(p) \in Nat \ {0}
    BY <2>2
  <2> QED
    BY <2>1, <2>2, <2>3
<1>2. Last(p) = p[Len(p)] /\ p[Len(p)] \in Catalogs
  BY <1>1 DEF Last
<1>3. k \in Kinds
  <2>1. n + 1 \in 1..6
    BY <1>1
  <2> QED
    BY <2>1, KindsDiffer
<1>4. v # Null /\ v = p[Len(p)][k]
  BY <1>2, <1>3, CatalogRows
<1>5. t \in Seq(Nat) /\ Len(t) = n + 1 /\ t[n + 1] = Len(p) /\ \A i \in 1..n : t[i] = s[i]
  BY <1>1
<1> HIDE DEF n
<1>6. \A i \in 1..(n + 1) : i \in 1..n \/ i = n + 1
  BY <1>1
<1>7. Sound(p, t)
  <2>1. \A i \in 1..(n + 1) : t[i] \in 1..Len(p)
    BY <1>1, <1>5, <1>6
  <2>2. n + 1 <= 6
    BY <1>1
  <2> QED
    BY <1>1, <1>5, <2>1, <2>2 DEF Sound
<1>8. Reading(p, t, v)
  <2>1. n + 1 > 0
    BY <1>1
  <2> QED
    BY <1>4, <1>5, <2>1 DEF Reading
<1>9. Got(p, t, v, n + 1) = {}
  BY <1>4, <1>5 DEF Got
<1>10. \A i \in 1..n : Got(p, t, v, i) = Got(p, s, Null, i)
  <2>1. \A i \in 1..n : i # n + 1
    BY <1>1
  <2> QED
    BY <1>5, <2>1 DEF Got
<1>11. ReadPairs(p, t, v) = ReadPairs(p, s, Null)
  BY <1>5, <1>7, <1>9, <1>10, NothingOfGroup DEF n
<1>12. ASSUME Fitting(p, s, Null) PROVE Fitting(p, t, v)
  <2>1. ASSUME NEW i \in 1..(n + 1) PROVE Cardinality(Got(p, t, v, i)) <= MaxRowsPerGroup
    <3>1. CASE i \in 1..n
      BY <1>10, <1>12, <3>1 DEF Fitting, n
    <3>2. CASE i = n + 1
      <4>1. Cardinality(Got(p, t, v, i)) = 0
        BY <1>9, <3>2, FS_EmptySet
      <4>2. MaxRowsPerGroup \in Nat
        BY FingerprintAssumption
      <4> QED
        BY <4>1, <4>2
    <3> QED
      BY <1>6, <3>1, <3>2
  <2> QED
    BY <1>5, <1>11, <1>12, <2>1 DEF Fitting
<1> QED
  BY <1>4, <1>5, <1>7, <1>8, <1>9, <1>11, <1>12 DEF n

\* One row is read: one more of its group, and one more in all.
LEMMA RowIsRead ==
    ASSUME NEW p, NEW s, NEW u, Sound(p, s), Reading(p, s, u), u # Null, NEW row \in u,
           NEW w, w = u \ {row}, NEW r, r = <<Groups[Len(s)], row>>
    PROVE  /\ Len(s) \in 1..6 /\ Len(s) \in 1..Len(s) /\ w # Null /\ Reading(p, s, w)
           /\ r \in AllPairs /\ r \notin ReadPairs(p, s, u)
           /\ ReadPairs(p, s, w) = ReadPairs(p, s, u) \cup {r}
           /\ ReadPairs(p, s, u) \cup {r} \subseteq ReadPairs(p, s, Null)
           /\ \A i \in 1..Len(s) : i # Len(s) => Got(p, s, w, i) = Got(p, s, u, i)
           /\ Cardinality(Got(p, s, u, Len(s))) \in Nat
           /\ Cardinality(Got(p, s, w, Len(s))) = Cardinality(Got(p, s, u, Len(s))) + 1
           /\ Cardinality(Got(p, s, w, Len(s))) <= Cardinality(Got(p, s, Null, Len(s)))
           /\ Cardinality(Got(p, s, Null, Len(s))) \in Nat
<1> DEFINE n == Len(s)
           all == p[s[n]][Groups[n]]
<1>1. n \in 1..6 /\ n \in 1..n /\ n \in Nat
  <2>1. n \in 0..6
    BY PairsRead
  <2>2. n > 0
    BY DEF Reading
  <2> HIDE DEF n
  <2> QED
    BY <2>1, <2>2
<1>2. u \subseteq all
  BY DEF Reading
<1>3. p[s[n]] \in Catalogs /\ Groups[n] \in Kinds /\ IsFiniteSet(all) /\ \A v \in SUBSET all : v # Null
  BY <1>1, PairsRead
<1>4. w # Null /\ w \in SUBSET all
  BY <1>2, <1>3
<1>5. Got(p, s, u, n) = all \ u /\ Got(p, s, w, n) = all \ w /\ Got(p, s, Null, n) = all
  BY <1>4 DEF Got
<1>6. Got(p, s, w, n) = Got(p, s, u, n) \cup {row} /\ row \notin Got(p, s, u, n) /\ row \in all
  BY <1>2, <1>5
<1>7. \A i \in 1..n : i # n => Got(p, s, w, i) = Got(p, s, u, i) /\ Got(p, s, Null, i) = Got(p, s, u, i)
  BY DEF Got
<1>8. /\ IsFiniteSet(Got(p, s, u, n)) /\ Cardinality(Got(p, s, u, n)) \in Nat
      /\ Cardinality(Got(p, s, w, n)) = Cardinality(Got(p, s, u, n)) + 1
      /\ Cardinality(Got(p, s, w, n)) <= Cardinality(all) /\ Cardinality(all) \in Nat
  <2>1. IsFiniteSet(Got(p, s, u, n)) /\ Cardinality(Got(p, s, u, n)) \in Nat
    BY <1>1, PairsRead, FS_CardinalityType
  <2>2. Cardinality(Got(p, s, w, n)) = Cardinality(Got(p, s, u, n)) + 1
    BY <1>6, <2>1, FS_AddElement
  <2>3. Got(p, s, w, n) \in SUBSET all
    BY <1>5
  <2> QED
    BY <1>3, <2>1, <2>2, <2>3, FS_Subset, FS_CardinalityType
<1>9. Reading(p, s, w)
  BY <1>1, <1>4 DEF Reading
<1> HIDE DEF n, all
<1>10. \A v : \A x : x \in ReadPairs(p, s, v) <=> \E i \in 1..n : \E z \in Got(p, s, v, i) : x = <<Groups[i], z>>
  BY PairsRead DEF n
<1>11. r \notin ReadPairs(p, s, u) /\ r \in ReadPairs(p, s, Null)
  <2>1. \A v : <<Groups[n], row>> \in ReadPairs(p, s, v) <=> row \in Got(p, s, v, n)
    BY <1>1, PairsRead DEF n
  <2> QED
    BY <1>5, <1>6, <2>1 DEF n
<1>12. r \in AllPairs
  BY <1>11, PairsRead
<1>13. ReadPairs(p, s, w) = ReadPairs(p, s, u) \cup {r}
  <2>1. ASSUME NEW x \in ReadPairs(p, s, w) PROVE x \in ReadPairs(p, s, u) \cup {r}
    <3>1. PICK i \in 1..n : \E z \in Got(p, s, w, i) : x = <<Groups[i], z>>
      BY <1>10
    <3>2. PICK z \in Got(p, s, w, i) : x = <<Groups[i], z>>
      BY <3>1
    <3>3. z \in Got(p, s, u, i) \/ (i = n /\ z = row)
      BY <1>6, <1>7, <3>2
    <3>4. z \in Got(p, s, u, i) => x \in ReadPairs(p, s, u)
      BY <1>10, <3>2
    <3>5. i = n /\ z = row => x = r
      BY <3>2 DEF n
    <3> QED
      BY <3>3, <3>4, <3>5
  <2>2. ReadPairs(p, s, u) \subseteq ReadPairs(p, s, w)
    <3>1. \A i \in 1..n : Got(p, s, u, i) \subseteq Got(p, s, w, i)
      BY <1>6, <1>7
    <3>2. ASSUME NEW x \in ReadPairs(p, s, u) PROVE x \in ReadPairs(p, s, w)
      <4>1. PICK i \in 1..n : \E z \in Got(p, s, u, i) : x = <<Groups[i], z>>
        BY <1>10
      <4>2. \E z \in Got(p, s, w, i) : x = <<Groups[i], z>>
        BY <3>1, <4>1
      <4> QED
        BY <1>10, <4>2
    <3> QED
      BY <3>2
  <2>3. r \in ReadPairs(p, s, w)
    <3>1. row \in Got(p, s, w, n)
      BY <1>6
    <3> QED
      BY <1>1, <1>10, <3>1 DEF n
  <2> QED
    BY <2>1, <2>2, <2>3
<1>14. ReadPairs(p, s, u) \subseteq ReadPairs(p, s, Null)
  <2>1. \A i \in 1..n : Got(p, s, u, i) \subseteq Got(p, s, Null, i)
    BY <1>5, <1>7
  <2> QED
    BY <1>10, <2>1
<1> QED
  BY <1>1, <1>4, <1>5, <1>7, <1>8, <1>9, <1>11, <1>12, <1>13, <1>14 DEF n, all

\* A statement that was read to its end.
LEMMA GroupIsRead ==
    ASSUME NEW p, NEW s, Sound(p, s)
    PROVE  /\ ReadPairs(p, s, {}) = ReadPairs(p, s, Null)
           /\ Fitting(p, s, {}) <=> Fitting(p, s, Null)
<1>1. \A i \in 1..Len(s) : Got(p, s, {}, i) = Got(p, s, Null, i)
  BY DEF Got
<1> QED
  BY <1>1, SameRows

-----------------------------------------------------------------------------
(* The inductive invariant of the fingerprint *)

Causes == {"none", "limit", "server"}

\* The collection in progress: its records are those of the rows read, each
\* once; it has kept the limits so far, and counted what it has read.
CollectionBooks ==
    /\ past # <<>> /\ Sound(past, seen) /\ Reading(past, seen, unread)
    /\ count \in Nat /\ usedBytes \in Nat /\ totalBytes \in Nat
    /\ Lists(records, RecordsOf(ReadPairs(past, seen, unread)))
    /\ Fitting(past, seen, unread)
    /\ Cardinality(Bytes(ReadPairs(past, seen, unread)))
         = totalBytes + (IF unread = Null THEN 0 ELSE usedBytes)
    /\ unread # Null => count = Cardinality(Got(past, seen, unread, Len(seen)))

\* A collection that ended: a fingerprint is the hash of the records of all it
\* was given, which keeps the limits; what was refused for them does not.
Ended(p, t) ==
    /\ Sound(p, t.seen)
    /\ t.print # Null =>
          /\ Len(t.seen) = 6 /\ Fitting(p, t.seen, Null)
          /\ \E rs : Lists(rs, RecordsOf(ReadPairs(p, t.seen, Null))) /\ t.print = HashSchemaRecords(rs)
    /\ t.cause = "limit" => ~Fitting(p, t.seen, Null)

TakenBooks ==
    /\ taken \in Seq([seen : Seq(Nat), print : ByteStrings \cup {Null}, cause : Causes])
    /\ \A j \in 1..Len(taken) : Ended(past, taken[j])

FingerprintInv == CollectionBooks /\ TakenBooks

\* What was read of no statement.
LEMMA NothingRead ==
    ASSUME NEW p \in Seq(Catalogs)
    PROVE  /\ Sound(p, <<>>) /\ Reading(p, <<>>, Null)
           /\ ReadPairs(p, <<>>, Null) = {} /\ RecordsOf({}) = {} /\ Lists(<<>>, {})
           /\ Cardinality(Bytes({})) = 0 /\ Fitting(p, <<>>, Null)
<1>1. Len(<<>>) = 0 /\ <<>> \in Seq(Nat) /\ <<>> \in Seq(ByteStrings) /\ \A i : i \notin 1..0
  OBVIOUS
<1>2. Sound(p, <<>>) /\ Reading(p, <<>>, Null)
  BY <1>1 DEF Sound, Reading
<1>3. ReadPairs(p, <<>>, Null) = {}
  BY <1>1 DEF ReadPairs
<1>4. RecordsOf({}) = {} /\ Bytes({}) = {}
  BY DEF RecordsOf, Bytes
<1>5. Lists(<<>>, {})
  BY <1>1 DEF Lists
<1>6. Cardinality(Bytes({})) = 0
  BY <1>4, FS_EmptySet
<1>7. Fitting(p, <<>>, Null)
  <2>1. MaxTotalBytes \in Nat
    BY FingerprintAssumption
  <2>2. \A i : i \notin 1..Len(<<>>)
    BY <1>1
  <2>3. Bytes(ReadPairs(p, <<>>, Null)) = Bytes({})
    BY <1>3
  <2>4. 0 <= MaxTotalBytes
    BY <2>1
  <2>5. Cardinality(Bytes(ReadPairs(p, <<>>, Null))) <= MaxTotalBytes
    BY <1>6, <2>3, <2>4
  <2> QED
    BY <1>3, <2>2, <2>5 DEF Fitting
<1> QED
  BY <1>2, <1>3, <1>4, <1>5, <1>6, <1>7

\* Before the first statement nothing was read and nothing is counted.
LEMMA FingerprintStarts == FingerprintInit => FingerprintInv
<1> SUFFICES ASSUME FingerprintInit PROVE FingerprintInv
  OBVIOUS
<1> USE DEF FingerprintInit
<1>1. PICK c \in Catalogs : past = <<c>>
  OBVIOUS
<1>2. past # <<>> /\ past \in Seq(Catalogs)
  BY <1>1
<1>3. CollectionBooks
  <2>1. /\ Sound(past, seen) /\ Reading(past, seen, unread)
        /\ ReadPairs(past, seen, unread) = {} /\ RecordsOf({}) = {} /\ Lists(records, {})
        /\ Cardinality(Bytes({})) = 0 /\ Fitting(past, seen, unread)
    BY <1>2, NothingRead
  <2>2. count \in Nat /\ usedBytes \in Nat /\ totalBytes \in Nat /\ unread = Null
        /\ 0 = totalBytes + 0
    OBVIOUS
  <2> QED
    BY <1>2, <2>1, <2>2 DEF CollectionBooks
<1>4. TakenBooks
  <2>1. taken \in Seq([seen : Seq(Nat), print : ByteStrings \cup {Null}, cause : Causes]) /\ Len(taken) = 0
    OBVIOUS
  <2> QED
    BY <2>1 DEF TakenBooks
<1> QED
  BY <1>3, <1>4 DEF FingerprintInv

\* DDL leaves alone what a collection has read: each statement saw the schema
\* at its own moment.
LEMMA AlterKeeps == FingerprintInv /\ Alter => FingerprintInv'
<1> SUFFICES ASSUME FingerprintInv, Alter PROVE FingerprintInv'
  OBVIOUS
<1>1. PICK c \in Catalogs : past' = Append(past, c)
  BY DEF Alter
<1>2. UNCHANGED <<seen, unread, records, count, usedBytes, totalBytes, taken>>
  BY DEF Alter, collection
<1>3. past \in Seq(Catalogs) /\ Sound(past, seen)
  BY DEF FingerprintInv, CollectionBooks, Sound
<1>4. past' # <<>>
  <2>1. Len(past') = Len(past) + 1 /\ Len(past) \in Nat
    BY <1>1, <1>3
  <2> QED
    BY <2>1
<1>5. CollectionBooks'
  <2>1. /\ Sound(past', seen) /\ (Reading(past, seen, unread) => Reading(past', seen, unread))
        /\ \A i \in 1..Len(seen) : Got(past', seen, unread, i) = Got(past, seen, unread, i)
        /\ ReadPairs(past', seen, unread) = ReadPairs(past, seen, unread)
        /\ (Fitting(past', seen, unread) <=> Fitting(past, seen, unread))
    BY <1>1, <1>3, PastStays
  <2>2. unread # Null => Len(seen) \in 1..Len(seen)
    <3>1. Len(seen) \in Nat /\ (unread # Null => Len(seen) > 0)
      BY DEF FingerprintInv, CollectionBooks, Sound, Reading
    <3> QED
      BY <3>1
  <2> QED
    BY <1>2, <1>4, <2>1, <2>2 DEF FingerprintInv, CollectionBooks
<1>6. TakenBooks'
  <2>1. ASSUME NEW j \in 1..Len(taken) PROVE Ended(past', taken[j])
    <3> DEFINE s == taken[j].seen
    <3>1. Ended(past, taken[j]) /\ Sound(past, s)
      BY DEF FingerprintInv, TakenBooks, Ended
    <3> HIDE DEF s
    <3>2. /\ Sound(past', s) /\ ReadPairs(past', s, Null) = ReadPairs(past, s, Null)
          /\ (Fitting(past', s, Null) <=> Fitting(past, s, Null))
      BY <1>1, <3>1, PastStays
    <3> QED
      BY <3>1, <3>2 DEF Ended, s
  <2> QED
    BY <1>2, <2>1 DEF FingerprintInv, TakenBooks
<1> QED
  BY <1>5, <1>6 DEF FingerprintInv

\* A statement starts with all of its rows unread, and the count of rows at 0.
LEMMA QueryGroupKeeps == FingerprintInv /\ QueryGroup => FingerprintInv'
<1> SUFFICES ASSUME FingerprintInv, QueryGroup PROVE FingerprintInv'
  OBVIOUS
<1>1. /\ unread = Null /\ Len(seen) < 6
      /\ seen' = Append(seen, Len(past)) /\ unread' = Last(past)[Groups[Len(seen) + 1]]
      /\ count' = 0 /\ usedBytes' = 0
      /\ UNCHANGED <<past, records, totalBytes, taken>>
  BY KindsDiffer DEF QueryGroup
<1>2. /\ past # <<>> /\ Sound(past, seen) /\ totalBytes \in Nat
      /\ Lists(records, RecordsOf(ReadPairs(past, seen, Null)))
      /\ Fitting(past, seen, Null)
      /\ Cardinality(Bytes(ReadPairs(past, seen, Null))) = totalBytes
  BY <1>1 DEF FingerprintInv, CollectionBooks
<1>3. /\ Sound(past, seen') /\ Len(seen') = Len(seen) + 1 /\ unread' # Null /\ Reading(past, seen', unread')
      /\ Got(past, seen', unread', Len(seen')) = {}
      /\ ReadPairs(past, seen', unread') = ReadPairs(past, seen, Null)
      /\ Fitting(past, seen, Null) => Fitting(past, seen', unread')
  BY <1>1, <1>2, GroupOpens
<1>4. Cardinality(Got(past, seen', unread', Len(seen'))) = 0
  BY <1>3, FS_EmptySet
<1>5. CollectionBooks'
  BY <1>1, <1>2, <1>3, <1>4 DEF CollectionBooks
<1>6. TakenBooks'
  BY <1>1 DEF FingerprintInv, TakenBooks
<1> QED
  BY <1>5, <1>6 DEF FingerprintInv

\* A row within the limits is one more of the rows read, and its record one
\* more of the records: it was not among them, since records tell rows apart.
LEMMA ReadRowKeeps == FingerprintInv /\ ReadRow => FingerprintInv'
<1> SUFFICES ASSUME FingerprintInv, ReadRow PROVE FingerprintInv'
  OBVIOUS
<1>1. PICK row \in unread : /\ Fits(row) /\ unread' = unread \ {row}
                            /\ records' = Append(records, Record(Group, row))
                            /\ usedBytes' = usedBytes + Len(Record(Group, row))
  BY DEF ReadRow
<1>2. unread # Null /\ count' = count + 1 /\ UNCHANGED <<past, seen, totalBytes, taken>>
  BY DEF ReadRow
<1> DEFINE n == Len(seen)
           r == <<Groups[n], row>>
           X == ReadPairs(past, seen, unread)
           size == Size(r[1], r[2])
<1>3. /\ past # <<>> /\ Sound(past, seen) /\ Reading(past, seen, unread)
      /\ count \in Nat /\ usedBytes \in Nat /\ totalBytes \in Nat
      /\ Lists(records, RecordsOf(X)) /\ Fitting(past, seen, unread)
      /\ Cardinality(Bytes(X)) = totalBytes + usedBytes
      /\ count = Cardinality(Got(past, seen, unread, n))
  BY <1>2 DEF FingerprintInv, CollectionBooks
<1>4. /\ n \in 1..n /\ unread' # Null /\ Reading(past, seen, unread')
      /\ r \in AllPairs /\ r \notin X /\ ReadPairs(past, seen, unread') = X \cup {r}
      /\ \A i \in 1..n : i # n => Got(past, seen, unread', i) = Got(past, seen, unread, i)
      /\ Cardinality(Got(past, seen, unread', n)) = Cardinality(Got(past, seen, unread, n)) + 1
  <2> DEFINE w == unread \ {row}
  <2>1. w = unread \ {row} /\ r = <<Groups[Len(seen)], row>> /\ X = ReadPairs(past, seen, unread) /\ n = Len(seen)
    OBVIOUS
  <2>2. unread' = w
    BY <1>1
  <2> HIDE DEF r, X, n, w
  <2>3. unread # Null /\ row \in unread
    BY <1>1, <1>2
  <2>4. /\ Len(seen) \in 1..Len(seen) /\ w # Null /\ Reading(past, seen, w)
        /\ r \in AllPairs /\ r \notin ReadPairs(past, seen, unread)
        /\ ReadPairs(past, seen, w) = ReadPairs(past, seen, unread) \cup {r}
        /\ Cardinality(Got(past, seen, w, Len(seen))) = Cardinality(Got(past, seen, unread, Len(seen))) + 1
    BY <1>3, <2>1, <2>3, RowIsRead
  <2>5. \A i \in 1..Len(seen) : i # Len(seen) => Got(past, seen, w, i) = Got(past, seen, unread, i)
    BY DEF Got
  <2> QED
    BY <2>1, <2>2, <2>4, <2>5
<1>5. X \in SUBSET AllPairs /\ IsFiniteSet(X)
  BY <1>3, PairsRead
<1>6. r[1] = Group /\ r[2] = row /\ size = Len(Record(Group, row)) /\ size \in Nat
  <2>1. r[1] = Group /\ r[2] = row
    BY DEF Group
  <2>2. size \in Nat
    BY <1>4, PairsTold
  <2> QED
    BY <2>1, <2>2 DEF Size
<1>7. /\ count < MaxRowsPerGroup /\ size <= MaxRecordBytes
      /\ \A field \in Range(Fields(r[1], r[2])) : Len(field) <= MaxFieldBytes
      /\ size <= (MaxTotalBytes - totalBytes) - usedBytes
  <2> HIDE DEF r, size
  <2> QED
    BY <1>1, <1>6 DEF Fits
<1> HIDE DEF n, r, X, size
<1>8. Lists(records', RecordsOf(X \cup {r}))
  BY <1>1, <1>3, <1>4, <1>5, <1>6, OneMoreRecord
<1>9. Cardinality(Bytes(X \cup {r})) = Cardinality(Bytes(X)) + size
  BY <1>4, <1>5, BytesOfPairs DEF size
<1>10. usedBytes' = usedBytes + size
  BY <1>1, <1>6
<1>11. Cardinality(Bytes(X \cup {r})) = totalBytes + usedBytes'
  BY <1>3, <1>6, <1>9, <1>10
<1>12. totalBytes + usedBytes' <= MaxTotalBytes
  <2>1. MaxTotalBytes \in Nat
    BY FingerprintAssumption
  <2> QED
    BY <1>3, <1>6, <1>7, <1>10, <2>1
<1>13. Fitting(past, seen, unread')
  <2>1. ASSUME NEW i \in 1..n PROVE Cardinality(Got(past, seen, unread', i)) <= MaxRowsPerGroup
    <3>1. CASE i = n
      <4>1. MaxRowsPerGroup \in Nat
        BY FingerprintAssumption
      <4> QED
        BY <1>3, <1>4, <1>7, <3>1, <4>1
    <3>2. CASE i # n
      <4>1. Cardinality(Got(past, seen, unread, i)) <= MaxRowsPerGroup
        BY <1>3 DEF Fitting, n
      <4> QED
        BY <1>4, <3>2, <4>1
    <3> QED
      BY <3>1, <3>2
  <2>2. ASSUME NEW q \in X \cup {r}
        PROVE  /\ \A field \in Range(Fields(q[1], q[2])) : Len(field) <= MaxFieldBytes
               /\ Size(q[1], q[2]) <= MaxRecordBytes
    <3>1. CASE q = r
      BY <1>7, <3>1 DEF size
    <3>2. CASE q \in X
      BY <1>3, <3>2 DEF Fitting, X
    <3> QED
      BY <3>1, <3>2
  <2> QED
    BY <1>4, <1>11, <1>12, <2>1, <2>2 DEF Fitting, n
<1>14. CollectionBooks'
  <2>1. count' \in Nat /\ usedBytes' \in Nat
    BY <1>2, <1>3, <1>6, <1>10
  <2>2. count' = Cardinality(Got(past, seen, unread', n))
    BY <1>2, <1>3, <1>4
  <2> QED
    BY <1>2, <1>3, <1>4, <1>8, <1>11, <1>13, <2>1, <2>2 DEF CollectionBooks, n
<1>15. TakenBooks'
  BY <1>2 DEF FingerprintInv, TakenBooks
<1> QED
  BY <1>14, <1>15 DEF FingerprintInv

\* The bytes of a group that ends are counted with those of the groups before.
LEMMA EndGroupKeeps == FingerprintInv /\ EndGroup => FingerprintInv'
<1> SUFFICES ASSUME FingerprintInv, EndGroup PROVE FingerprintInv'
  OBVIOUS
<1>1. /\ unread = {} /\ unread' = Null /\ totalBytes' = totalBytes + usedBytes
      /\ UNCHANGED <<past, seen, records, count, usedBytes, taken>>
  BY DEF EndGroup
<1>2. unread # Null
  <2>1. PICK c : c \in Catalogs
    BY DEF FingerprintInv, CollectionBooks, Sound
  <2>2. "table" \in Kinds
    <3>1. Groups[1] = "table"
      BY DEF Groups
    <3> QED
      BY <3>1, KindsDiffer
  <2>3. {} \in SUBSET c["table"]
    OBVIOUS
  <2> QED
    BY <1>1, <2>1, <2>2, <2>3, CatalogRows
<1>3. /\ past # <<>> /\ Sound(past, seen) /\ count \in Nat /\ usedBytes \in Nat /\ totalBytes \in Nat
      /\ Lists(records, RecordsOf(ReadPairs(past, seen, {})))
      /\ Fitting(past, seen, {})
      /\ Cardinality(Bytes(ReadPairs(past, seen, {}))) = totalBytes + usedBytes
  BY <1>1, <1>2 DEF FingerprintInv, CollectionBooks
<1>4. /\ ReadPairs(past, seen, {}) = ReadPairs(past, seen, Null)
      /\ Fitting(past, seen, {}) <=> Fitting(past, seen, Null)
  BY <1>3, GroupIsRead
<1>5. Reading(past, seen, Null)
  BY DEF Reading
<1>6. CollectionBooks'
  BY <1>1, <1>3, <1>4, <1>5 DEF CollectionBooks
<1>7. TakenBooks'
  BY <1>1 DEF FingerprintInv, TakenBooks
<1> QED
  BY <1>6, <1>7 DEF FingerprintInv

\* A collection ends, and nothing is left of it but its result.
LEMMA EndsKeeps ==
    ASSUME FingerprintInv, NEW print \in ByteStrings \cup {Null}, NEW cause \in Causes,
           Ended(past, [seen |-> seen, print |-> print, cause |-> cause]), Ends(print, cause)
    PROVE  FingerprintInv'
<1> DEFINE t == [seen |-> seen, print |-> print, cause |-> cause]
           Results == [seen : Seq(Nat), print : ByteStrings \cup {Null}, cause : Causes]
<1>1. /\ taken' = Append(taken, t) /\ past' = past
      /\ seen' = <<>> /\ unread' = Null /\ records' = <<>> /\ count' = 0 /\ usedBytes' = 0 /\ totalBytes' = 0
  BY DEF Ends, Idle
<1>2. past # <<>> /\ past \in Seq(Catalogs) /\ seen \in Seq(Nat)
  BY DEF FingerprintInv, CollectionBooks, Sound
<1>3. CollectionBooks'
  <2>1. /\ Sound(past', seen') /\ Reading(past', seen', unread')
        /\ ReadPairs(past', seen', unread') = {} /\ RecordsOf({}) = {} /\ Lists(records', {})
        /\ Cardinality(Bytes({})) = 0 /\ Fitting(past', seen', unread')
    BY <1>1, <1>2, NothingRead
  <2>2. count' \in Nat /\ usedBytes' \in Nat /\ totalBytes' \in Nat /\ unread' = Null
        /\ 0 = totalBytes' + 0 /\ past' # <<>>
    BY <1>1, <1>2
  <2> QED
    BY <2>1, <2>2 DEF CollectionBooks
<1>4. t \in Results /\ Ended(past, t) /\ taken \in Seq(Results) /\ \A j \in 1..Len(taken) : Ended(past, taken[j])
  BY <1>2 DEF FingerprintInv, TakenBooks
<1> HIDE DEF t, Results
<1>5. taken' \in Seq(Results) /\ \A j \in 1..Len(taken') : Ended(past', taken'[j])
  <2>1. /\ Len(taken) \in Nat /\ taken' \in Seq(Results) /\ Len(taken') = Len(taken) + 1
        /\ taken'[Len(taken) + 1] = t /\ \A j \in 1..Len(taken) : taken'[j] = taken[j]
    BY <1>1, <1>4
  <2>2. \A j \in 1..(Len(taken) + 1) : j \in 1..Len(taken) \/ j = Len(taken) + 1
    BY <2>1
  <2> QED
    BY <1>1, <1>4, <2>1, <2>2
<1> QED
  BY <1>3, <1>5 DEF FingerprintInv, TakenBooks, Results

\* What does not fit makes the whole exceed the limits.
LEMMA LimitExceededKeeps == FingerprintInv /\ LimitExceeded => FingerprintInv'
<1> SUFFICES ASSUME FingerprintInv, LimitExceeded PROVE FingerprintInv'
  OBVIOUS
<1>1. PICK row \in unread : ~Fits(row)
  BY DEF LimitExceeded
<1>2. unread # Null /\ Ends(Null, "limit")
  BY DEF LimitExceeded
<1> DEFINE n == Len(seen)
           r == <<Groups[n], row>>
           X == ReadPairs(past, seen, unread)
           all == ReadPairs(past, seen, Null)
           size == Size(r[1], r[2])
           w == unread \ {row}
<1>3. /\ Sound(past, seen) /\ Reading(past, seen, unread)
      /\ usedBytes \in Nat /\ totalBytes \in Nat
      /\ Cardinality(Bytes(X)) = totalBytes + usedBytes
      /\ count = Cardinality(Got(past, seen, unread, n))
  BY <1>2 DEF FingerprintInv, CollectionBooks
<1>4. /\ n \in 1..n /\ r \in AllPairs /\ r \notin X /\ X \cup {r} \subseteq all
      /\ count \in Nat /\ Cardinality(Got(past, seen, w, n)) = count + 1
      /\ Cardinality(Got(past, seen, w, n)) <= Cardinality(Got(past, seen, Null, n))
      /\ Cardinality(Got(past, seen, Null, n)) \in Nat
  <2>1. /\ w = unread \ {row} /\ r = <<Groups[Len(seen)], row>> /\ X = ReadPairs(past, seen, unread)
        /\ n = Len(seen) /\ all = ReadPairs(past, seen, Null)
    OBVIOUS
  <2> HIDE DEF r, X, n, w, all
  <2>2. /\ Len(seen) \in 1..Len(seen) /\ r \in AllPairs /\ r \notin ReadPairs(past, seen, unread)
        /\ ReadPairs(past, seen, unread) \cup {r} \subseteq ReadPairs(past, seen, Null)
        /\ Cardinality(Got(past, seen, unread, Len(seen))) \in Nat
        /\ Cardinality(Got(past, seen, w, Len(seen))) = Cardinality(Got(past, seen, unread, Len(seen))) + 1
        /\ Cardinality(Got(past, seen, w, Len(seen))) <= Cardinality(Got(past, seen, Null, Len(seen)))
        /\ Cardinality(Got(past, seen, Null, Len(seen))) \in Nat
    BY <1>2, <1>3, <2>1, RowIsRead
  <2> QED
    BY <1>3, <2>1, <2>2
<1>5. /\ X \in SUBSET AllPairs /\ IsFiniteSet(X) /\ all \in SUBSET AllPairs /\ IsFiniteSet(all)
  BY <1>3, PairsRead
<1>6. r[1] = Group /\ r[2] = row /\ size = Len(Record(Group, row)) /\ size \in Nat
  <2>1. r[1] = Group /\ r[2] = row
    BY DEF Group
  <2>2. size \in Nat
    BY <1>4, PairsTold
  <2> QED
    BY <2>1, <2>2 DEF Size
<1>7. MaxRowsPerGroup \in Nat /\ MaxRecordBytes \in Nat /\ MaxTotalBytes \in Nat
  BY FingerprintAssumption
<1> HIDE DEF n, r, X, all, size, w
<1>8. \/ ~(count < MaxRowsPerGroup)
      \/ ~\A field \in Range(Fields(r[1], r[2])) : Len(field) <= MaxFieldBytes
      \/ ~(size <= MaxRecordBytes)
      \/ ~(size <= (MaxTotalBytes - totalBytes) - usedBytes)
  BY <1>1, <1>6 DEF Fits
<1>9. ASSUME Fitting(past, seen, Null) PROVE FALSE
  <2>1. /\ Cardinality(Got(past, seen, Null, n)) <= MaxRowsPerGroup
        /\ \A q \in all : /\ \A field \in Range(Fields(q[1], q[2])) : Len(field) <= MaxFieldBytes
                          /\ Size(q[1], q[2]) <= MaxRecordBytes
        /\ Cardinality(Bytes(all)) <= MaxTotalBytes
    BY <1>4, <1>9 DEF Fitting, n, all
  <2>2. r \in all
    BY <1>4
  <2>3. Cardinality(Bytes(X \cup {r})) <= Cardinality(Bytes(all)) /\ Cardinality(Bytes(all)) \in Nat
    BY <1>4, <1>5, BytesOfPairs
  <2>4. Cardinality(Bytes(X \cup {r})) = totalBytes + usedBytes + size
    BY <1>3, <1>4, <1>5, BytesOfPairs DEF size
  <2>5. count < MaxRowsPerGroup
    BY <1>4, <1>7, <2>1
  <2>6. size <= (MaxTotalBytes - totalBytes) - usedBytes
    BY <1>3, <1>6, <1>7, <2>1, <2>3, <2>4
  <2>7. size <= MaxRecordBytes /\ \A field \in Range(Fields(r[1], r[2])) : Len(field) <= MaxFieldBytes
    BY <2>1, <2>2 DEF size
  <2> QED
    BY <1>8, <2>5, <2>6, <2>7
<1>10. Ended(past, [seen |-> seen, print |-> Null, cause |-> "limit"])
  BY <1>3, <1>9 DEF Ended
<1>11. Null \in ByteStrings \cup {Null} /\ "limit" \in Causes
  BY DEF Causes
<1> QED
  BY <1>2, <1>10, <1>11, EndsKeeps

\* An error of the server ends the collection without a fingerprint.
LEMMA ServerErrorKeeps == FingerprintInv /\ ServerError => FingerprintInv'
<1> SUFFICES ASSUME FingerprintInv, ServerError PROVE FingerprintInv'
  OBVIOUS
<1>1. Ends(Null, "server")
  BY DEF ServerError
<1>2. Ended(past, [seen |-> seen, print |-> Null, cause |-> "server"])
  <2>1. Sound(past, seen) /\ "server" # "limit"
    BY DEF FingerprintInv, CollectionBooks
  <2> QED
    BY <2>1 DEF Ended
<1>3. Null \in ByteStrings \cup {Null} /\ "server" \in Causes
  BY DEF Causes
<1> QED
  BY <1>1, <1>2, <1>3, EndsKeeps

\* The fingerprint is the hash of the records of everything that was read.
LEMMA HashKeeps == FingerprintInv /\ Hash => FingerprintInv'
<1> SUFFICES ASSUME FingerprintInv, Hash PROVE FingerprintInv'
  OBVIOUS
<1> DEFINE print == HashSchemaRecords(records)
<1>1. unread = Null /\ Len(seen) = 6 /\ Ends(print, "none")
  BY KindsDiffer DEF Hash
<1>2. /\ Sound(past, seen) /\ Fitting(past, seen, Null)
      /\ Lists(records, RecordsOf(ReadPairs(past, seen, Null)))
  BY <1>1 DEF FingerprintInv, CollectionBooks
<1>3. print \in ByteStrings \cup {Null}
  BY <1>2, HashTells
<1> HIDE DEF print
<1>4. \E rs : Lists(rs, RecordsOf(ReadPairs(past, seen, Null))) /\ print = HashSchemaRecords(rs)
  BY <1>2 DEF print
<1>5. "none" # "limit" /\ "none" \in Causes
  BY DEF Causes
<1>6. Ended(past, [seen |-> seen, print |-> print, cause |-> "none"])
  BY <1>1, <1>2, <1>4, <1>5 DEF Ended
<1> QED
  BY <1>1, <1>3, <1>5, <1>6, EndsKeeps

\* collectSchemaFingerprint: a collection's records are, at every moment, those
\* of the rows read so far, each once, whatever DDL goes on between statements
\* and in whatever order rows come; its counters are exact; and a fingerprint is
\* the hash of the records of all six statements' rows.
THEOREM FingerprintsAreOfRows == FingerprintSpec => []FingerprintInv
<1>1. FingerprintInit => FingerprintInv
  BY FingerprintStarts
<1>2. FingerprintInv /\ [FingerprintNext]_fingerprintVars => FingerprintInv'
  <2> SUFFICES ASSUME FingerprintInv, [FingerprintNext]_fingerprintVars PROVE FingerprintInv'
    OBVIOUS
  <2>1. CASE UNCHANGED fingerprintVars
    BY <2>1 DEF fingerprintVars, collection, FingerprintInv, CollectionBooks, TakenBooks
  <2> QED
    BY <2>1, AlterKeeps, QueryGroupKeeps, ReadRowKeeps, EndGroupKeeps, LimitExceededKeeps,
       ServerErrorKeeps, HashKeeps DEF FingerprintNext
<1> QED
  BY <1>1, <1>2, PTL DEF FingerprintSpec

-----------------------------------------------------------------------------
(* What the fingerprints tell *)

\* A collection that ended kept the limits if its books say so.
LEMMA RowsOfTaken ==
    ASSUME NEW t, Sound(past, t.seen)
    PROVE  /\ DOMAIN RowsOf(t) = 1..Len(t.seen)
           /\ \A i \in 1..Len(t.seen) : RowsOf(t)[i] = Got(past, t.seen, Null, i)
           /\ WithinLimits(t) <=> Fitting(past, t.seen, Null)
<1>1. DOMAIN t.seen = 1..Len(t.seen)
  BY DEF Sound
<1>2. DOMAIN RowsOf(t) = 1..Len(t.seen)
  BY <1>1 DEF RowsOf
<1>3. \A i \in 1..Len(t.seen) : RowsOf(t)[i] = Got(past, t.seen, Null, i)
  BY <1>1 DEF RowsOf, Got
<1>4. UNION {{Groups[i]} \X RowsOf(t)[i] : i \in 1..Len(t.seen)} = ReadPairs(past, t.seen, Null)
  BY <1>3 DEF ReadPairs
<1>5. WithinLimits(t) <=> Fitting(past, t.seen, Null)
  BY <1>1, <1>3, <1>4 DEF WithinLimits, Fitting
<1> QED
  BY <1>2, <1>3, <1>5

\* The same rows of every kind make the same pairs, and no others do.
LEMMA RowsAndPairs ==
    ASSUME NEW s, NEW t, Sound(past, s), Sound(past, t), Len(s) = Len(t)
    PROVE  ReadPairs(past, s, Null) = ReadPairs(past, t, Null)
             <=> \A i \in 1..Len(s) : Got(past, s, Null, i) = Got(past, t, Null, i)
<1>1. ASSUME ReadPairs(past, s, Null) = ReadPairs(past, t, Null), NEW i \in 1..Len(s)
      PROVE  Got(past, s, Null, i) = Got(past, t, Null, i)
  <2>1. \A row : <<Groups[i], row>> \in ReadPairs(past, s, Null) <=> row \in Got(past, s, Null, i)
    BY PairsRead
  <2>2. \A row : <<Groups[i], row>> \in ReadPairs(past, t, Null) <=> row \in Got(past, t, Null, i)
    BY PairsRead
  <2>3. \A row : row \in Got(past, s, Null, i) <=> row \in Got(past, t, Null, i)
    BY <1>1, <2>1, <2>2
  <2> QED
    BY <2>3
<1> QED
  BY <1>1, SameRows

\* Two fingerprints are equal exactly when the same rows of every kind were read
\* for both: the length-prefixed encoding tells any two rows apart, and sorting
\* the records makes the hash independent of the order the server returned them
\* in.  For every catalog that keeps NULL and the empty string apart only where
\* the SELECT list does.
THEOREM PrintsTellSchemas == FingerprintSpec => []SamePrintSameSchema
<1>1. FingerprintInv => SamePrintSameSchema
  <2> SUFFICES ASSUME FingerprintInv, NEW i \in DOMAIN taken, NEW j \in DOMAIN taken,
                      taken[i].print # Null, taken[j].print # Null
               PROVE  taken[i].print = taken[j].print <=> RowsOf(taken[i]) = RowsOf(taken[j])
    BY DEF SamePrintSameSchema
  <2> DEFINE a == taken[i]
             b == taken[j]
             X == ReadPairs(past, a.seen, Null)
             Y == ReadPairs(past, b.seen, Null)
  <2>1. DOMAIN taken = 1..Len(taken)
    BY DEF FingerprintInv, TakenBooks
  <2>2. Ended(past, a) /\ Ended(past, b) /\ a.print # Null /\ b.print # Null
    BY <2>1 DEF FingerprintInv, TakenBooks
  <2> HIDE DEF a, b
  <2>3. Sound(past, a.seen) /\ Sound(past, b.seen) /\ Len(a.seen) = 6 /\ Len(b.seen) = 6
    BY <2>2 DEF Ended
  <2>4. PICK rs : Lists(rs, RecordsOf(X)) /\ a.print = HashSchemaRecords(rs)
    BY <2>2 DEF Ended
  <2>5. PICK qs : Lists(qs, RecordsOf(Y)) /\ b.print = HashSchemaRecords(qs)
    BY <2>2 DEF Ended
  <2>6. X \in SUBSET AllPairs /\ Y \in SUBSET AllPairs
    BY <2>3, PairsRead
  <2> HIDE DEF X, Y
  <2>7. a.print = b.print <=> X = Y
    <3>1. a.print = b.print <=> RecordsOf(X) = RecordsOf(Y)
      BY <2>4, <2>5, HashTells
    <3> QED
      BY <2>6, <3>1, RecordsSayRows
  <2>8. X = Y <=> \A k \in 1..6 : Got(past, a.seen, Null, k) = Got(past, b.seen, Null, k)
    BY <2>3, RowsAndPairs DEF X, Y
  <2>9. /\ DOMAIN RowsOf(a) = 1..6 /\ \A k \in 1..6 : RowsOf(a)[k] = Got(past, a.seen, Null, k)
        /\ DOMAIN RowsOf(b) = 1..6 /\ \A k \in 1..6 : RowsOf(b)[k] = Got(past, b.seen, Null, k)
    BY <2>3, RowsOfTaken
  <2>10. RowsOf(a) = RowsOf(b) <=> \A k \in 1..6 : RowsOf(a)[k] = RowsOf(b)[k]
    <3>1. RowsOf(a) = [k \in 1..6 |-> RowsOf(a)[k]] /\ RowsOf(b) = [k \in 1..6 |-> RowsOf(b)[k]]
      BY <2>9 DEF RowsOf
    <3> QED
      BY <3>1
  <2> QED
    BY <2>7, <2>8, <2>9, <2>10 DEF a, b
<1> QED
  BY <1>1, FingerprintsAreOfRows, PTL

\* The limits consumeSchemaRows keeps row by row and group by group are those of
\* the whole: a fingerprint is only taken within them, and a collection refused
\* for one of them was given rows that exceed it, in whatever order they came.
THEOREM LimitsHoldForAll == FingerprintSpec => []LimitsAreOfTheWhole
<1>1. FingerprintInv => LimitsAreOfTheWhole
  <2> SUFFICES ASSUME FingerprintInv, NEW i \in DOMAIN taken
               PROVE  /\ taken[i].print # Null => WithinLimits(taken[i])
                      /\ taken[i].cause = "limit" => ~WithinLimits(taken[i])
    BY DEF LimitsAreOfTheWhole
  <2>1. DOMAIN taken = 1..Len(taken)
    BY DEF FingerprintInv, TakenBooks
  <2>2. Ended(past, taken[i])
    BY <2>1 DEF FingerprintInv, TakenBooks
  <2>3. WithinLimits(taken[i]) <=> Fitting(past, taken[i].seen, Null)
    BY <2>2, RowsOfTaken DEF Ended
  <2> QED
    BY <2>2, <2>3 DEF Ended
<1> QED
  BY <1>1, FingerprintsAreOfRows, PTL
=============================================================================
