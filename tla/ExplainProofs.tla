--------------------------- MODULE ExplainProofs ----------------------------
(***************************************************************************)
(* Proofs about Explain: the types, that the command leaves nothing        *)
(* behind, whatever fails, hangs or expires at which moment, and that a    *)
(* report of any plan is the safe part of it.                              *)
(*                                                                         *)
(* What the server holds is tied to who is responsible for it: a server in *)
(* a transaction has either the command, whose tx is open, or database/sql *)
(* at work, and the latter only because the context expired.               *)
(***************************************************************************)
EXTENDS Explain, FiniteSetTheorems, SequenceTheorems, TLAPS

Opening == {"start", "ping", "identity", "probe", "begin"}
Closing == {"close", "done", "failed", "exited"}
Returned == {"done", "failed", "exited"}

\* database/sql ends the transaction that nobody ended before, when its
\* context expired; the command cancels the context of ended ones only.
OneEndsTheTransaction ==
    /\ tx = "none" => closer = "none"
    /\ closer = "rolling" => tx = "done" /\ context = "expired"
    /\ context = "cancelled" => tx # "open"
    /\ session = "transaction" => tx = "open" \/ closer = "rolling"

\* Where the command is tells what it has done.
Progress ==
    /\ pc = "start" => pool = "none"
    /\ pc \in Opening => tx = "none"
    /\ pc \in Closing => tx # "open"
    /\ pc \in Returned => pool # "open"
    /\ pc = "sanitize" => tx = "done" /\ session # "transaction" /\ closer # "rolling"
    /\ report # None =>
          pc \in Closing /\ tx = "done" /\ session # "transaction" /\ closer # "rolling"

ExplainInv == ExplainTypeOK /\ OneEndsTheTransaction /\ Progress

-----------------------------------------------------------------------------
(* Types *)

\* Before the command is started everything has its type.
LEMMA InitTypes == ExplainInit => ExplainTypeOK
BY DEF ExplainInit, ExplainTypeOK

\* A step of the command, of database/sql or of the server keeps the types.
LEMMA StepTypes == ExplainTypeOK /\ [ExplainNext]_explainVars => ExplainTypeOK'
<1> SUFFICES ASSUME ExplainTypeOK, [ExplainNext]_explainVars
             PROVE  ExplainTypeOK'
  OBVIOUS
<1> USE DEF ExplainTypeOK
<1>1. CASE Start
  BY <1>1 DEF Start, Goes
<1>2. CASE Ping \/ ReadIdentity \/ OpenFails \/ Probe
  BY <1>2 DEF Ping, ReadIdentity, OpenFails, Probe, Goes
<1>3. CASE Begin \/ BeginFails
  BY <1>3 DEF Begin, BeginFails, Goes
<1>4. CASE Query \/ QueryFails
  BY <1>4 DEF Query, QueryFails, Goes
<1>5. CASE Rollback
  BY <1>5 DEF Rollback, GivenBack, RolledBack
<1>6. CASE Sanitize
  BY <1>6 DEF Sanitize, Goes
<1>7. CASE Close \/ Exit
  BY <1>7 DEF Close, Exit
<1>8. CASE Expire \/ AwaitDone \/ ServerHangs
  BY <1>8 DEF Expire, AwaitDone, ServerHangs
<1>9. CASE RollbackByContext
  BY <1>9 DEF RollbackByContext, GivenBack, RolledBack
<1>10. CASE Exited \/ UNCHANGED explainVars
  BY <1>10 DEF Exited, explainVars
<1> QED
  BY <1>1, <1>2, <1>3, <1>4, <1>5, <1>6, <1>7, <1>8, <1>9, <1>10 DEF ExplainNext, Command

\* The variables of the command, of database/sql and of the server keep their
\* types.
THEOREM ExplainTypes == ExplainSpec => []ExplainTypeOK
BY InitTypes, StepTypes, PTL DEF ExplainSpec

-----------------------------------------------------------------------------
(* The invariant *)

\* Nobody is in a transaction yet.
LEMMA InitInv == ExplainInit => ExplainInv
<1> SUFFICES ASSUME ExplainInit PROVE ExplainInv
  OBVIOUS
<1>1. ExplainTypeOK
  BY InitTypes
<1> QED
  BY <1>1 DEF ExplainInit, ExplainInv, OneEndsTheTransaction, Progress, Opening, Closing, Returned

\* In each step a transaction is begun or ended together with the
\* responsibility for it.
LEMMA StepInv == ExplainInv /\ [ExplainNext]_explainVars => ExplainInv'
<1> SUFFICES ASSUME ExplainInv, [ExplainNext]_explainVars
             PROVE  OneEndsTheTransaction' /\ Progress'
  BY StepTypes DEF ExplainInv
<1> USE DEF ExplainInv, ExplainTypeOK, OneEndsTheTransaction, Progress, Opening, Closing, Returned
<1>1. CASE Start
  BY <1>1 DEF Start, Goes
<1>2. CASE Ping \/ ReadIdentity
  BY <1>2 DEF Ping, ReadIdentity, Goes
<1>3. CASE OpenFails
  BY <1>3 DEF OpenFails
<1>4. CASE Probe
  BY <1>4 DEF Probe, Goes
<1>5. CASE Begin
  BY <1>5 DEF Begin, Goes
<1>6. CASE BeginFails
  BY <1>6 DEF BeginFails, Goes
<1>7. CASE Query
  BY <1>7 DEF Query, Goes
<1>8. CASE QueryFails
  BY <1>8 DEF QueryFails, Goes
<1>9. CASE Rollback
  <2>1. report' = report /\ closer' = closer /\ pool' = pool /\ pc' \in {"close", "sanitize"}
    BY <1>9 DEF Rollback
  <2>2. report = None
    BY <1>9 DEF Rollback
  <2>3. CASE tx = "open"
    \* The command is first: nobody else is at work, and the server is free.
    <3>1. tx' = "done" /\ session' # "transaction"
      BY <1>9, <2>3 DEF Rollback, GivenBack, RolledBack
    <3>2. context' \in {context, "cancelled"}
      BY <1>9 DEF Rollback
    <3> QED
      BY <2>1, <2>2, <2>3, <3>1, <3>2
  <2>4. CASE tx = "done"
    <3>1. UNCHANGED <<tx, session>> /\ pc' = "close"
      BY <1>9, <2>4 DEF Rollback
    <3>2. context' = IF context = "live" THEN "cancelled" ELSE context
      BY <1>9, <2>4 DEF Rollback
    <3> QED
      BY <2>1, <2>2, <2>4, <3>1, <3>2
  <2> QED
    BY <1>9, <2>3, <2>4 DEF Rollback
<1>10. CASE Sanitize
  <2>1. pc = "sanitize" /\ pc' = "close" /\ UNCHANGED <<pool, session, tx, closer>>
    BY <1>10 DEF Sanitize, Goes
  <2>2. context' = IF context = "live" THEN "cancelled" ELSE context
    BY <1>10 DEF Sanitize
  <2> QED
    BY <2>1, <2>2
<1>11. CASE Close
  BY <1>11 DEF Close
<1>12. CASE Exit
  BY <1>12 DEF Exit
<1>13. CASE Expire \/ ServerHangs
  BY <1>13 DEF Expire, ServerHangs
<1>14. CASE AwaitDone
  BY <1>14 DEF AwaitDone
<1>15. CASE RollbackByContext
  BY <1>15 DEF RollbackByContext, GivenBack, RolledBack
<1>16. CASE Exited \/ UNCHANGED explainVars
  BY <1>16 DEF Exited, explainVars
<1> QED
  BY <1>1, <1>2, <1>3, <1>4, <1>5, <1>6, <1>7, <1>8, <1>9, <1>10, <1>11, <1>12, <1>13, <1>14,
     <1>15, <1>16 DEF ExplainNext, Command

\* The inductive invariant: at any moment at most one of the command and
\* database/sql is responsible for the transaction, and no plan is reported
\* of a transaction that has not ended.
THEOREM Responsibility == ExplainSpec => []ExplainInv
BY InitInv, StepInv, PTL DEF ExplainSpec

-----------------------------------------------------------------------------
\* For every set of plans: when the command returns its pool is closed, the
\* server is in a transaction only if the context expired under it, and a
\* plan is reported only after the command's own rollback.
THEOREM LeavesNothingBehind == ExplainSpec => []NothingLeftBehind
<1>1. ExplainInv => NothingLeftBehind
  BY DEF ExplainInv, OneEndsTheTransaction, Progress, NothingLeftBehind, Closing, Returned
<1> QED
  BY <1>1, Responsibility, PTL

-----------------------------------------------------------------------------
(* Plans are trees *)

\* The beginning of a beginning.
LEMMA BeginningOfBeginning ==
    ASSUME NEW v \in Seq(STRING), NEW n \in 0..Len(v), NEW k \in 0..n
    PROVE  /\ SubSeq(v, 1, n) \in Seq(STRING) /\ Len(SubSeq(v, 1, n)) = n
           /\ SubSeq(SubSeq(v, 1, n), 1, k) = SubSeq(v, 1, k)
<1> DEFINE s == SubSeq(v, 1, n)
<1>1. s \in Seq(STRING) /\ Len(s) = n /\ \A i \in 1..n : s[i] = v[i]
  OBVIOUS
<1> HIDE DEF s
<1>2. /\ SubSeq(s, 1, k) \in Seq(STRING) /\ Len(SubSeq(s, 1, k)) = k
      /\ \A i \in 1..k : SubSeq(s, 1, k)[i] = s[i]
  BY <1>1
<1>3. /\ SubSeq(v, 1, k) \in Seq(STRING) /\ Len(SubSeq(v, 1, k)) = k
      /\ \A i \in 1..k : SubSeq(v, 1, k)[i] = v[i]
  OBVIOUS
<1>4. SubSeq(s, 1, k) = SubSeq(v, 1, k)
  BY <1>1, <1>2, <1>3, SeqEqual
<1> QED
  BY <1>1, <1>4 DEF s

\* The least-number principle, without an operator for the property.
LEMMA LeastOf ==
    ASSUME NEW S \in SUBSET Nat, S # {}
    PROVE  \E m \in S : \A n \in S : m <= n
<1> DEFINE R == OpToRel(<, Nat)
<1>1. IsWellFoundedOn(R, Nat)
  BY NatLessThanWellFounded
<1>2. \A x, y \in Nat : x < y => <<x, y>> \in R
  BY DEF OpToRel
<1> HIDE DEF R
<1>3. PICK m \in S : \A n \in S : ~(<<n, m>> \in R)
  BY <1>1, WFMin
<1>4. \A n \in S : ~(n < m)
  BY <1>2, <1>3
<1> QED
  BY <1>3, <1>4

\* The way to a value leads through values.
LEMMA WaysAreValues ==
    ASSUME NEW plan, IsTree(plan), NEW v \in DOMAIN plan, NEW n \in 0..Len(v)
    PROVE  SubSeq(v, 1, n) \in DOMAIN plan
<1> DEFINE From(k) == \A j \in k..Len(v) : SubSeq(v, 1, j) \in DOMAIN plan
           S == {k \in 0..Len(v) : From(k)}
<1>1. v \in Seq(STRING) /\ Len(v) \in Nat
  BY DEF IsTree
<1>2. Len(v) \in S
  <2>1. SubSeq(v, 1, Len(v)) = v
    BY <1>1, SubSeqFull
  <2>2. \A j \in Len(v)..Len(v) : j = Len(v)
    BY <1>1
  <2>3. From(Len(v))
    BY <2>1, <2>2
  <2>4. Len(v) \in 0..Len(v)
    BY <1>1
  <2> HIDE DEF From
  <2> QED
    BY <2>3, <2>4
<1>3. S \in SUBSET Nat
  BY <1>1
<1>4. PICK m \in S : \A k \in S : m <= k
  BY <1>2, <1>3, LeastOf
<1>5. m = 0
  <2> SUFFICES ASSUME m # 0 PROVE FALSE
    OBVIOUS
  <2>1. m \in 1..Len(v) /\ m - 1 \in 0..m
    BY <1>1, <1>4
  <2> DEFINE w == SubSeq(v, 1, m)
  <2>2. w \in DOMAIN plan /\ Len(w) = m /\ SubSeq(w, 1, m - 1) = SubSeq(v, 1, m - 1)
    BY <1>1, <1>4, <2>1, BeginningOfBeginning
  <2>3. w # <<>>
    BY <2>1, <2>2
  <2>4. Parent(w) \in DOMAIN plan
    BY <2>2, <2>3 DEF IsTree
  <2>5. SubSeq(v, 1, m - 1) \in DOMAIN plan
    BY <2>2, <2>4 DEF Parent
  <2>6. \A j \in (m - 1)..Len(v) : j = m - 1 \/ j \in m..Len(v)
    BY <1>1, <2>1
  <2>7. m - 1 \in S
    BY <1>1, <1>4, <2>1, <2>5, <2>6
  <2> HIDE DEF S
  <2>8. m <= m - 1 /\ m \in Int
    BY <1>3, <1>4, <2>7
  <2> QED
    BY <2>8
<1> QED
  BY <1>4, <1>5

\* The values under a value, itself among them.
Under(plan, v) == {w \in DOMAIN plan : Len(v) <= Len(w) /\ SubSeq(w, 1, Len(v)) = v}

\* What is under a child is under its parent.
LEMMA UnderChild ==
    ASSUME NEW plan, IsTree(plan), NEW v \in DOMAIN plan,
           NEW c \in Children(plan, v), NEW w \in Under(plan, c)
    PROVE  w \in Under(plan, v) /\ w # v
<1>1. c \in DOMAIN plan /\ c # <<>> /\ Parent(c) = v /\ c \in Seq(STRING)
  BY DEF Children, IsTree
<1>2. w \in DOMAIN plan /\ w \in Seq(STRING) /\ Len(c) <= Len(w) /\ SubSeq(w, 1, Len(c)) = c
  BY DEF Under, IsTree
<1>3. Len(c) \in 1..Len(w) /\ Len(c) - 1 \in 0..Len(c) /\ Len(w) \in Nat
  BY <1>1, <1>2
<1>4. v = SubSeq(w, 1, Len(c) - 1) /\ Len(v) = Len(c) - 1
  <2> DEFINE n == Len(c)
             k == n - 1
  <2>1. n \in 0..Len(w) /\ k \in 0..n /\ k \in 0..Len(w)
    BY <1>3
  <2>2. v = SubSeq(c, 1, k) /\ c = SubSeq(w, 1, n)
    BY <1>1, <1>2 DEF Parent
  <2> HIDE DEF n, k
  <2>3. SubSeq(SubSeq(w, 1, n), 1, k) = SubSeq(w, 1, k) /\ Len(SubSeq(w, 1, k)) = k
    BY <1>2, <2>1, BeginningOfBeginning
  <2>4. v = SubSeq(w, 1, k) /\ Len(v) = k
    BY <2>2, <2>3
  <2> QED
    BY <2>4 DEF n, k
<1> QED
  BY <1>2, <1>3, <1>4 DEF Under

\* What is under a value, but not itself, is under one of its children.
LEMMA UnderIsUnderChild ==
    ASSUME NEW plan, IsTree(plan), NEW v \in DOMAIN plan, NEW w \in Under(plan, v), w # v
    PROVE  \E c \in Children(plan, v) : w \in Under(plan, c)
<1> DEFINE n == Len(v)
           c == SubSeq(w, 1, n + 1)
<1>1. /\ v \in Seq(STRING) /\ w \in DOMAIN plan /\ w \in Seq(STRING)
      /\ n \in Nat /\ Len(w) \in Nat /\ n <= Len(w) /\ SubSeq(w, 1, n) = v
  BY DEF Under, IsTree
<1>2. n # Len(w)
  BY <1>1, SubSeqFull
<1>3. n + 1 \in 0..Len(w) /\ n \in 0..(n + 1)
  BY <1>1, <1>2
<1>4. c \in DOMAIN plan
  BY <1>1, <1>3, WaysAreValues
<1>5. Len(c) = n + 1 /\ SubSeq(c, 1, n) = v
  BY <1>1, <1>3, BeginningOfBeginning
<1> HIDE DEF c
<1>6. c # <<>> /\ Parent(c) = v
  BY <1>1, <1>5 DEF Parent
<1>7. c \in Children(plan, v)
  BY <1>4, <1>6 DEF Children
<1>8. w \in Under(plan, c)
  BY <1>1, <1>3, <1>5 DEF Under, c
<1> QED
  BY <1>7, <1>8

-----------------------------------------------------------------------------
(* The filter *)

\* What the filter says of a value, when kept says it of its children.
KeptBy(plan, kept, v) ==
    CASE plan[v] = "map"   -> \E c \in Children(plan, v) : kept[c]
      [] plan[v] = "array" -> InArray(plan, v) \/ \E c \in Children(plan, v) : kept[c]
      [] OTHER             -> Allowed(plan, v)

IsFilter(plan, kept) == kept = [v \in DOMAIN plan |-> KeptBy(plan, kept, v)]

\* What is kept whatever is below it.
Safe(plan, v) ==
    CASE plan[v] = "map"   -> FALSE
      [] plan[v] = "array" -> InArray(plan, v)
      [] OTHER             -> Allowed(plan, v)

\* The filter is well defined on a tree: to keep what has something safe
\* under it is to work from the leaves up.
LEMMA FilterExists ==
    ASSUME NEW plan, IsTree(plan)
    PROVE  \E kept : IsFilter(plan, kept)
<1> DEFINE HasSafe(v) == \E w \in Under(plan, v) : Safe(plan, w)
           h == [v \in DOMAIN plan |-> HasSafe(v)]
<1>1. ASSUME NEW v \in DOMAIN plan PROVE HasSafe(v) <=> KeptBy(plan, h, v)
  <2>1. v \in Under(plan, v)
    <3>1. v \in Seq(STRING) /\ Len(v) \in Nat
      BY DEF IsTree
    <3> QED
      BY <3>1, SubSeqFull DEF Under
  <2>2. (\E c \in Children(plan, v) : h[c]) <=> \E w \in Under(plan, v) : w # v /\ Safe(plan, w)
    <3>1. \A c \in Children(plan, v) : c \in DOMAIN plan
      BY DEF Children
    <3> QED
      BY <3>1, UnderChild, UnderIsUnderChild
  <2>3. HasSafe(v) <=> Safe(plan, v) \/ \E c \in Children(plan, v) : h[c]
    BY <2>1, <2>2
  <2>4. plan[v] \notin {"map", "array"} => Children(plan, v) = {}
    BY DEF Children, IsTree
  <2> HIDE DEF h, HasSafe
  <2>5. CASE plan[v] = "map"
    BY <2>3, <2>5 DEF Safe, KeptBy
  <2>6. CASE plan[v] = "array"
    BY <2>3, <2>6 DEF Safe, KeptBy
  <2>7. CASE plan[v] \notin {"map", "array"}
    <3>1. Safe(plan, v) <=> Allowed(plan, v)
      BY <2>7 DEF Safe
    <3>2. KeptBy(plan, h, v) <=> Allowed(plan, v)
      BY <2>7 DEF KeptBy
    <3> QED
      BY <2>3, <2>4, <2>7, <3>1, <3>2
  <2> QED
    BY <2>5, <2>6, <2>7
<1>2. ASSUME NEW v \in DOMAIN plan PROVE HasSafe(v) = KeptBy(plan, h, v)
  <2>1. HasSafe(v) \in BOOLEAN
    OBVIOUS
  <2> HIDE DEF h, HasSafe
  <2>2. KeptBy(plan, h, v) \in BOOLEAN
    <3>1. CASE plan[v] = "map"
      <4>1. KeptBy(plan, h, v) = \E c \in Children(plan, v) : h[c]
        BY <3>1 DEF KeptBy
      <4> QED
        BY <4>1
    <3>2. CASE plan[v] = "array"
      <4>1. KeptBy(plan, h, v) = (InArray(plan, v) \/ \E c \in Children(plan, v) : h[c])
        BY <3>2 DEF KeptBy
      <4> QED
        BY <4>1
    <3>3. CASE plan[v] \notin {"map", "array"}
      <4>1. KeptBy(plan, h, v) = Allowed(plan, v)
        BY <3>3 DEF KeptBy
      <4>2. Allowed(plan, v) \in BOOLEAN
        BY DEF Allowed
      <4> QED
        BY <4>1, <4>2
    <3> QED
      BY <3>1, <3>2, <3>3
  <2> QED
    BY <1>1, <2>1, <2>2 DEF h
<1>3. h = [v \in DOMAIN plan |-> KeptBy(plan, h, v)]
  <2>1. h = [v \in DOMAIN plan |-> HasSafe(v)]
    OBVIOUS
  <2> HIDE DEF h, HasSafe
  <2> QED
    BY <1>2, <2>1
<1> QED
  BY <1>3 DEF IsFilter

\* What the sanitizer leaves of a plan, by the filter.
LEMMA SanitizedByFilter ==
    ASSUME NEW plan, IsTree(plan)
    PROVE  \E kept : /\ \A v \in DOMAIN plan : kept[v] <=> KeptBy(plan, kept, v)
                     /\ Sanitized(plan) = [v \in {w \in DOMAIN plan : kept[w]} |-> plan[v]]
<1> DEFINE kept == CHOOSE f : IsFilter(plan, f)
<1>1. IsFilter(plan, kept)
  BY FilterExists
<1>2. Sanitized(plan) = [v \in {w \in DOMAIN plan : kept[w]} |-> plan[v]]
  BY DEF Sanitized, IsFilter, KeptBy
<1> HIDE DEF kept
<1>3. \A v \in DOMAIN plan : kept[v] <=> KeptBy(plan, kept, v)
  BY <1>1 DEF IsFilter
<1> QED
  BY <1>2, <1>3

\* The sanitized plan has the safe leaves and the way to each of them.
LEMMA SanitizedIsTheSafePart ==
    ASSUME NEW plan, IsTree(plan)
    PROVE  LET safe == Sanitized(plan)
           IN  /\ {v \in DOMAIN safe : safe[v] \notin {"map", "array"}} = SafeLeaves(plan)
               /\ \A v \in DOMAIN safe :
                     safe[v] = plan[v] /\ (v = <<>> \/ Parent(v) \in DOMAIN safe)
<1> DEFINE safe == Sanitized(plan)
<1>1. PICK kept : /\ \A v \in DOMAIN plan : kept[v] <=> KeptBy(plan, kept, v)
                  /\ safe = [v \in {w \in DOMAIN plan : kept[w]} |-> plan[v]]
  BY SanitizedByFilter
<1> HIDE DEF safe
<1>2. /\ \A v : v \in DOMAIN safe <=> v \in DOMAIN plan /\ kept[v]
      /\ \A v \in DOMAIN safe : safe[v] = plan[v]
  BY <1>1
<1>3. ASSUME NEW v \in DOMAIN plan, plan[v] \notin {"map", "array"}
      PROVE  kept[v] <=> v \in SafeLeaves(plan)
  <2>1. kept[v] <=> Allowed(plan, v)
    BY <1>1, <1>3 DEF KeptBy
  <2>2. plan[v] \in {"string", "number", "bool", "null"}
    BY <1>3 DEF IsTree, Sorts
  <2>3. plan[v] = "null" => ~Allowed(plan, v)
    BY DEF Allowed
  <2> QED
    BY <2>1, <2>2, <2>3 DEF SafeLeaves
<1>4. \A v \in SafeLeaves(plan) : v \in DOMAIN plan /\ plan[v] \notin {"map", "array"}
  BY DEF SafeLeaves
<1>5. {v \in DOMAIN safe : safe[v] \notin {"map", "array"}} = SafeLeaves(plan)
  BY <1>2, <1>3, <1>4
<1>6. ASSUME NEW v \in DOMAIN safe, v # <<>> PROVE Parent(v) \in DOMAIN safe
  <2> DEFINE p == Parent(v)
  <2>1. /\ v \in DOMAIN plan /\ kept[v]
        /\ p \in DOMAIN plan /\ plan[p] \in {"map", "array"}
    BY <1>2, <1>6 DEF IsTree
  <2>2. v \in Children(plan, p)
    BY <1>6, <2>1 DEF Children
  <2> HIDE DEF p
  <2>3. KeptBy(plan, kept, p)
    BY <2>1, <2>2 DEF KeptBy
  <2>4. p \in DOMAIN safe
    BY <1>1, <1>2, <2>1, <2>3
  <2> QED
    BY <2>4 DEF p
<1> QED
  BY <1>2, <1>5, <1>6 DEF safe

-----------------------------------------------------------------------------
(* The report *)

\* Only an answered plan is sanitized and reported, and it stays the answer.
ReportBooks ==
    /\ pc = "rollback" => error \/ answer \in DOMAIN Plans
    /\ pc = "sanitize" => answer \in DOMAIN Plans
    /\ report # None =>
          pc \in Closing /\ answer \in DOMAIN Plans /\ report = Sanitized(Plans[answer])

\* A step that leaves answer and report keeps the books, if the command does
\* not come to roll back or to sanitize by it.
LEMMA ReportBooksStay ==
    ASSUME ReportBooks, UNCHANGED <<answer, report>>,
           pc' = "rollback" => error' \/ (pc = "rollback" /\ error' = error),
           pc' = "sanitize" => pc = "sanitize" \/ (pc = "rollback" /\ ~error),
           pc \in Closing => pc' \in Closing
    PROVE  ReportBooks'
BY DEF ReportBooks

\* Each step keeps the books of the report.
LEMMA StepReport == ReportBooks /\ [ExplainNext]_explainVars => ReportBooks'
<1> SUFFICES ASSUME ReportBooks, [ExplainNext]_explainVars PROVE ReportBooks'
  OBVIOUS
<1>1. CASE Start \/ Ping \/ ReadIdentity \/ OpenFails \/ Probe \/ Begin \/ BeginFails
  BY <1>1, ReportBooksStay
  DEF Start, Ping, ReadIdentity, OpenFails, Probe, Begin, BeginFails, Goes, Closing
<1>2. CASE Query
  <2>1. /\ pc = "query" /\ pc' = "rollback" /\ answer' \in DOMAIN Plans
        /\ UNCHANGED report
    BY <1>2 DEF Query, Goes
  <2>2. report = None
    BY <2>1 DEF ReportBooks, Closing
  <2> QED
    BY <2>1, <2>2 DEF ReportBooks
<1>3. CASE QueryFails
  BY <1>3, ReportBooksStay DEF QueryFails, Goes, Closing
<1>4. CASE Rollback
  <2>1. /\ pc = "rollback" /\ pc' = IF error' THEN "close" ELSE "sanitize"
        /\ UNCHANGED <<answer, report>> /\ (error => error')
    BY <1>4 DEF Rollback, RolledBack
  <2> QED
    BY <2>1, ReportBooksStay DEF Closing
<1>5. CASE Sanitize
  <2>1. /\ pc = "sanitize" /\ pc' = "close" /\ UNCHANGED answer
        /\ report' = Sanitized(Plans[answer]) \/ report' = report
    BY <1>5 DEF Sanitize, Goes
  <2> QED
    BY <2>1 DEF ReportBooks, Closing
<1>6. CASE Close \/ Exit
  BY <1>6, ReportBooksStay DEF Close, Exit, Closing
<1>7. CASE Expire \/ AwaitDone \/ RollbackByContext \/ ServerHangs \/ Exited \/ UNCHANGED explainVars
  BY <1>7, ReportBooksStay
  DEF Expire, AwaitDone, RollbackByContext, ServerHangs, Exited, explainVars, Closing
<1> QED
  BY <1>1, <1>2, <1>3, <1>4, <1>5, <1>6, <1>7 DEF ExplainNext, Command

\* For every list of plans that are trees, of any depth and width: a report
\* is the safe part of the plan that was answered, all of it and no more.
THEOREM ReportsAreSafe == ExplainSpec => []ReportIsTheSafePart
<1>1. ExplainInit => ReportBooks
  BY DEF ExplainInit, ReportBooks
<1>2. ReportBooks => ReportIsTheSafePart
  <2> SUFFICES ASSUME ReportBooks, report # None PROVE ReportIsTheSafePart
    BY DEF ReportIsTheSafePart
  <2>1. report = Sanitized(Plans[answer]) /\ IsTree(Plans[answer])
    BY ExplainAssumption DEF ReportBooks
  <2> QED
    BY <2>1, SanitizedIsTheSafePart DEF ReportIsTheSafePart
<1> QED
  BY <1>1, <1>2, StepReport, PTL DEF ExplainSpec
=============================================================================
