--------------------------- MODULE VisibilityProofs ---------------------------
(***************************************************************************)
(* Proofs about Visibility for lists of any objects and any room: what a   *)
(* snapshot that is stored says of each collector is what was there when   *)
(* it was read, or a full list.  A snapshot with less has a warning, and   *)
(* is not stored.                                                          *)
(***************************************************************************)
EXTENDS Visibility, FiniteSetTheorems, SequenceTheorems, TLAPS

\* What was there of a collector's objects when it was read, by a history of
\* the server, and what a snapshot without a warning says of them: nothing
\* if the collector was not selected; all of them, or, unless it is a risk
\* scan, a full list of them.
HeldIn(h, s, c) == h[s.readAt[c]] \cap Objects[c]

AnsweredIn(h, s, c) ==
    LET shown == s.seen \cap Objects[c]
        held  == HeldIn(h, s, c)
    IN  IF CollectorRequires[c] \subseteq s.caps
        THEN /\ s.readAt[c] \in 1..Len(h) /\ shown \subseteq held
             /\ IF c \in RiskScans THEN shown = held /\ Cardinality(held) <= Room[c]
                ELSE shown = held \/ Cardinality(shown) = Room[c]
        ELSE shown = {}

VisibilityTypes ==
    /\ past \in Seq(SUBSET AllObjects) /\ past # <<>>
    /\ pc \in {"idle", "collect", "done"}
    /\ left \subseteq Collectors
    /\ readAt \in [Collectors -> Nat]

\* What a warning is about, apart from the one that follows from the others.
Complaints ==
    {<<"failed", x>> : x \in Collectors \cup {"history"}}
    \cup {<<"truncated", c>> : c \in RiskScans \cap Collectors}
Skipped == {<<"skipped", "history">>}

\* A risk scan that warns has left something out.
Overfull(c) ==
    /\ c \in RiskScans /\ c \notin left /\ CollectorRequires[c] \subseteq caps
    /\ readAt[c] \in 1..Len(past) /\ Cardinality(HeldIn(past, Snapshot, c)) > Room[c]

\* The inspection under way: a collector that is still to run is selected and
\* has shown nothing, one that is through is answered for or warned about.
TurnOf(c) ==
    /\ c \in left => CollectorRequires[c] \subseteq caps /\ seen \cap Objects[c] = {}
    /\ c \notin left => \/ AnsweredIn(past, Snapshot, c)
                        \/ <<"failed", c>> \in warnings \/ <<"truncated", c>> \in warnings
    /\ <<"truncated", c>> \in warnings => Overfull(c)

InspectionBooks ==
    /\ pc = "idle" => seen = {} /\ warnings = {}
    /\ pc # "idle" => \A c \in Collectors : TurnOf(c)
    /\ pc = "collect" => warnings \subseteq Complaints
    /\ pc = "done" =>
         /\ left = {}
         /\ warnings \subseteq Complaints \cup Skipped
         /\ warnings \cap Complaints = {} => warnings = {}
         /\ warnings = {} => stored # <<>> /\ stored[Len(stored)] = Snapshot

\* The history holds only snapshots that nothing is missing from unsaid.
HistoryBooks ==
    stored # <<>> =>
        /\ Len(stored) \in 1..2
        /\ \A i \in 1..Len(stored) : \A c \in Collectors : AnsweredIn(past, stored[i], c)

VisibilityInv == VisibilityTypes /\ InspectionBooks /\ HistoryBooks

-----------------------------------------------------------------------------
(* Lists that are cut *)

\* A list that is not longer than its limit is not cut.
LEMMA ShortListsStay ==
    ASSUME NEW S \in SUBSET Nat, IsFiniteSet(S), NEW n \in Nat, Cardinality(S) <= n
    PROVE  FirstOf(S, n) = S
<1>1. ASSUME NEW o \in S PROVE Cardinality({p \in S : p < o}) < n
  <2> DEFINE before == {p \in S : p < o}
  <2>1. before \subseteq S \ {o}
    OBVIOUS
  <2>2. IsFiniteSet(S \ {o}) /\ Cardinality(S \ {o}) = Cardinality(S) - 1 /\ Cardinality(S) \in Nat
    BY FS_RemoveElement, FS_CardinalityType
  <2>3. Cardinality(before) <= Cardinality(S \ {o}) /\ Cardinality(before) \in Nat
    BY <2>1, <2>2, FS_Subset, FS_CardinalityType
  <2> QED
    BY <2>2, <2>3
<1> QED
  BY <1>1 DEF FirstOf

\* The numbers below n are n numbers.
LEMMA CountBelow ==
    ASSUME NEW n \in Nat
    PROVE  IsFiniteSet(0..(n - 1)) /\ Cardinality(0..(n - 1)) = n
<1>1. n - 1 \in Int
  OBVIOUS
<1>2. /\ IsFiniteSet(0..(n - 1))
      /\ Cardinality(0..(n - 1)) = IF 0 > n - 1 THEN 0 ELSE (n - 1) - 0 + 1
  BY <1>1, FS_Interval
<1> QED
  BY <1>2

\* How many come before a member of a list: this numbers the members from 0
\* on without a gap.
LEMMA PlacesHaveNoGap ==
    ASSUME NEW S \in SUBSET Nat, IsFiniteSet(S), NEW place,
           place = [o \in S |-> Cardinality({p \in S : p < o})]
    PROVE  place \in Bijection(S, 0..(Cardinality(S) - 1))
<1> DEFINE size == Cardinality(S)
<1>1. size \in Nat
  BY FS_CardinalityType
<1>2. ASSUME NEW o \in S PROVE place[o] \in 0..(size - 1)
  <2> DEFINE before == {p \in S : p < o}
  <2>1. before \in SUBSET (S \ {o})
    OBVIOUS
  <2>2. IsFiniteSet(S \ {o}) /\ Cardinality(S \ {o}) = size - 1
    BY FS_RemoveElement
  <2> HIDE DEF before
  <2>3. IsFiniteSet(before) /\ Cardinality(before) <= Cardinality(S \ {o})
    BY <2>1, <2>2, FS_Subset
  <2>4. Cardinality(before) \in Nat
    BY <2>3, FS_CardinalityType
  <2>5. place[o] = Cardinality(before)
    BY DEF before
  <2> HIDE DEF size
  <2> QED
    BY <1>1, <2>2, <2>3, <2>4, <2>5
<1>3. ASSUME NEW o \in S, NEW q \in S, o < q PROVE place[o] < place[q]
  <2> DEFINE before == {p \in S : p < o}
             upto == {p \in S : p < q}
  <2>1. upto \in SUBSET S /\ before \in SUBSET upto /\ before # upto
    <3>1. o \in upto /\ o \notin before
      BY <1>3
    <3>2. ASSUME NEW p \in S, p < o PROVE p < q
      <4>1. p \in Int /\ o \in Int /\ q \in Int
        OBVIOUS
      <4> QED
        BY <1>3, <3>2, <4>1
    <3>3. before \subseteq upto
      BY <3>2
    <3> QED
      BY <3>1, <3>3
  <2>2. place[o] = Cardinality(before) /\ place[q] = Cardinality(upto)
    OBVIOUS
  <2> HIDE DEF before, upto
  <2>3. IsFiniteSet(upto)
    BY <2>1, FS_Subset
  <2>4. Cardinality(before) <= Cardinality(upto) /\ Cardinality(before) # Cardinality(upto)
    BY <2>1, <2>3, FS_Subset
  <2>5. Cardinality(before) \in Nat /\ Cardinality(upto) \in Nat
    BY <1>2, <2>2
  <2> QED
    BY <2>2, <2>4, <2>5
<1>4. \A o, q \in S : place[o] = place[q] => o = q
  <2> SUFFICES ASSUME NEW o \in S, NEW q \in S, o # q PROVE place[o] # place[q]
    OBVIOUS
  <2>1. o < q \/ q < o
    OBVIOUS
  <2>2. place[o] \in Int /\ place[q] \in Int
    BY <1>2
  <2>3. CASE o < q
    BY <1>3, <2>2, <2>3
  <2>4. CASE q < o
    BY <1>3, <2>2, <2>4
  <2> QED
    BY <2>1, <2>3, <2>4
<1>5. place \in Injection(S, 0..(size - 1))
  <2>1. place \in [S -> 0..(size - 1)]
    BY <1>2
  <2> QED
    BY <1>4, <2>1 DEF Injection, IsInjective
<1>6. IsFiniteSet(0..(size - 1)) /\ Cardinality(0..(size - 1)) = Cardinality(S)
  BY <1>1, CountBelow
<1>7. place \in Surjection(S, 0..(size - 1))
  BY <1>5, <1>6, FS_Injection
<1> QED
  BY <1>5, <1>7 DEF Bijection

\* A longer list is cut to exactly its limit.
LEMMA LongListsAreFull ==
    ASSUME NEW S \in SUBSET Nat, IsFiniteSet(S), NEW n \in Nat, n <= Cardinality(S)
    PROVE  /\ FirstOf(S, n) \subseteq S /\ IsFiniteSet(FirstOf(S, n))
           /\ Cardinality(FirstOf(S, n)) = n
<1> DEFINE place == [o \in S |-> Cardinality({p \in S : p < o})]
           F == FirstOf(S, n)
           first == [o \in F |-> place[o]]
           size == Cardinality(S)
<1>1. place \in Bijection(S, 0..(size - 1))
  BY PlacesHaveNoGap
<1>2. size \in Nat /\ n <= size
  BY FS_CardinalityType
<1>3. F \in SUBSET S /\ \A o \in S : o \in F <=> place[o] < n
  BY DEF FirstOf
<1>4. IsFiniteSet(F)
  BY <1>3, FS_Subset
<1> HIDE DEF place, F, size
<1>5. first \in Bijection(F, 0..(n - 1))
  <2>1. place \in [S -> 0..(size - 1)]
    BY <1>1 DEF Bijection, Injection
  <2>2. \A o, q \in S : place[o] = place[q] => o = q
    BY <1>1 DEF Bijection, Injection, IsInjective
  <2>3. \A k \in 0..(size - 1) : \E o \in S : place[o] = k
    BY <1>1 DEF Bijection, Surjection
  <2>4. \A o \in F : o \in S /\ place[o] \in 0..(n - 1)
    BY <1>2, <1>3, <2>1
  <2>5. first \in [F -> 0..(n - 1)]
    BY <2>4
  <2>6. ASSUME NEW k \in 0..(n - 1) PROVE \E o \in F : first[o] = k
    <3>1. k \in 0..(size - 1) /\ k < n
      BY <1>2
    <3>2. PICK o \in S : place[o] = k
      BY <2>3, <3>1
    <3>3. o \in F
      BY <1>3, <3>1, <3>2
    <3> QED
      BY <3>2, <3>3
  <2>7. \A o, q \in F : first[o] = first[q] => o = q
    BY <2>2, <2>4
  <2> HIDE DEF first
  <2> QED
    BY <2>5, <2>6, <2>7 DEF Bijection, Injection, Surjection, IsInjective
<1>6. IsFiniteSet(0..(n - 1)) /\ Cardinality(0..(n - 1)) = n
  BY CountBelow
<1>7. Cardinality(0..(n - 1)) = Cardinality(F)
  <2>1. ExistsBijection(F, 0..(n - 1))
    BY <1>5 DEF ExistsBijection
  <2> QED
    BY <1>4, <2>1, FS_Bijection
<1> QED
  BY <1>3, <1>4, <1>6, <1>7 DEF F

\* What a query with a limit returns of what is there.
LEMMA CutsAreFull ==
    ASSUME NEW c, NEW S \in SUBSET Nat, IsFiniteSet(S), NEW n \in Nat, NEW T \in Cuts(c, S, n)
    PROVE  /\ T \subseteq S /\ IsFiniteSet(T)
           /\ Cardinality(S) <= n => T = S
           /\ Cardinality(S) > n => Cardinality(T) = n
<1>1. Cardinality(S) \in Nat
  BY FS_CardinalityType
<1>2. CASE Cardinality(S) <= n
  BY <1>1, <1>2 DEF Cuts
<1>3. CASE Cardinality(S) > n
  <2>1. CASE c \in ByLoad
    <3>1. T \in SUBSET S /\ Cardinality(T) = n
      BY <1>1, <1>3, <2>1 DEF Cuts
    <3>2. IsFiniteSet(T)
      BY <3>1, FS_Subset
    <3> QED
      BY <1>1, <1>3, <3>1, <3>2
  <2>2. CASE c \notin ByLoad
    <3>1. T = FirstOf(S, n)
      BY <1>1, <1>3, <2>2 DEF Cuts
    <3> QED
      BY <1>1, <1>3, <3>1, LongListsAreFull
  <2> QED
    BY <2>1, <2>2
<1> QED
  BY <1>1, <1>2, <1>3

-----------------------------------------------------------------------------
\* What was answered stays so while the server changes: the past is not
\* rewritten.
LEMMA AnswersStay ==
    ASSUME NEW h, NEW g, Len(h) \in Nat, Len(g) \in Nat, Len(h) <= Len(g),
           \A i \in 1..Len(h) : g[i] = h[i],
           NEW s, NEW c, AnsweredIn(h, s, c)
    PROVE  AnsweredIn(g, s, c)
<1>1. CASE CollectorRequires[c] \subseteq s.caps
  <2>1. s.readAt[c] \in 1..Len(h)
    BY <1>1 DEF AnsweredIn
  <2>2. g[s.readAt[c]] = h[s.readAt[c]] /\ s.readAt[c] \in 1..Len(g)
    BY <2>1
  <2> QED
    BY <1>1, <2>2 DEF AnsweredIn, HeldIn
<1>2. CASE ~(CollectorRequires[c] \subseteq s.caps)
  BY <1>2 DEF AnsweredIn
<1> QED
  BY <1>1, <1>2

\* The past is a list, and what is in it now is its end.
LEMMA PastTypes ==
    ASSUME VisibilityTypes
    PROVE  Len(past) \in Nat \ {0} /\ past[Len(past)] \subseteq AllObjects
<1>1. past \in Seq(SUBSET AllObjects) /\ past # <<>>
  BY DEF VisibilityTypes
<1>2. Len(past) \in Nat /\ Len(past) # 0
  BY <1>1
<1>3. past[Len(past)] \in SUBSET AllObjects
  BY <1>1, <1>2
<1> QED
  BY <1>2, <1>3

\* Before the first inspection nothing is seen or stored.
LEMMA VisibilityStarts == VisibilityInit => VisibilityInv
<1> SUFFICES ASSUME VisibilityInit PROVE VisibilityInv
  OBVIOUS
<1>1. PICK S \in SUBSET AllObjects : past = <<S>>
  BY DEF VisibilityInit
<1>2. past \in Seq(SUBSET AllObjects) /\ past # <<>>
  BY <1>1
<1>3. VisibilityTypes
  BY <1>2 DEF VisibilityInit, VisibilityTypes, Lacks
<1> QED
  BY <1>3 DEF VisibilityInit, VisibilityInv, InspectionBooks, HistoryBooks

\* The server changes, or nothing does.
LEMMA ServerChangesKeeps ==
    ASSUME VisibilityInv, ServerChanges \/ UNCHANGED visibilityVars
    PROVE  VisibilityInv'
<1>1. VisibilityTypes /\ InspectionBooks /\ HistoryBooks
  BY DEF VisibilityInv
<1>2. UNCHANGED <<caps, pc, left, seen, readAt, warnings, stored>>
  BY DEF ServerChanges, visibilityVars, inspection
<1>3. /\ past' \in Seq(SUBSET AllObjects) /\ past' # <<>>
      /\ Len(past) \in Nat /\ Len(past') \in Nat /\ Len(past) <= Len(past')
      /\ \A i \in 1..Len(past) : past'[i] = past[i]
  <2>1. past \in Seq(SUBSET AllObjects) /\ past # <<>> /\ Len(past) \in Nat \ {0}
    BY <1>1, PastTypes DEF VisibilityTypes
  <2>2. CASE ServerChanges
    <3>1. PICK o \in AllObjects :
            past' = Append(past, (past[Len(past)] \cup {o}) \ (past[Len(past)] \cap {o}))
      BY <2>2 DEF ServerChanges
    <3>2. (past[Len(past)] \cup {o}) \ (past[Len(past)] \cap {o}) \in SUBSET AllObjects
      BY <1>1, PastTypes
    <3> QED
      BY <2>1, <3>1, <3>2
  <2>3. CASE UNCHANGED visibilityVars
    BY <2>1, <2>3 DEF visibilityVars
  <2> QED
    BY <2>2, <2>3
<1>4. VisibilityTypes'
  BY <1>1, <1>2, <1>3 DEF VisibilityTypes
<1>5. Snapshot' = Snapshot
  BY <1>2 DEF Snapshot
<1>6. \A s : \A c \in Collectors : AnsweredIn(past, s, c) => AnsweredIn(past', s, c)
  BY <1>3, AnswersStay
<1>7. \A c \in Collectors : Overfull(c) => Overfull(c)'
  <2> SUFFICES ASSUME NEW c \in Collectors, Overfull(c) PROVE Overfull(c)'
    OBVIOUS
  <2>1. readAt[c] \in 1..Len(past) /\ Snapshot.readAt[c] = readAt[c]
    BY DEF Overfull, Snapshot
  <2>2. past'[readAt[c]] = past[readAt[c]] /\ readAt[c] \in 1..Len(past')
    BY <1>3, <2>1
  <2> QED
    BY <1>2, <1>5, <2>1, <2>2 DEF Overfull, HeldIn
<1>8. InspectionBooks'
  <2>1. ASSUME NEW c \in Collectors, TurnOf(c) PROVE TurnOf(c)'
    BY <1>2, <1>5, <1>6, <1>7, <2>1 DEF TurnOf
  <2> QED
    BY <1>1, <1>2, <1>5, <2>1 DEF InspectionBooks
<1>9. HistoryBooks'
  BY <1>1, <1>2, <1>6 DEF HistoryBooks
<1> QED
  BY <1>4, <1>8, <1>9 DEF VisibilityInv

\* Collectors that are not selected say nothing, the others nothing yet.
LEMMA OpenTargetKeeps ==
    ASSUME VisibilityInv, OpenTarget
    PROVE  VisibilityInv'
<1>1. VisibilityTypes /\ InspectionBooks /\ HistoryBooks
  BY DEF VisibilityInv
<1>2. /\ pc = "idle" /\ pc' = "collect" /\ left' = Selected(caps') \cap Collectors
      /\ UNCHANGED <<past, seen, readAt, warnings, stored>>
  BY DEF OpenTarget
<1>3. VisibilityTypes'
  BY <1>1, <1>2 DEF VisibilityTypes
<1>4. seen' = {} /\ warnings' = {}
  BY <1>1, <1>2 DEF InspectionBooks
<1>5. ASSUME NEW c \in Collectors PROVE TurnOf(c)'
  <2>1. c \in left' <=> CollectorRequires[c] \subseteq caps'
    <3>1. c \in DOMAIN CollectorRequires
      BY VisibilityAssumption
    <3> QED
      BY <1>2, <3>1 DEF Selected
  <2>2. Snapshot'.seen = {} /\ Snapshot'.caps = caps'
    BY <1>4 DEF Snapshot
  <2>3. c \notin left' => AnsweredIn(past', Snapshot', c)
    BY <2>1, <2>2 DEF AnsweredIn
  <2> QED
    BY <1>4, <2>1, <2>3 DEF TurnOf
<1>6. InspectionBooks'
  BY <1>2, <1>4, <1>5 DEF InspectionBooks
<1>7. HistoryBooks'
  BY <1>1, <1>2 DEF HistoryBooks
<1> QED
  BY <1>3, <1>6, <1>7 DEF VisibilityInv

\* An inspection that ends leaves what it stored.
LEMMA EndsKeeps ==
    ASSUME VisibilityInv, Ends
    PROVE  VisibilityInv'
<1>1. VisibilityTypes /\ HistoryBooks
  BY DEF VisibilityInv
<1>2. /\ pc' = "idle" /\ left' = {} /\ seen' = {} /\ readAt' = Lacks /\ warnings' = {}
      /\ UNCHANGED <<past, stored>>
  BY DEF Ends
<1>3. VisibilityTypes'
  BY <1>1, <1>2 DEF VisibilityTypes, Lacks
<1>4. InspectionBooks'
  BY <1>2 DEF InspectionBooks
<1>5. HistoryBooks'
  BY <1>1, <1>2 DEF HistoryBooks
<1> QED
  BY <1>3, <1>4, <1>5 DEF VisibilityInv

\* A collector that reports no truncation has returned all that was there or,
\* but for the risk scans, a full list; a risk scan reports one only if there
\* was more than it keeps.
LEMMA ListsAreHonest ==
    ASSUME NEW c \in Collectors, NEW returned \in Cuts(c, Present(c), Queried(c))
    PROVE  LET kept == FirstOf(returned, Room[c])
           IN  /\ kept \subseteq Present(c)
               /\ Overflows(c, returned) => c \in RiskScans /\ Cardinality(Present(c)) > Room[c]
               /\ ~Overflows(c, returned) =>
                    IF c \in RiskScans
                    THEN kept = Present(c) /\ Cardinality(Present(c)) <= Room[c]
                    ELSE kept = Present(c) \/ Cardinality(kept) = Room[c]
<1> DEFINE P == Present(c)
           n == Queried(c)
           kept == FirstOf(returned, Room[c])
<1>1. P \in SUBSET Nat /\ IsFiniteSet(P) /\ Cardinality(P) \in Nat
  <2>1. P \in SUBSET Objects[c]
    BY DEF Present
  <2>2. Objects[c] \subseteq Nat /\ IsFiniteSet(Objects[c])
    BY VisibilityAssumption
  <2> HIDE DEF P
  <2>3. IsFiniteSet(P)
    BY <2>1, <2>2, FS_Subset
  <2> QED
    BY <2>1, <2>2, <2>3, FS_CardinalityType
<1>2. Room[c] \in Nat /\ n \in Nat /\ n = Room[c] + (IF c \in RiskScans THEN 1 ELSE 0)
  BY VisibilityAssumption DEF Queried
<1> HIDE DEF P, n
<1>3. /\ returned \subseteq P /\ IsFiniteSet(returned)
      /\ Cardinality(P) <= n => returned = P
      /\ Cardinality(P) > n => Cardinality(returned) = n
  BY <1>1, <1>2, CutsAreFull DEF P, n
<1>4. returned \in SUBSET Nat /\ Cardinality(returned) \in Nat
  BY <1>1, <1>3, FS_CardinalityType
<1>5. Cardinality(returned) <= Room[c] => kept = returned
  BY <1>2, <1>3, <1>4, ShortListsStay
<1>6. kept \subseteq returned
  BY DEF FirstOf
<1> HIDE DEF kept
<1>7. CASE c \in RiskScans
  <2>1. Overflows(c, returned) <=> Cardinality(returned) > Room[c]
    BY <1>7 DEF Overflows
  <2>2. n = Room[c] + 1
    BY <1>2, <1>7
  <2>3. Overflows(c, returned) => Cardinality(P) > Room[c]
    <3>1. CASE Cardinality(P) <= n
      BY <1>3, <2>1, <3>1
    <3>2. CASE Cardinality(P) > n
      BY <1>1, <1>2, <2>2, <3>2
    <3> QED
      BY <1>1, <1>2, <3>1, <3>2
  <2>4. ~Overflows(c, returned) => kept = P /\ Cardinality(P) <= Room[c]
    <3>1. CASE Cardinality(P) <= n
      BY <1>1, <1>2, <1>3, <1>5, <2>1, <3>1
    <3>2. CASE Cardinality(P) > n
      BY <1>2, <1>3, <2>1, <2>2, <3>2
    <3> QED
      BY <1>1, <1>2, <3>1, <3>2
  <2>5. kept \subseteq P
    BY <1>3, <1>6
  <2> QED
    BY <1>7, <2>3, <2>4, <2>5 DEF P, kept
<1>8. CASE c \notin RiskScans
  <2>1. ~Overflows(c, returned)
    BY <1>8 DEF Overflows
  <2>2. n = Room[c]
    BY <1>2, <1>8
  <2>3. CASE Cardinality(P) <= n
    BY <1>2, <1>3, <1>5, <1>8, <2>1, <2>2, <2>3 DEF P, kept
  <2>4. CASE Cardinality(P) > n
    BY <1>2, <1>3, <1>5, <1>8, <2>1, <2>2, <2>4 DEF P, kept
  <2> QED
    BY <1>1, <1>2, <2>3, <2>4
<1> QED
  BY <1>7, <1>8

\* An answer about one collector is told by that collector's part.
LEMMA AnsweredAlike ==
    ASSUME NEW h, NEW r, NEW s, NEW c,
           r.seen \cap Objects[c] = s.seen \cap Objects[c], r.caps = s.caps, r.readAt[c] = s.readAt[c]
    PROVE  AnsweredIn(h, r, c) <=> AnsweredIn(h, s, c)
BY DEF AnsweredIn, HeldIn

\* A collector's turn: it answers for its objects, or there is a warning.
LEMMA TurnKeeps ==
    ASSUME VisibilityInv, NEW c \in Collectors, Turn(c),
           NEW found \in SUBSET Objects[c], NEW told \in SUBSET {<<"failed", c>>, <<"truncated", c>>},
           seen' = seen \cup found, warnings' = warnings \cup told,
           readAt' = [readAt EXCEPT ![c] = Len(past)],
           \/ told = {<<"failed", c>>}
           \/ /\ told = {<<"truncated", c>>}
              /\ c \in RiskScans /\ Cardinality(Present(c)) > Room[c]
           \/ /\ told = {} /\ found \subseteq Present(c)
              /\ IF c \in RiskScans
                 THEN found = Present(c) /\ Cardinality(Present(c)) <= Room[c]
                 ELSE found = Present(c) \/ Cardinality(found) = Room[c]
    PROVE  VisibilityInv'
<1>1. VisibilityTypes /\ InspectionBooks /\ HistoryBooks
  BY DEF VisibilityInv
<1>2. /\ pc = "collect" /\ c \in left /\ left' = left \ {c}
      /\ UNCHANGED <<caps, past, pc, stored>>
  BY DEF Turn
<1>3. Len(past) \in Nat \ {0}
  BY <1>1, PastTypes
<1>4. VisibilityTypes'
  BY <1>1, <1>2, <1>3 DEF VisibilityTypes
<1>5. /\ readAt'[c] = Len(past) /\ \A d \in Collectors \ {c} : readAt'[d] = readAt[d]
  BY <1>1 DEF VisibilityTypes
<1>6. TurnOf(c)
  BY <1>1, <1>2 DEF InspectionBooks
<1>7. TurnOf(c)'
  <2>1. CollectorRequires[c] \subseteq caps /\ seen \cap Objects[c] = {}
    BY <1>2, <1>6 DEF TurnOf
  <2>2. <<"truncated", c>> \notin warnings
    BY <1>2, <1>6 DEF TurnOf, Overfull
  <2>3. /\ Snapshot'.seen \cap Objects[c] = found /\ Snapshot'.caps = caps
        /\ Snapshot'.readAt[c] = Len(past)
    BY <1>2, <1>5, <2>1 DEF Snapshot
  <2>4. HeldIn(past, Snapshot', c) = Present(c)
    BY <2>3 DEF HeldIn, Present
  <2>5. Len(past) \in 1..Len(past)
    BY <1>3
  <2>6. "failed" # "truncated"
    OBVIOUS
  <2>7. CASE told = {<<"failed", c>>}
    <3>1. <<"failed", c>> \in warnings' /\ <<"truncated", c>> \notin warnings'
      BY <2>2, <2>6, <2>7
    <3> QED
      BY <1>2, <3>1 DEF TurnOf
  <2>8. CASE /\ told = {<<"truncated", c>>}
             /\ c \in RiskScans /\ Cardinality(Present(c)) > Room[c]
    <3>1. Overfull(c)'
      BY <1>2, <1>5, <2>1, <2>4, <2>5, <2>8 DEF Overfull
    <3>2. <<"truncated", c>> \in warnings'
      BY <2>8
    <3> QED
      BY <1>2, <3>1, <3>2 DEF TurnOf
  <2>9. CASE /\ told = {} /\ found \subseteq Present(c)
             /\ IF c \in RiskScans
                THEN found = Present(c) /\ Cardinality(Present(c)) <= Room[c]
                ELSE found = Present(c) \/ Cardinality(found) = Room[c]
    <3>1. AnsweredIn(past, Snapshot', c)
      BY <2>1, <2>3, <2>4, <2>5, <2>9 DEF AnsweredIn
    <3> QED
      BY <1>2, <2>2, <2>9, <3>1 DEF TurnOf
  <2> QED
    BY <2>7, <2>8, <2>9
<1>8. ASSUME NEW d \in Collectors, d # c PROVE TurnOf(d)'
  <2>1. TurnOf(d)
    BY <1>1, <1>2 DEF InspectionBooks
  <2>2. Objects[c] \cap Objects[d] = {}
    BY <1>8, VisibilityAssumption
  <2>3. seen' \cap Objects[d] = seen \cap Objects[d]
    BY <2>2
  <2>4. /\ Snapshot'.seen \cap Objects[d] = Snapshot.seen \cap Objects[d]
        /\ Snapshot'.caps = Snapshot.caps /\ Snapshot'.readAt[d] = Snapshot.readAt[d]
    BY <1>2, <1>5, <1>8, <2>3 DEF Snapshot
  <2>5. AnsweredIn(past, Snapshot, d) => AnsweredIn(past, Snapshot', d)
    BY <2>4, AnsweredAlike
  <2>6. /\ d \in left' <=> d \in left
        /\ <<"failed", d>> \in warnings => <<"failed", d>> \in warnings'
        /\ <<"truncated", d>> \in warnings' <=> <<"truncated", d>> \in warnings
    BY <1>2, <1>8
  <2>7. Overfull(d) => Overfull(d)'
    BY <1>2, <1>5, <1>8, <2>4, <2>6 DEF Overfull, HeldIn
  <2> QED
    BY <1>2, <2>1, <2>3, <2>5, <2>6, <2>7 DEF TurnOf
<1>9. InspectionBooks'
  <2>1. warnings' \subseteq Complaints
    <3>1. warnings \subseteq Complaints
      BY <1>1, <1>2 DEF InspectionBooks
    <3>2. told \subseteq Complaints
      BY DEF Complaints
    <3> QED
      BY <3>1, <3>2
  <2> QED
    BY <1>2, <1>7, <1>8, <2>1 DEF InspectionBooks
<1>10. HistoryBooks'
  BY <1>1, <1>2 DEF HistoryBooks
<1> QED
  BY <1>4, <1>9, <1>10 DEF VisibilityInv

\* A list that goes on beyond the limit of a risk scan is a warning.
LEMMA CollectKeeps ==
    ASSUME VisibilityInv, NEW c \in Collectors, Collect(c)
    PROVE  VisibilityInv'
<1>1. PICK returned \in Cuts(c, Present(c), Queried(c)) :
        /\ seen' = seen \cup FirstOf(returned, Room[c])
        /\ warnings' = warnings \cup (IF Overflows(c, returned) THEN {<<"truncated", c>>} ELSE {})
  BY DEF Collect
<1> DEFINE found == FirstOf(returned, Room[c])
           told == IF Overflows(c, returned) THEN {<<"truncated", c>>} ELSE {}
<1>2. Turn(c) /\ readAt' = [readAt EXCEPT ![c] = Len(past)]
  BY DEF Collect
<1>3. /\ found \subseteq Present(c)
      /\ Overflows(c, returned) => c \in RiskScans /\ Cardinality(Present(c)) > Room[c]
      /\ ~Overflows(c, returned) =>
           IF c \in RiskScans THEN found = Present(c) /\ Cardinality(Present(c)) <= Room[c]
           ELSE found = Present(c) \/ Cardinality(found) = Room[c]
  BY ListsAreHonest
<1>4. found \in SUBSET Objects[c]
  BY <1>3 DEF Present
<1>5. told \in SUBSET {<<"failed", c>>, <<"truncated", c>>}
  OBVIOUS
<1>6. \/ /\ told = {<<"truncated", c>>}
         /\ c \in RiskScans /\ Cardinality(Present(c)) > Room[c]
      \/ /\ told = {} /\ found \subseteq Present(c)
         /\ IF c \in RiskScans
            THEN found = Present(c) /\ Cardinality(Present(c)) <= Room[c]
            ELSE found = Present(c) \/ Cardinality(found) = Room[c]
  BY <1>3
<1>7. seen' = seen \cup found /\ warnings' = warnings \cup told
  BY <1>1
<1> HIDE DEF found, told
<1> QED
  BY <1>2, <1>4, <1>5, <1>6, <1>7, TurnKeeps

\* A collector that fails is warned about, whatever it has shown.
LEMMA CollectFailsKeeps ==
    ASSUME VisibilityInv, NEW c \in Collectors, CollectFails(c)
    PROVE  VisibilityInv'
<1>1. PICK returned \in {{}} \cup Cuts(c, Present(c), Room[c]) : seen' = seen \cup returned
  BY DEF CollectFails
<1>2. /\ Turn(c) /\ readAt' = [readAt EXCEPT ![c] = Len(past)]
      /\ warnings' = warnings \cup {<<"failed", c>>}
  BY DEF CollectFails
<1>3. returned \in SUBSET Objects[c]
  <2>1. CASE returned = {}
    BY <2>1
  <2>2. CASE returned \in Cuts(c, Present(c), Room[c])
    <3>1. returned \subseteq Present(c)
      BY <2>2 DEF Cuts, FirstOf
    <3> QED
      BY <3>1 DEF Present
  <2> QED
    BY <2>1, <2>2
<1>4. {<<"failed", c>>} \in SUBSET {<<"failed", c>>, <<"truncated", c>>}
  OBVIOUS
<1> QED
  BY <1>1, <1>2, <1>3, <1>4, TurnKeeps

\* A list of one and another one.
LEMMA AppendsToOne ==
    ASSUME NEW x, NEW y
    PROVE  Append(<<x>>, y) = <<x, y>> /\ Append(<<>>, y) = <<y>>
<1>1. <<x>> \in Seq({x, y}) /\ Len(<<x>>) = 1 /\ y \in {x, y}
  OBVIOUS
<1>2. /\ Append(<<x>>, y) \in Seq({x, y}) /\ Len(Append(<<x>>, y)) = 2
      /\ Append(<<x>>, y)[1] = x /\ Append(<<x>>, y)[2] = y
  BY <1>1
<1>3. <<x, y>> \in Seq({x, y}) /\ Len(<<x, y>>) = 2 /\ <<x, y>>[1] = x /\ <<x, y>>[2] = y
  OBVIOUS
<1>4. \A i \in 1..2 : Append(<<x>>, y)[i] = <<x, y>>[i]
  BY <1>2, <1>3
<1>5. Append(<<x>>, y) = <<x, y>>
  BY <1>2, <1>3, <1>4, SeqEqual
<1>6. Append(<<>>, y) = <<y>>
  OBVIOUS
<1> QED
  BY <1>5, <1>6

\* What is stored has no warning, so every collector is answered for.
LEMMA PersistKeeps ==
    ASSUME VisibilityInv, Persist
    PROVE  VisibilityInv'
<1>1. VisibilityTypes /\ InspectionBooks /\ HistoryBooks
  BY DEF VisibilityInv
<1>2. /\ pc = "collect" /\ left = {} /\ pc' = "done"
      /\ UNCHANGED <<caps, past, left, seen, readAt>>
  BY DEF Persist
<1>3. VisibilityTypes'
  BY <1>1, <1>2 DEF VisibilityTypes
<1>4. Snapshot' = Snapshot
  BY <1>2 DEF Snapshot
<1>5. \A c \in Collectors : TurnOf(c)
  BY <1>1, <1>2 DEF InspectionBooks
<1>6. warnings \subseteq Complaints
  BY <1>1, <1>2 DEF InspectionBooks
<1>7. \A c \in Collectors : Overfull(c) => Overfull(c)'
  BY <1>2, <1>4 DEF Overfull
<1>8. warnings = {} => \A c \in Collectors : AnsweredIn(past, Snapshot, c)
  BY <1>2, <1>5 DEF TurnOf
<1>9. CASE warnings = {} /\ warnings' = {} /\ stored' = Append(LastOf(stored), Snapshot)
  <2>1. \/ stored' = <<Snapshot>>
        \/ stored # <<>> /\ stored' = <<stored[Len(stored)], Snapshot>>
    <3>1. \A x, y : Append(<<x>>, y) = <<x, y>> /\ Append(<<>>, y) = <<y>>
      BY AppendsToOne
    <3>2. CASE stored = <<>>
      <4>1. LastOf(stored) = <<>>
        BY <3>2 DEF LastOf
      <4> QED
        BY <1>9, <3>1, <4>1
    <3>3. CASE stored # <<>>
      <4>1. LastOf(stored) = <<stored[Len(stored)]>>
        BY <3>3 DEF LastOf
      <4> QED
        BY <1>9, <3>1, <3>3, <4>1
    <3> QED
      BY <3>2, <3>3
  <2>2. stored' # <<>> /\ stored'[Len(stored')] = Snapshot'
    BY <1>4, <2>1
  <2>3. InspectionBooks'
    <3>1. \A c \in Collectors : TurnOf(c)'
      BY <1>2, <1>4, <1>8, <1>9 DEF TurnOf
    <3> QED
      BY <1>2, <1>9, <2>2, <3>1 DEF InspectionBooks
  <2>4. HistoryBooks'
    <3>1. CASE stored' = <<Snapshot>>
      BY <1>2, <1>8, <1>9, <3>1 DEF HistoryBooks
    <3>2. CASE stored # <<>> /\ stored' = <<stored[Len(stored)], Snapshot>>
      <4>1. \A c \in Collectors : AnsweredIn(past, stored[Len(stored)], c)
        BY <1>1, <3>2 DEF HistoryBooks
      <4>2. /\ Len(stored') = 2
            /\ stored'[1] = stored[Len(stored)] /\ stored'[2] = Snapshot
        BY <3>2
      <4>3. \A i \in 1..2 : i = 1 \/ i = 2
        OBVIOUS
      <4>4. \A i \in 1..2 : \A c \in Collectors : AnsweredIn(past, stored'[i], c)
        BY <1>8, <1>9, <4>1, <4>2, <4>3
      <4> QED
        BY <1>2, <4>2, <4>4 DEF HistoryBooks
    <3> QED
      BY <2>1, <3>1, <3>2
  <2> QED
    BY <1>3, <2>3, <2>4 DEF VisibilityInv
<1>10. CASE /\ stored' = stored
            /\ \/ warnings # {} /\ warnings' = warnings \cup {<<"skipped", "history">>}
               \/ warnings = {} /\ warnings' = {<<"failed", "history">>}
  <2>1. \A c \in Collectors : TurnOf(c)'
    <3> SUFFICES ASSUME NEW c \in Collectors PROVE TurnOf(c)'
      OBVIOUS
    <3>1. "truncated" # "skipped" /\ "truncated" # "failed"
      OBVIOUS
    <3>2. /\ <<"truncated", c>> \in warnings' <=> <<"truncated", c>> \in warnings
          /\ <<"failed", c>> \in warnings => <<"failed", c>> \in warnings'
      BY <1>10, <3>1
    <3> QED
      BY <1>2, <1>4, <1>5, <1>7, <3>2 DEF TurnOf
  <2>2. /\ warnings' \subseteq Complaints \cup Skipped
        /\ warnings' \cap Complaints # {} /\ warnings' # {}
    BY <1>6, <1>10 DEF Complaints, Skipped
  <2>3. InspectionBooks'
    BY <1>2, <2>1, <2>2 DEF InspectionBooks
  <2>4. HistoryBooks'
    BY <1>1, <1>2, <1>10 DEF HistoryBooks
  <2> QED
    BY <1>3, <2>3, <2>4 DEF VisibilityInv
<1> QED
  BY <1>9, <1>10 DEF Persist

-----------------------------------------------------------------------------
\* At every moment the inspection under way accounts for each collector, and
\* the history holds only snapshots that do.
THEOREM InspectionsAccount == VisibilitySpec => []VisibilityInv
<1>1. VisibilityInit => VisibilityInv
  BY VisibilityStarts
<1>2. VisibilityInv /\ [VisibilityNext]_visibilityVars => VisibilityInv'
  BY ServerChangesKeeps, OpenTargetKeeps, CollectKeeps, CollectFailsKeeps, EndsKeeps, PersistKeeps
  DEF VisibilityNext, InspectionFails, Leave
<1> QED
  BY <1>1, <1>2, PTL DEF VisibilitySpec

\* What diff shows as come or gone between two snapshots was there in the one
\* and has an explanation in the other: no failed collector, no risk scan cut
\* short and no inspection that was not stored makes an event.
THEOREM EventsHaveReasons == VisibilitySpec => []EventsAreExplained
<1>1. VisibilityInv => EventsAreExplained
  <2> SUFFICES ASSUME VisibilityInv, Len(stored) = 2, NEW c \in Collectors, NEW o \in Objects[c],
                      NEW i \in 1..2, NEW j \in 1..2, o \in stored[i].seen
               PROVE  /\ o \in Held(stored[i], c)
                      /\ o \in stored[j].seen \/ Explained(stored[j], c, o)
    BY DEF EventsAreExplained
  <2>1. stored # <<>>
    OBVIOUS
  <2>2. AnsweredIn(past, stored[i], c) /\ AnsweredIn(past, stored[j], c)
    BY <2>1 DEF VisibilityInv, HistoryBooks
  <2>3. o \in Held(stored[i], c)
    BY <2>2 DEF AnsweredIn, HeldIn, Held
  <2>4. o \in stored[j].seen \/ Explained(stored[j], c, o)
    BY <2>2 DEF AnsweredIn, HeldIn, Held, Explained
  <2> QED
    BY <2>3, <2>4
<1> QED
  BY <1>1, InspectionsAccount, PTL

\* An inspection on which nothing fails is stored exactly if every risk scan
\* that ran fits its limit.
THEOREM StoredWhenItFits == VisibilitySpec => []StoredIfItFits
<1>1. VisibilityInv => StoredIfItFits
  <2> SUFFICES ASSUME VisibilityInv, pc = "done", \A w \in warnings : w[1] # "failed"
               PROVE  /\ stored # <<>> /\ stored[Len(stored)] = Snapshot
                      <=> \A c \in RiskScans \cap Collectors \cap Selected(caps) :
                            Cardinality(Held(Snapshot, c)) <= Room[c]
    BY DEF StoredIfItFits
  <2>1. /\ left = {} /\ warnings \subseteq Complaints \cup Skipped
        /\ warnings \cap Complaints = {} => warnings = {}
        /\ warnings = {} => stored # <<>> /\ stored[Len(stored)] = Snapshot
        /\ \A c \in Collectors : TurnOf(c)
    BY DEF VisibilityInv, InspectionBooks
  <2>2. \A c \in Collectors \cap Selected(caps) : CollectorRequires[c] \subseteq caps
    BY DEF Selected
  <2>3. CASE warnings = {}
    <3>1. ASSUME NEW c \in RiskScans \cap Collectors \cap Selected(caps)
          PROVE  Cardinality(Held(Snapshot, c)) <= Room[c]
      <4>1. AnsweredIn(past, Snapshot, c)
        BY <2>1, <2>3 DEF TurnOf
      <4>2. CollectorRequires[c] \subseteq Snapshot.caps
        BY <2>2 DEF Snapshot
      <4> QED
        BY <4>1, <4>2 DEF AnsweredIn, HeldIn, Held
    <3> QED
      BY <2>1, <2>3, <3>1
  <2>4. CASE warnings # {}
    <3>1. PICK w \in warnings : w \in Complaints
      BY <2>1, <2>4
    <3>2. PICK c \in RiskScans \cap Collectors : w = <<"truncated", c>>
      BY <3>1 DEF Complaints
    <3>3. Overfull(c)
      BY <2>1, <3>1, <3>2 DEF TurnOf
    <3>4. c \in Selected(caps) /\ ~(Cardinality(Held(Snapshot, c)) <= Room[c])
      <4>1. Cardinality(HeldIn(past, Snapshot, c)) \in Nat /\ Room[c] \in Nat
        <5>1. IsFiniteSet(Objects[c]) /\ Room[c] \in Nat
          BY VisibilityAssumption
        <5>2. HeldIn(past, Snapshot, c) \in SUBSET Objects[c]
          BY DEF HeldIn
        <5> QED
          BY <5>1, <5>2, FS_Subset, FS_CardinalityType
      <4>2. HeldIn(past, Snapshot, c) = Held(Snapshot, c)
        BY DEF HeldIn, Held
      <4>3. c \in Selected(caps)
        BY <3>3, VisibilityAssumption DEF Overfull, Selected
      <4> QED
        BY <3>3, <4>1, <4>2, <4>3 DEF Overfull
    <3>5. ~(stored # <<>> /\ stored[Len(stored)] = Snapshot)
      <4> SUFFICES ASSUME stored # <<>>, stored[Len(stored)] = Snapshot PROVE FALSE
        OBVIOUS
      <4>1. AnsweredIn(past, Snapshot, c)
        BY DEF VisibilityInv, HistoryBooks
      <4>2. CollectorRequires[c] \subseteq Snapshot.caps
        BY <2>2, <3>4 DEF Snapshot
      <4> QED
        BY <3>4, <4>1, <4>2 DEF AnsweredIn, HeldIn, Held
    <3> QED
      BY <3>4, <3>5
  <2> QED
    BY <2>3, <2>4
<1> QED
  BY <1>1, InspectionsAccount, PTL

-----------------------------------------------------------------------------
(* The evidence of the rules *)

Collected(offered) == UNION {Produces[c] : c \in Selected(offered)}

\* A collector whose requirements are offered is run, and adds its keys.
LEMMA SelectedCollects ==
    ASSUME NEW offered, NEW c \in DOMAIN CollectorRequires, CollectorRequires[c] \subseteq offered
    PROVE  Produces[c] \subseteq Collected(offered)
BY DEF Selected, Collected

\* The keys that each capability brings about.
LEMMA OfferedCollects ==
    ASSUME NEW offered
    PROVE  /\ "mysql.performance_schema" \in offered =>
                {"connections.used", "connections.limit", "server.uptime_seconds",
                 "buffer_pool.read_requests", "buffer_pool.reads", "innodb.log_waits",
                 "innodb.deadlocks"} \subseteq Collected(offered)
           /\ "workload.query_summary" \in offered => Produces.queries \subseteq Collected(offered)
           /\ "schema.indexes" \in offered => Produces.indexes \subseteq Collected(offered)
           /\ {"schema.objects", "schema.indexes"} \subseteq offered =>
                Produces.tables \subseteq Collected(offered)
           /\ "activity.transactions" \in offered => Produces.transactions \subseteq Collected(offered)
           /\ "locking.wait_graph" \in offered => Produces.locks \subseteq Collected(offered)
           /\ "replication.status" \in offered =>
                Produces.replication \cup Produces.lag \subseteq Collected(offered)
           /\ "mysql.innodb_metrics" \in offered => Produces.purge \subseteq Collected(offered)
           /\ "schema.objects" \in offered =>
                Produces.primary_keys \cup Produces.auto_increment \subseteq Collected(offered)
<1>1. \A c \in DOMAIN CollectorRequires :
        CollectorRequires[c] \subseteq offered => Produces[c] \subseteq Collected(offered)
  BY SelectedCollects
<1>2. \A c \in {"health_snapshot", "health_counters"} :
        c \in DOMAIN CollectorRequires /\ CollectorRequires[c] = {"mysql.performance_schema"}
  BY DEF CollectorRequires
<1>3. /\ "queries" \in DOMAIN CollectorRequires
      /\ CollectorRequires["queries"] = {"workload.query_summary"}
      /\ "indexes" \in DOMAIN CollectorRequires
      /\ CollectorRequires["indexes"] = {"schema.indexes"}
      /\ "tables" \in DOMAIN CollectorRequires
      /\ CollectorRequires["tables"] = {"schema.objects", "schema.indexes"}
  BY DEF CollectorRequires
<1>4. /\ "transactions" \in DOMAIN CollectorRequires
      /\ CollectorRequires["transactions"] = {"activity.transactions"}
      /\ "locks" \in DOMAIN CollectorRequires
      /\ CollectorRequires["locks"] = {"locking.wait_graph"}
      /\ "purge" \in DOMAIN CollectorRequires
      /\ CollectorRequires["purge"] = {"mysql.innodb_metrics"}
  BY DEF CollectorRequires
<1>5. \A c \in {"replication", "lag"} :
        c \in DOMAIN CollectorRequires /\ CollectorRequires[c] = {"replication.status"}
  BY DEF CollectorRequires
<1>6. \A c \in {"primary_keys", "auto_increment"} :
        c \in DOMAIN CollectorRequires /\ CollectorRequires[c] = {"schema.objects"}
  BY DEF CollectorRequires
<1>7. /\ Produces["health_snapshot"] =
            {"connections.used", "connections.limit", "server.uptime_seconds"}
      /\ Produces["health_counters"] =
            {"buffer_pool.read_requests", "buffer_pool.reads", "innodb.log_waits",
             "innodb.deadlocks"}
  BY DEF Produces
<1> QED
  BY <1>1, <1>2, <1>3, <1>4, <1>5, <1>6, <1>7

\* What is asked of the performance schema is offered only together with it.
LEMMA GatedTogether ==
    ASSUME NEW performanceSchema \in BOOLEAN, NEW failing
    PROVE  LET offered == Discovered(performanceSchema, failing)
           IN  "storage.cache" \in offered => "mysql.performance_schema" \in offered
<1>1. \A p \in DOMAIN Ungated : "storage.cache" \notin Ungated[p]
  BY DEF Ungated
<1> QED
  BY <1>1 DEF Discovered, Given

\* Of each rule, that the keys it reads are collected where it is evaluated.
LEMMA RulesSee ==
    ASSUME NEW offered, NEW r \in DOMAIN Rules, Rules[r].requires \subseteq offered,
           "storage.cache" \in offered => "mysql.performance_schema" \in offered,
           r = "connection_saturation" => "mysql.performance_schema" \in offered,
           r = "full_scan_heavy_table" => "schema.indexes" \in offered
    PROVE  Rules[r].reads \subseteq Collected(offered)
<1> USE OfferedCollects
<1>1. r \in {"connection_saturation", "long_transaction", "lock_wait_long",
             "query_full_scan_heavy", "query_rows_examined_amplification",
             "query_high_total_time", "no_good_index", "disk_temp_tables", "unused_index",
             "redundant_index", "buffer_pool_hit_low", "replication_stopped",
             "replication_error", "replication_apply_lag", "lock_wait_contention",
             "blocking_chain", "missing_primary_key", "auto_increment_exhaustion",
             "redo_pressure", "deadlock_rate_high", "full_scan_heavy_table",
             "innodb_purge_lag"}
  BY DEF Rules
<1>2. CASE r = "connection_saturation"
  <2>1. Rules[r].reads = {"connections.used", "connections.limit"}
    BY <1>2 DEF Rules, Rule
  <2> QED
    BY <1>2, <2>1
<1>3. CASE r \in {"long_transaction", "lock_wait_long"}
  <2>1. Rules[r].requires = {"activity.transactions"} /\ Rules[r].reads \subseteq Produces.transactions
    BY <1>3 DEF Rules, Rule, Produces
  <2> QED
    BY <2>1
<1>4. CASE r \in {"query_full_scan_heavy", "query_rows_examined_amplification",
                  "query_high_total_time", "no_good_index", "disk_temp_tables"}
  <2>1. Rules[r].requires = {"workload.query_summary"} /\ Rules[r].reads \subseteq Produces.queries
    BY <1>4 DEF Rules, Rule, OfQueries, Produces
  <2> QED
    BY <2>1
<1>5. CASE r \in {"unused_index", "redundant_index"}
  <2>1. /\ "schema.indexes" \in Rules[r].requires
        /\ Rules[r].reads \subseteq Produces.indexes \cup {"server.uptime_seconds"}
        /\ \/ "mysql.performance_schema" \in Rules[r].requires
           \/ Rules[r].reads \subseteq Produces.indexes
    BY <1>5 DEF Rules, Rule
  <2> QED
    BY <2>1
<1>6. CASE r = "buffer_pool_hit_low"
  <2>1. /\ Rules[r].requires = {"storage.cache"}
        /\ Rules[r].reads = {"buffer_pool.read_requests", "buffer_pool.reads"}
    BY <1>6 DEF Rules, Rule
  <2> QED
    BY <2>1
<1>7. CASE r \in {"replication_stopped", "replication_error", "replication_apply_lag"}
  <2>1. /\ Rules[r].requires = {"replication.status"}
        /\ Rules[r].reads \subseteq Produces.replication \cup Produces.lag
    BY <1>7 DEF Rules, Rule, Produces
  <2> QED
    BY <2>1
<1>8. CASE r \in {"lock_wait_contention", "blocking_chain"}
  <2>1. Rules[r].requires = {"locking.wait_graph"} /\ Rules[r].reads \subseteq Produces.locks
    BY <1>8 DEF Rules, Rule, Produces
  <2> QED
    BY <2>1
<1>9. CASE r \in {"missing_primary_key", "auto_increment_exhaustion"}
  <2>1. /\ Rules[r].requires = {"schema.objects"}
        /\ Rules[r].reads \subseteq Produces.primary_keys \cup Produces.auto_increment
    BY <1>9 DEF Rules, Rule, Produces
  <2> QED
    BY <2>1
<1>10. CASE r \in {"redo_pressure", "deadlock_rate_high"}
  <2>1. /\ "mysql.performance_schema" \in Rules[r].requires
        /\ Rules[r].reads \subseteq {"innodb.log_waits", "innodb.deadlocks"}
    BY <1>10 DEF Rules, Rule, OfInnoDB
  <2> QED
    BY <2>1
<1>11. CASE r = "full_scan_heavy_table"
  <2>1. "schema.objects" \in Rules[r].requires /\ Rules[r].reads = Produces.tables
    BY <1>11 DEF Rules, Rule
  <2> QED
    BY <1>11, <2>1
<1>12. CASE r = "innodb_purge_lag"
  <2>1. Rules[r].requires = {"mysql.innodb_metrics"} /\ Rules[r].reads \subseteq Produces.purge
    BY <1>12 DEF Rules, Rule, Produces
  <2> QED
    BY <2>1
<1> QED
  BY <1>1, <1>2, <1>3, <1>4, <1>5, <1>6, <1>7, <1>8, <1>9, <1>10, <1>11, <1>12

\* Whichever probes fail, with the performance schema on or off: of every
\* rule that is evaluated the evidence is collected, but for the rule of the
\* connections without the performance schema and the one of the full scans
\* without schema.indexes.
THEOREM RulesAreNotBlind == VisibilitySpec => []RulesHaveTheirEvidence
<1>1. NoneElseIsBlind
  <2> SUFFICES ASSUME NEW performanceSchema \in BOOLEAN, NEW failing \in SUBSET Probes,
                      NEW r \in Blind(Discovered(performanceSchema, failing))
               PROVE  r \in Excused(Discovered(performanceSchema, failing))
    BY DEF NoneElseIsBlind
  <2> DEFINE offered == Discovered(performanceSchema, failing)
  <2>1. "storage.cache" \in offered => "mysql.performance_schema" \in offered
    BY GatedTogether
  <2> HIDE DEF offered
  <2>2. /\ r \in DOMAIN Rules /\ Rules[r].requires \subseteq offered
        /\ ~(Rules[r].reads \subseteq Collected(offered))
    BY DEF Blind, Evaluated, Collected, offered
  <2>3. \/ r = "connection_saturation" /\ "mysql.performance_schema" \notin offered
        \/ r = "full_scan_heavy_table" /\ "schema.indexes" \notin offered
    BY <2>1, <2>2, RulesSee
  <2> QED
    BY <2>3 DEF Excused, offered
<1>2. RulesHaveTheirEvidence
  BY <1>1 DEF RulesHaveTheirEvidence
<1> QED
  BY <1>2, PTL
=============================================================================
