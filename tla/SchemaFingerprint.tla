-------------------------- MODULE SchemaFingerprint --------------------------
(***************************************************************************)
(* collectors/schema_fingerprint.go: six statements read the structure of  *)
(* the schema, group after group, while DDL goes on; every row is encoded  *)
(* into a record, within limits, and the sorted records are hashed.  Two   *)
(* inspections compare nothing but the two fingerprints.                   *)
(*                                                                         *)
(* Bytes are numbers, and so is a length: one of them stands for the four  *)
(* of the code.  The hash is taken to be injective, hence what is hashed   *)
(* stands for it.  A statement sees the catalog at one moment and returns  *)
(* its rows in any order: ORDER BY follows a collation.                    *)
(***************************************************************************)
EXTENDS Naturals, SequencesExt

CONSTANTS
    Catalogs,           \* what the six groups of rows may be, by kind
    Null,               \* SQL NULL
    MaxAlterations,     \* most DDL statements
    MaxCollections,     \* most fingerprints taken
    MaxFieldBytes, MaxRecordBytes, MaxRowsPerGroup, MaxTotalBytes

Groups == <<"table", "column", "index", "constraint", "check", "referential">>
Kinds == Range(Groups)

\* A value is a text or NULL.  Where the SELECT list takes them for the same,
\* the server has one of NULL and the empty string, and never the other.
ASSUME FingerprintAssumption ==
    /\ {MaxAlterations, MaxCollections, MaxFieldBytes, MaxRecordBytes,
        MaxRowsPerGroup, MaxTotalBytes} \subseteq Nat
    /\ Null \notin Seq(Nat)
    /\ \A c \in Catalogs :
          /\ DOMAIN c = Kinds
          /\ \A k \in Kinds :
                /\ IsFiniteSet(c[k]) /\ \A rows \in SUBSET c[k] : rows # Null
                /\ \A row \in c[k] : row \in Seq(Seq(Nat) \cup {Null}) /\ row # <<>>
    /\ \A c, d \in Catalogs : \A k \in Kinds : \A row \in c[k], other \in d[k] :
          \A i \in DOMAIN row \cap DOMAIN other :
              row[i] = Null /\ other[i] = <<>> => k = "column" /\ i = Len(row)

VARIABLES
    past,       \* the catalogs there have been; the last one is in force
    seen,       \* the group of each statement so far: its place in past
    unread,     \* rows of the statement in progress, or Null
    records,    \* encoded rows of the fingerprint, in order of arrival
    count,      \* rows of the group in progress
    usedBytes,  \* bytes of the group in progress
    totalBytes, \* bytes of the groups before it
    taken       \* the collections that ended

collection == <<seen, unread, records, count, usedBytes, totalBytes>>
fingerprintVars == <<past, collection, taken>>

Group == Groups[Len(seen)]

-----------------------------------------------------------------------------
(* encoding *)

\* Mutant: fields are only strung together.
Unprefixed(value) == value

LengthPrefixed(value) == <<Len(value)>> \o value

Coalesce(value) == IF value = Null THEN <<>> ELSE value

\* The SELECT list: NULL and the empty string are told apart in the column
\* default, the last value of a column's row here, and nowhere else.
Fields(kind, row) ==
    LET text == [i \in DOMAIN row |-> Coalesce(row[i])]
        flag == IF Last(row) = Null THEN <<1>> ELSE <<0>>
    IN  IF kind = "column" THEN Append(text, flag) ELSE text

KindName(kind) == <<CHOOSE i \in DOMAIN Groups : Groups[i] = kind>>

Record(kind, row) ==
    LET fields == Fields(kind, row)
    IN  LengthPrefixed(KindName(kind)) \o <<Len(fields)>>
          \o FlattenSeq([i \in DOMAIN fields |-> LengthPrefixed(fields[i])])

\* bytes.Compare
Before(a, b) ==
    LET differ == {i \in DOMAIN a \cap DOMAIN b : a[i] # b[i]}
    IN  IF differ = {} THEN Len(a) < Len(b) ELSE a[Min(differ)] < b[Min(differ)]

\* sort.Slice
Sorted(rs) ==
    LET Ahead(j) == {k \in DOMAIN rs : Before(rs[k], rs[j]) \/ (rs[k] = rs[j] /\ k < j)}
    IN  [i \in DOMAIN rs |-> rs[CHOOSE j \in DOMAIN rs : Cardinality(Ahead(j)) = i - 1]]

HashSchemaRecords(rs) ==
    LET sorted == Sorted(rs)
    IN  FlattenSeq([i \in DOMAIN sorted |-> LengthPrefixed(sorted[i])])

-----------------------------------------------------------------------------
Idle == seen' = <<>> /\ unread' = Null /\ records' = <<>> /\ count' = 0 /\ usedBytes' = 0
        /\ totalBytes' = 0

FingerprintInit ==
    /\ past \in {<<c>> : c \in Catalogs}
    /\ seen = <<>> /\ unread = Null /\ records = <<>>
    /\ count = 0 /\ usedBytes = 0 /\ totalBytes = 0
    /\ taken = <<>>

Alter ==
    /\ Len(past) <= MaxAlterations
    /\ \E c \in Catalogs \ {Last(past)} : past' = Append(past, c)
    /\ UNCHANGED <<collection, taken>>

\* The next group's statement, which a failing collection does not reach.
QueryGroup ==
    /\ unread = Null /\ Len(seen) < Len(Groups) /\ Len(taken) < MaxCollections
    /\ seen' = Append(seen, Len(past))
    /\ unread' = Last(past)[Groups[Len(seen) + 1]]
    /\ count' = 0 /\ usedBytes' = 0
    /\ UNCHANGED <<past, records, totalBytes, taken>>

\* The limits a row is held to: rows of the group, bytes of a field, of the
\* record, and of what the groups before left of the whole.
Fits(row) ==
    LET record == Record(Group, row)
    IN  /\ count < MaxRowsPerGroup
        /\ \A field \in Range(Fields(Group, row)) : Len(field) <= MaxFieldBytes
        /\ Len(record) <= MaxRecordBytes
        /\ Len(record) <= (MaxTotalBytes - totalBytes) - usedBytes

Ends(print, cause) ==
    /\ taken' = Append(taken, [seen |-> seen, print |-> print, cause |-> cause])
    /\ Idle
    /\ UNCHANGED past

ReadRow ==
    /\ unread \notin {Null, {}}
    /\ \E row \in unread :
         /\ Fits(row)
         /\ unread' = unread \ {row}
         /\ records' = Append(records, Record(Group, row))
         /\ usedBytes' = usedBytes + Len(Record(Group, row))
    /\ count' = count + 1
    /\ UNCHANGED <<past, seen, totalBytes, taken>>

LimitExceeded ==
    /\ unread \notin {Null, {}}
    /\ \E row \in unread : ~Fits(row)
    /\ Ends(Null, "limit")

\* Mutant: every group has the whole budget.
EndGroupForgets ==
    /\ unread = {}
    /\ unread' = Null
    /\ UNCHANGED <<past, seen, records, count, usedBytes, totalBytes, taken>>

EndGroup ==
    /\ unread = {}
    /\ unread' = Null
    /\ totalBytes' = totalBytes + usedBytes
    /\ UNCHANGED <<past, seen, records, count, usedBytes, taken>>

\* The statement, a Scan or the iteration fails: there is no fingerprint.
ServerError ==
    /\ unread # Null
    /\ Ends(Null, "server")

Hash ==
    /\ unread = Null /\ Len(seen) = Len(Groups)
    /\ Ends(HashSchemaRecords(records), "none")

FingerprintNext ==
    \/ Alter
    \/ QueryGroup \/ ReadRow \/ LimitExceeded \/ EndGroup \/ ServerError \/ Hash

FingerprintSpec == FingerprintInit /\ [][FingerprintNext]_fingerprintVars

-----------------------------------------------------------------------------
\* The rows a collection was given: each group as it was at its own moment.
RowsOf(t) == [i \in DOMAIN t.seen |-> past[t.seen[i]][Groups[i]]]

\* Two fingerprints are equal exactly when the same rows of every kind were
\* read for both: not on the order the server returns them in, on where one
\* value ends and the next begins, on NULL or an empty default, on which kind
\* a row is of.  DDL between two statements of a collection makes it one of
\* rows from different moments, and of nothing else.
SamePrintSameSchema ==
    \A i, j \in DOMAIN taken :
        taken[i].print # Null /\ taken[j].print # Null =>
            (taken[i].print = taken[j].print <=> RowsOf(taken[i]) = RowsOf(taken[j]))

Size(kind, row) == Len(Record(kind, row))

\* The bytes of some rows: each row with each place in its record.
Bytes(rows) == UNION {{r} \X (1..Size(r[1], r[2])) : r \in rows}

WithinLimits(t) ==
    LET rows == UNION {{Groups[i]} \X RowsOf(t)[i] : i \in DOMAIN t.seen}
    IN  /\ \A i \in DOMAIN t.seen : Cardinality(RowsOf(t)[i]) <= MaxRowsPerGroup
        /\ \A r \in rows :
             /\ \A field \in Range(Fields(r[1], r[2])) : Len(field) <= MaxFieldBytes
             /\ Size(r[1], r[2]) <= MaxRecordBytes
        /\ Cardinality(Bytes(rows)) <= MaxTotalBytes

\* The limits are kept row by row and group by group, and hold for the whole:
\* what exceeds them has no fingerprint, in whatever order it comes, and what
\* is refused for them, having been read up to some group, exceeds them.
LimitsAreOfTheWhole ==
    \A i \in DOMAIN taken :
        /\ taken[i].print # Null => WithinLimits(taken[i])
        /\ taken[i].cause = "limit" => ~WithinLimits(taken[i])
=============================================================================
