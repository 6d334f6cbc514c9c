----------------------------- MODULE DatasetProofs -----------------------------
(***************************************************************************)
(* What holds of every import of an external data set, for any number of   *)
(* importers, files, chunks, failures and restarts, and, from the section  *)
(* "Local data sets" on, of every local data set, for any rows, crashes,   *)
(* failed downloads and hands on the files.                                *)
(***************************************************************************)
EXTENDS DatasetImport, LocalDataset, SequenceTheorems, FiniteSetTheorems, WellFoundedInduction, TLAPS
-----------------------------------------------------------------------------
(* The inductive invariant *)

Trying == {"bulk", "check", "insert"}
InTransaction == Trying \union {"saving"}
WithBatch == InTransaction \union {"chunks", "failing"}
Phases == WithBatch \union {"idle", "sampling", "looking", "opening"}

OwnRow == [key : Keys, content : Contents, batch : Nat, versioned : BOOLEAN]
Process ==
    [pc : Phases, runs : 0 .. MaxRuns, at : Nat, seen : [Keys -> Contents \union {None}],
     rows : Seq(Row), chunk : Seq(Row), candidates : SUBSET Nat, left : SUBSET Nat,
     own : SUBSET OwnRow, result : Count, batch : Nat, saw : BOOLEAN]

Typed ==
    /\ case \in Cases /\ survey \in Surveys /\ events \in 0 .. MaxEvents
    /\ batches \in Seq(Batch)
    /\ stored \in [Keys -> OwnRow \union {None}]
    /\ waiting \subseteq Keys
    /\ importer \in [Importers -> Process]

\* A process writes for a batch of its own, which has not ended.
BatchIsOpen(i, p) ==
    p.pc \in WithBatch =>
        /\ p.batch \in DOMAIN batches
        /\ batches[p.batch].importer = i /\ batches[p.batch].status = "running"

\* The transaction of a chunk: what it has inserted are candidates already tried, whose keys
\* nobody has committed; only an exception leaves some untried.
Transaction(p) ==
    /\ p.pc \notin InTransaction => p.own = {}
    /\ p.pc \in Trying => p.left # {}
    /\ p.pc \notin Trying \union {"failing"} => p.left = {}
    /\ p.left \subseteq p.candidates /\ p.candidates \subseteq DOMAIN p.chunk
    /\ \A m, n \in DOMAIN p.chunk : p.chunk[m].key = p.chunk[n].key => m = n
    /\ \A row \in p.own : row.batch = p.batch /\ stored[row.key] = None
    /\ \A row \in p.own : \E n \in p.candidates \ p.left : p.chunk[n].key = row.key
    /\ \A row, other \in p.own : row.key = other.key => row = other

\* The rows at hand have been read, each key once.
RowsAreSeen(p) ==
    /\ \A m, n \in DOMAIN p.rows : p.rows[m].key = p.rows[n].key => m = n
    /\ \A n \in DOMAIN p.rows : p.seen[p.rows[n].key] # None

ReadSoFar(i, p) ==
    /\ p.at <= Len(File(i))
    /\ \A n \in 1 .. p.at : File(i)[n] # Invalid => p.seen[File(i)[n].key] # None
    /\ p.pc = "sampling" => ~AllRows(i)

\* What was read is stored, inserted, or still at hand.
NothingIsDropped(i, p) ==
    AllRows(i) /\ p.pc # "failing" =>
        \A k \in Keys : p.seen[k] # None =>
            \/ stored[k] # None \/ k \in KeysOf(p.own)
            \/ \E n \in p.left : p.chunk[n].key = k
            \/ \E n \in DOMAIN p.rows : p.rows[n].key = k

\* The replies of the batch are counted, those of the statement that inserts all when it ends;
\* after an exception what was rolled back stays counted.
RepliesAreCounted(p) ==
    /\ p.pc \in {"idle", "sampling", "looking", "opening"} => p.result.imported = 0
    /\ p.pc \in {"chunks", "check", "insert", "saving"} =>
          p.result.imported = Cardinality(StoredBy(p.batch)) + Cardinality(KeysOf(p.own))
    /\ p.pc = "bulk" =>
          /\ p.result.imported = Cardinality(StoredBy(p.batch))
          /\ Cardinality(KeysOf(p.own)) + Cardinality(p.left) = Cardinality(p.candidates)
    /\ p.pc = "failing" => p.result.imported >= Cardinality(StoredBy(p.batch))

\* Each row that was read is counted, or still at hand.
RowsAreCounted(i, p) ==
    AllRows(i) /\ p.pc # "failing" =>
        /\ p.result.read = p.at
        /\ p.result.read = p.result.imported + p.result.skipped + p.result.duplicate + Len(p.rows)
                             + Cardinality(IF p.pc = "bulk" THEN p.candidates ELSE p.left)

Good(i, p) ==
    /\ BatchIsOpen(i, p) /\ Transaction(p) /\ RowsAreSeen(p) /\ ReadSoFar(i, p)
    /\ NothingIsDropped(i, p) /\ RepliesAreCounted(p) /\ RowsAreCounted(i, p)

\* An inserted key is held until the transaction ends.
KeysAreHeldOnce ==
    \A i, j \in Importers : i # j => KeysOf(importer[i].own) \intersect KeysOf(importer[j].own) = {}

StoredInBatches ==
    /\ \A k \in Keys : stored[k] # None => stored[k].key = k /\ stored[k].batch \in DOMAIN batches
    /\ \A b \in Nat : IsFiniteSet(StoredBy(b))

Announced == EndedImportsAreAnnounced /\ \A k \in waiting : stored[k] # None

IInv ==
    /\ Typed
    /\ \A i \in Importers : Good(i, importer[i])
    /\ KeysAreHeldOnce /\ StoredInBatches /\ Announced
    /\ BatchCountsAreTrue /\ CompletedMeansStored

-----------------------------------------------------------------------------
(* Chunks *)

LEMMA LeastIs ==
    ASSUME NEW S, S \subseteq Nat, S # {}
    PROVE  Least(S) \in S /\ Least(S) \in Nat /\ \A m \in S : Least(S) <= m
<1>1. PICK x \in S : \A y \in S : <<y, x>> \notin OpToRel(<, Nat)
  BY NatLessThanWellFounded, WFMin
<1>2. \A y \in S : ~(y < x)
  BY <1>1 DEF OpToRel
<1>3. x \in S /\ \A y \in S : x <= y
  BY <1>2
<1> QED BY <1>3 DEF Least

LEMMA ChunkIs ==
    ASSUME NEW rows \in Seq(Row), rows # <<>>
    PROVE  LET chunk == ChunkOf(rows)
               rest == SubSeq(rows, Len(chunk) + 1, Len(rows))
           IN  /\ chunk \in Seq(Row) /\ Len(chunk) \in 1 .. Len(rows)
               /\ DOMAIN chunk = 1 .. Len(chunk)
               /\ \A n \in DOMAIN chunk : chunk[n] = rows[n]
               /\ rest \in Seq(Row) /\ Len(rest) = Len(rows) - Len(chunk)
               /\ \A n \in DOMAIN rest : Len(chunk) + n \in DOMAIN rows /\ rest[n] = rows[Len(chunk) + n]
               /\ \A n \in DOMAIN rows : n \in DOMAIN chunk \/ (n - Len(chunk) \in DOMAIN rest
                                                             /\ rest[n - Len(chunk)] = rows[n])
<1> DEFINE m == IF Len(rows) < ChunkSize THEN Len(rows) ELSE ChunkSize
           chunk == SubSeq(rows, 1, m)
           rest == SubSeq(rows, m + 1, Len(rows))
<1>1. Len(rows) \in Nat /\ Len(rows) > 0 /\ DOMAIN rows = 1 .. Len(rows)
  OBVIOUS
<1>2. m \in 1 .. Len(rows)
  BY <1>1, BoundAssumption
<1>3. chunk \in Seq(Row) /\ Len(chunk) = m /\ \A n \in 1 .. m : chunk[n] = rows[n]
  <2>1. 1 \in 1 .. Len(rows) + 1 /\ m \in 0 .. Len(rows)
    BY <1>1, <1>2
  <2> QED BY <1>1, <1>2, <2>1, SubSeqProperties
<1>4. rest \in Seq(Row) /\ Len(rest) = Len(rows) - m /\ \A n \in 1 .. Len(rows) - m : rest[n] = rows[m + n]
  <2>1. m + 1 \in Int /\ Len(rows) \in Int /\ \A n \in m + 1 .. Len(rows) : rows[n] \in Row
    BY <1>1, <1>2
  <2>2. /\ rest \in Seq(Row)
        /\ Len(rest) = IF m + 1 <= Len(rows) THEN Len(rows) - (m + 1) + 1 ELSE 0
        /\ \A n \in 1 .. Len(rows) - (m + 1) + 1 : rest[n] = rows[(m + 1) + n - 1]
    BY <2>1, SubSeqProperties
  <2>3. Len(rest) = Len(rows) - m
    BY <1>1, <1>2, <2>2
  <2>4. ASSUME NEW n \in 1 .. Len(rows) - m PROVE rest[n] = rows[m + n]
    <3>1. n \in 1 .. Len(rows) - (m + 1) + 1 /\ (m + 1) + n - 1 = m + n
      BY <1>1, <1>2
    <3> QED BY <3>1, <2>2
  <2> QED BY <2>2, <2>3, <2>4
<1>5. DOMAIN chunk = 1 .. m /\ DOMAIN rest = 1 .. Len(rows) - m
  BY <1>3, <1>4
<1> HIDE DEF chunk, rest, m
<1>6. ChunkOf(rows) = chunk
  BY DEF ChunkOf, chunk, m
<1>7. SubSeq(rows, Len(chunk) + 1, Len(rows)) = rest
  BY <1>3 DEF rest
<1>8. ASSUME NEW n \in 1 .. Len(rows) - m PROVE m + n \in DOMAIN rows /\ rest[n] = rows[m + n]
  BY <1>1, <1>2, <1>4
<1>9. ASSUME NEW n \in 1 .. Len(rows), n \notin 1 .. m
      PROVE  n - m \in 1 .. Len(rows) - m /\ rest[n - m] = rows[n]
  <2>1. n - m \in 1 .. Len(rows) - m /\ m + (n - m) = n
    BY <1>1, <1>2, <1>9
  <2> QED BY <2>1, <1>4
<1> QED BY <1>1, <1>2, <1>3, <1>4, <1>5, <1>6, <1>7, <1>8, <1>9

\* A chunk is divided into candidates, repetitions and conflicts.
LEMMA ThreeParts ==
    ASSUME NEW n \in Nat, NEW A \in SUBSET (1 .. n), NEW B \in SUBSET ((1 .. n) \ A)
    PROVE  LET C == (1 .. n) \ (A \union B)
           IN  /\ Cardinality(A) \in Nat /\ Cardinality(B) \in Nat /\ Cardinality(C) \in Nat
               /\ Cardinality(A) + Cardinality(B) + Cardinality(C) = n
<1> DEFINE C == (1 .. n) \ (A \union B)
<1>0. /\ A \union B \union C = 1 .. n
      /\ A \intersect B = {} /\ A \intersect C = {} /\ B \intersect C = {}
  OBVIOUS
<1> HIDE DEF C
<1>1. IsFiniteSet(1 .. n) /\ Cardinality(1 .. n) = n
  <2>1. 1 \in Int /\ n \in Int
    OBVIOUS
  <2> QED BY <2>1, FS_Interval
<1>2. IsFiniteSet(A) /\ IsFiniteSet(B) /\ IsFiniteSet(C)
  BY <1>0, <1>1, FS_Subset
<1>3. Cardinality(A) \in Nat /\ Cardinality(B) \in Nat /\ Cardinality(C) \in Nat
  BY <1>2, FS_CardinalityType
<1>4. IsFiniteSet(A \union B) /\ Cardinality(A \union B) = Cardinality(A) + Cardinality(B)
  <2>1. Cardinality(A \intersect B) = 0
    BY <1>0, FS_EmptySet
  <2>2. /\ IsFiniteSet(A \union B)
        /\ Cardinality(A \union B) = Cardinality(A) + Cardinality(B) - Cardinality(A \intersect B)
    BY <1>2, FS_Union
  <2> QED BY <2>1, <2>2, <1>3
<1>5. Cardinality((A \union B) \union C) = Cardinality(A \union B) + Cardinality(C)
  <2>1. (A \union B) \intersect C = {}
    BY <1>0
  <2>2. Cardinality((A \union B) \intersect C) = 0
    BY <2>1, FS_EmptySet
  <2>3. Cardinality((A \union B) \union C)
          = Cardinality(A \union B) + Cardinality(C) - Cardinality((A \union B) \intersect C)
    BY <1>2, <1>4, FS_Union
  <2> QED BY <2>2, <2>3, <1>3, <1>4
<1> QED BY <1>0, <1>1, <1>2, <1>3, <1>4, <1>5 DEF C

LEMMA PositionsAreFinite ==
    ASSUME NEW s \in Seq(Row), NEW S, S \subseteq DOMAIN s
    PROVE  /\ S \subseteq Nat /\ IsFiniteSet(S) /\ Cardinality(S) \in Nat
           /\ \A n \in S : /\ IsFiniteSet(S \ {n}) /\ Cardinality(S \ {n}) = Cardinality(S) - 1
<1>1. DOMAIN s = 1 .. Len(s) /\ Len(s) \in Nat
  OBVIOUS
<1>2. IsFiniteSet(1 .. Len(s))
  <2>1. 1 \in Int /\ Len(s) \in Int
    BY <1>1
  <2> QED BY <2>1, FS_Interval
<1>3. IsFiniteSet(S)
  BY <1>1, <1>2, FS_Subset
<1> QED BY <1>1, <1>3, FS_CardinalityType, FS_RemoveElement

-----------------------------------------------------------------------------
(* Steps of a single process *)

\* Most steps change what one process knows, and nothing that is stored.
LEMMA ProcessStep ==
    ASSUME IInv, NEW i \in Importers, NEW q \in Process, Good(i, q),
           importer' = [importer EXCEPT ![i] = q],
           KeysOf(q.own) \subseteq KeysOf(importer[i].own) \union {k \in Keys : ~Held(k, i)},
           UNCHANGED <<case, stored, batches, waiting>>,
           survey' \in Surveys, events' \in 0 .. MaxEvents
    PROVE  IInv'
<1>1. Typed'
  BY DEF IInv, Typed
<1>2. ASSUME NEW j \in Importers PROVE Good(j, importer[j])'
  <2>1. Good(j, importer'[j])
    BY DEF IInv, Typed
  <2> QED
    BY <2>1 DEF Good, BatchIsOpen, Transaction, RowsAreSeen, ReadSoFar, NothingIsDropped,
                RepliesAreCounted, RowsAreCounted, File, AllRows, Limit, StoredBy
<1>3. KeysAreHeldOnce'
  <2> SUFFICES ASSUME NEW j \in Importers, NEW k \in Importers, j # k,
                      NEW key \in KeysOf(importer'[j].own), key \in KeysOf(importer'[k].own)
               PROVE  FALSE
    BY DEF KeysAreHeldOnce, KeysOf
  <2>1. importer' = [importer EXCEPT ![i] = q] /\ importer \in [Importers -> Process]
    BY DEF IInv, Typed
  <2>2. KeysOf(importer[j].own) \intersect KeysOf(importer[k].own) = {}
    BY DEF IInv, KeysAreHeldOnce
  <2>3. CASE j # i /\ k # i
    BY <2>1, <2>2, <2>3
  <2>4. CASE j = i
    <3>1. importer'[j] = q /\ importer'[k] = importer[k]
      BY <2>1, <2>4
    <3>2. key \notin KeysOf(importer[i].own) => ~Held(key, i)
      BY <3>1
    <3> QED BY <3>1, <3>2, <2>2, <2>4 DEF Held
  <2>5. CASE k = i
    <3>1. importer'[k] = q /\ importer'[j] = importer[j]
      BY <2>1, <2>5
    <3>2. key \notin KeysOf(importer[i].own) => ~Held(key, i)
      BY <3>1
    <3> QED BY <3>1, <3>2, <2>2, <2>5 DEF Held
  <2> QED BY <2>3, <2>4, <2>5
<1>4. StoredInBatches' /\ Announced'
  BY DEF IInv, StoredInBatches, Announced, EndedImportsAreAnnounced, StoredBy
<1>5. BatchCountsAreTrue' /\ CompletedMeansStored'
  BY DEF IInv, BatchCountsAreTrue, CompletedMeansStored, StoredBy, AllRows, Limit, FileOf, FileKeys, File
<1> QED BY <1>1, <1>2, <1>3, <1>4, <1>5 DEF IInv

-----------------------------------------------------------------------------
(* Reading *)

LEMMA FileType ==
    ASSUME Typed, NEW i \in Importers
    PROVE  /\ File(i) \in Seq(Row \union {Invalid}) /\ Len(File(i)) \in Nat
           /\ \A n \in 1 .. Len(File(i)) : File(i)[n] \in Row \union {Invalid}
           /\ Limit(i) # None => Limit(i) \in Nat \ {0}
           /\ Mapping(i) \subseteq Questions
<1>1. /\ case.file \in [Importers -> Seq(Row \union {Invalid})]
      /\ case.limit \in [Importers -> (Nat \ {0}) \union {None}]
      /\ case.mapping \in [Importers -> SUBSET Questions]
  BY CaseAssumption DEF Typed
<1>2. File(i) \in Seq(Row \union {Invalid})
  BY <1>1 DEF File
<1>3. Limit(i) \in (Nat \ {0}) \union {None} /\ Mapping(i) \subseteq Questions
  BY <1>1 DEF Limit, Mapping
<1> QED BY <1>2, <1>3

LEMMA Nothing ==
    /\ Cardinality({}) = 0 /\ IsFiniteSet({})
    /\ KeysOf({}) = {} /\ Invalid \notin Row
<1>1. KeysOf({}) = {}
  BY DEF KeysOf
<1>2. Invalid \notin Row
  BY NoneAssumption DEF Invalid, Row
<1> QED BY <1>1, <1>2, FS_EmptySet

LEMMA FileKeysAre ==
    ASSUME Typed, NEW b \in DOMAIN batches
    PROVE  /\ batches[b].importer \in Importers /\ FileKeys(b) \subseteq Keys
           /\ \A k \in FileKeys(b) : \E n \in 1 .. Len(FileOf(b)) :
                 FileOf(b)[n] # Invalid /\ FileOf(b)[n].key = k
<1>1. batches[b].importer \in Importers
  <2>1. batches \in Seq(Batch)
    BY DEF Typed
  <2>2. batches[b] \in Batch
    BY <2>1
  <2> QED BY <2>2 DEF Batch
<1>2. /\ FileOf(b) \in Seq(Row \union {Invalid})
      /\ \A n \in 1 .. Len(FileOf(b)) : FileOf(b)[n] \in Row \union {Invalid}
  BY <1>1, FileType DEF FileOf
<1>3. ASSUME NEW k \in FileKeys(b)
      PROVE  k \in Keys /\ \E n \in 1 .. Len(FileOf(b)) : FileOf(b)[n] # Invalid /\ FileOf(b)[n].key = k
  <2>1. PICK n \in DOMAIN FileOf(b) : FileOf(b)[n].key = k
    BY DEF FileKeys
  <2>2. n \in 1 .. Len(FileOf(b)) /\ k # None
    BY <1>2 DEF FileKeys
  <2>3. FileOf(b)[n] \in Row
    BY <1>2, <2>1, <2>2 DEF Invalid
  <2> QED BY <2>1, <2>2, <2>3, Nothing DEF Row
<1> QED BY <1>1, <1>3

LEMMA Counters ==
    ASSUME NEW r \in Count, NEW n \in Nat
    PROVE  /\ Add(r, "read", n) = [r EXCEPT !.read = r.read + n] /\ Add(r, "read", n) \in Count
           /\ Add(r, "sampled", n) = [r EXCEPT !.sampled = r.sampled + n] /\ Add(r, "sampled", n) \in Count
           /\ Add(r, "imported", n) = [r EXCEPT !.imported = r.imported + n]
           /\ Add(r, "imported", n) \in Count
           /\ Skip(r) = [r EXCEPT !.skipped = r.skipped + 1] /\ Skip(r) \in Count
           /\ Duplicate(r) = [r EXCEPT !.duplicate = r.duplicate + 1] /\ Duplicate(r) \in Count
           /\ Conflict(r) = [r EXCEPT !.skipped = r.skipped + 1, !.conflict = r.conflict + 1]
           /\ Conflict(r) \in Count
<1>1. ASSUME NEW m \in Nat
      PROVE  /\ Add(r, "read", m) = [r EXCEPT !.read = r.read + m]
             /\ Add(r, "sampled", m) = [r EXCEPT !.sampled = r.sampled + m]
             /\ Add(r, "imported", m) = [r EXCEPT !.imported = r.imported + m]
             /\ Add(r, "skipped", m) = [r EXCEPT !.skipped = r.skipped + m]
             /\ Add(r, "duplicate", m) = [r EXCEPT !.duplicate = r.duplicate + m]
  BY DEF Add, Count
<1>2. /\ Add(r, "read", n) \in Count /\ Add(r, "sampled", n) \in Count
      /\ Add(r, "imported", n) \in Count
  BY DEF Add, Count
<1>3. Skip(r) = [r EXCEPT !.skipped = r.skipped + 1] /\ Skip(r) \in Count
  <2>1. Skip(r) = [r EXCEPT !.skipped = r.skipped + 1]
    BY <1>1 DEF Skip
  <2>2. [r EXCEPT !.skipped = r.skipped + 1] \in Count
    BY DEF Count
  <2> QED BY <2>1, <2>2
<1>4. Duplicate(r) = [r EXCEPT !.duplicate = r.duplicate + 1] /\ Duplicate(r) \in Count
  <2>1. Duplicate(r) = [r EXCEPT !.duplicate = r.duplicate + 1]
    BY <1>1 DEF Duplicate
  <2>2. [r EXCEPT !.duplicate = r.duplicate + 1] \in Count
    BY DEF Count
  <2> QED BY <2>1, <2>2
<1>5. Conflict(r) = [r EXCEPT !.skipped = r.skipped + 1, !.conflict = r.conflict + 1] /\ Conflict(r) \in Count
  <2>1. Conflict(r) = [[r EXCEPT !.skipped = r.skipped + 1] EXCEPT !.conflict = @ + 1]
    BY <1>3 DEF Conflict, Add
  <2>2. [[r EXCEPT !.skipped = r.skipped + 1] EXCEPT !.conflict = @ + 1]
          = [r EXCEPT !.skipped = r.skipped + 1, !.conflict = r.conflict + 1]
    BY DEF Count
  <2>3. ASSUME NEW s \in Count PROVE [s EXCEPT !.conflict = s.conflict + 1] \in Count
    BY DEF Count
  <2>4. Conflict(r) \in Count
    BY <2>1, <2>3, <1>3
  <2> QED BY <2>1, <2>2, <2>4
<1> QED BY <1>1, <1>2, <1>3, <1>4, <1>5

LEMMA ChunkCounters ==
    ASSUME NEW r \in Count, NEW n \in Nat, NEW m \in Nat
    PROVE  LET s == Add(Add(Add(r, "duplicate", n), "skipped", m), "conflict", m)
           IN  /\ s \in Count /\ s.read = r.read /\ s.imported = r.imported
               /\ s.skipped = r.skipped + m /\ s.duplicate = r.duplicate + n
<1>1. ASSUME NEW x \in Count
      PROVE  LET s == Add(x, "duplicate", n)
             IN  /\ s \in Count /\ s.read = x.read /\ s.imported = x.imported
                 /\ s.skipped = x.skipped /\ s.duplicate = x.duplicate + n
  BY DEF Add, Count
<1>2. ASSUME NEW x \in Count
      PROVE  LET s == Add(x, "skipped", m)
             IN  /\ s \in Count /\ s.read = x.read /\ s.imported = x.imported
                 /\ s.skipped = x.skipped + m /\ s.duplicate = x.duplicate
  BY DEF Add, Count
<1>3. ASSUME NEW x \in Count
      PROVE  LET s == Add(x, "conflict", m)
             IN  /\ s \in Count /\ s.read = x.read /\ s.imported = x.imported
                 /\ s.skipped = x.skipped /\ s.duplicate = x.duplicate
  BY DEF Add, Count
<1> QED BY <1>1, <1>2, <1>3

LEMMA OneRowMore ==
    ASSUME NEW read \in Nat, NEW imported \in Nat, NEW skipped \in Nat, NEW duplicate \in Nat,
           NEW atHand \in Nat, read = imported + skipped + duplicate + atHand,
           NEW s \in Nat, NEW d \in Nat, NEW new \in {0, 1},
           s + d = skipped + duplicate + (1 - new)
    PROVE  read + 1 = imported + s + d + (atHand + new) + 0
  OBVIOUS

LEMMA FreshIsGood ==
    ASSUME Typed, NEW i \in Importers, NEW pc \in {"idle", "looking", "sampling"},
           pc = "sampling" => ~AllRows(i), NEW n \in 0 .. MaxRuns
    PROVE  LET q == [Idle EXCEPT !.pc = pc, !.runs = n]
           IN  q \in Process /\ Good(i, q) /\ KeysOf(q.own) = {}
<1> DEFINE q == [Idle EXCEPT !.pc = pc, !.runs = n]
<1>1. /\ q.pc = pc /\ q.runs = n /\ q.at = 0 /\ q.seen = [k \in Keys |-> None] /\ q.rows = <<>>
      /\ q.chunk = <<>> /\ q.candidates = {} /\ q.left = {} /\ q.own = {} /\ q.result = Zero
  BY DEF Idle
<1>2. q \in Process
  <2>1. Zero \in Count
    BY DEF Zero, Count
  <2>2. pc \in Phases /\ "idle" \in Phases /\ 0 \in 0 .. MaxRuns
    BY BoundAssumption DEF Phases, WithBatch, InTransaction, Trying
  <2>3. <<>> \in Seq(Row) /\ [k \in Keys |-> None] \in [Keys -> Contents \union {None}]
    OBVIOUS
  <2>4. Idle \in Process
    BY <2>1, <2>2, <2>3 DEF Idle, Process
  <2> QED BY <2>2, <2>4 DEF Process
<1> HIDE DEF q
<1>3. BatchIsOpen(i, q) /\ Transaction(q) /\ RowsAreSeen(q)
  BY <1>1 DEF BatchIsOpen, Transaction, RowsAreSeen, WithBatch, InTransaction, Trying
<1>4. ReadSoFar(i, q) /\ NothingIsDropped(i, q)
  BY <1>1, FileType DEF ReadSoFar, NothingIsDropped
<1>5. RepliesAreCounted(q)
  BY <1>1 DEF RepliesAreCounted, Zero
<1>6. RowsAreCounted(i, q)
  <2>1. Len(q.rows) = 0 /\ Cardinality(q.left) = 0 /\ q.pc # "bulk"
    BY <1>1, Nothing
  <2> QED BY <1>1, <2>1 DEF RowsAreCounted, Zero
<1>7. KeysOf(q.own) = {}
  BY <1>1, Nothing
<1> QED BY <1>2, <1>3, <1>4, <1>5, <1>6, <1>7 DEF Good, q

\* What a row does to what has been read: a new key is noted, another row is counted.
LEMMA ReadIs ==
    ASSUME NEW p \in Process, NEW row \in Row \union {Invalid}
    PROVE  LET q == Read(p, row)
           IN  /\ q = [p EXCEPT !.at = p.at + 1, !.seen = q.seen, !.result = q.result]
               /\ q.seen \in [Keys -> Contents \union {None}] /\ q.result \in Count
               /\ \A k \in Keys : p.seen[k] # None => q.seen[k] # None
               /\ row # Invalid => q.seen[row.key] # None
               /\ \A k \in Keys : q.seen[k] # None =>
                     p.seen[k] # None \/ (Accepted(p, row) /\ k = row.key)
               /\ q.result.read = p.result.read + 1 /\ q.result.imported = p.result.imported
               /\ q.result.skipped + q.result.duplicate
                     = p.result.skipped + p.result.duplicate + (IF Accepted(p, row) THEN 0 ELSE 1)
<1> DEFINE r == Add(p.result, "read", 1)
           q == Read(p, row)
<1>1. p.result \in Count /\ p.seen \in [Keys -> Contents \union {None}] /\ p.at \in Nat
  BY DEF Process
<1>2. r = [p.result EXCEPT !.read = p.result.read + 1] /\ r \in Count
  BY <1>1, Counters
<1>3. /\ r.read = p.result.read + 1 /\ r.imported = p.result.imported
      /\ r.skipped = p.result.skipped /\ r.duplicate = p.result.duplicate
  BY <1>1, <1>2 DEF Count
<1>4. ASSUME NEW s \in {Skip(r), Duplicate(r), Conflict(r)}
      PROVE  /\ s \in Count /\ s.read = r.read /\ s.imported = r.imported
             /\ s.skipped + s.duplicate = r.skipped + r.duplicate + 1
  <2>0. /\ r \in Count
        /\ Skip(r) = [r EXCEPT !.skipped = r.skipped + 1] /\ Skip(r) \in Count
        /\ Duplicate(r) = [r EXCEPT !.duplicate = r.duplicate + 1] /\ Duplicate(r) \in Count
        /\ Conflict(r) = [r EXCEPT !.skipped = r.skipped + 1, !.conflict = r.conflict + 1]
        /\ Conflict(r) \in Count
    BY <1>2, Counters
  <2> HIDE DEF r
  <2>1. CASE s = Skip(r)
    BY <2>0, <2>1 DEF Count
  <2>2. CASE s = Duplicate(r)
    BY <2>0, <2>2 DEF Count
  <2>3. CASE s = Conflict(r)
    BY <2>0, <2>3 DEF Count
  <2> QED BY <2>1, <2>2, <2>3
<1> HIDE DEF r
<1>5. CASE row = Invalid
  <2>1. q = [p EXCEPT !.at = p.at + 1, !.result = Skip(r)] /\ ~Accepted(p, row)
    BY <1>5 DEF Read, Accepted, r
  <2>2. q.seen = p.seen /\ q.result = Skip(r)
    BY <2>1 DEF Process
  <2>3. q = [p EXCEPT !.at = p.at + 1, !.seen = q.seen, !.result = q.result]
    BY <2>1, <2>2 DEF Process
  <2> HIDE DEF q
  <2> QED BY <1>1, <1>3, <1>4, <1>5, <2>1, <2>2, <2>3 DEF q, Count
<1>6. CASE row # Invalid /\ p.seen[row.key] # None
  <2>1. q = [p EXCEPT !.at = p.at + 1, !.result = Same(r, p.seen[row.key], row)] /\ ~Accepted(p, row)
    BY <1>6 DEF Read, Accepted, r
  <2>2. q.seen = p.seen /\ q.result = Same(r, p.seen[row.key], row)
    BY <2>1 DEF Process
  <2>3. q = [p EXCEPT !.at = p.at + 1, !.seen = q.seen, !.result = q.result]
    BY <2>1, <2>2 DEF Process
  <2>4. q.result \in {Duplicate(r), Conflict(r)}
    BY <2>2 DEF Same
  <2> HIDE DEF q
  <2> QED BY <1>1, <1>3, <1>4, <1>6, <2>1, <2>2, <2>3, <2>4 DEF q, Count
<1>7. CASE row # Invalid /\ p.seen[row.key] = None
  <2>1. /\ q = [p EXCEPT !.at = p.at + 1, !.result = r, !.seen[row.key] = row.content]
        /\ Accepted(p, row)
    BY <1>7 DEF Read, Accepted, r
  <2>2. q.seen = [p.seen EXCEPT ![row.key] = row.content] /\ q.result = r
    BY <2>1 DEF Process
  <2>3. q = [p EXCEPT !.at = p.at + 1, !.seen = q.seen, !.result = q.result]
    BY <2>1, <2>2 DEF Process
  <2>4. row.key \in Keys /\ row.content \in Contents /\ row.content # None
    BY <1>7, NoneAssumption DEF Row
  <2> HIDE DEF q
  <2>5. q.seen \in [Keys -> Contents \union {None}] /\ q.seen[row.key] # None
    BY <1>1, <2>2, <2>4
  <2>6. \A k \in Keys : k # row.key => q.seen[k] = p.seen[k]
    BY <1>1, <2>2
  <2> QED BY <1>1, <1>2, <1>3, <2>1, <2>2, <2>3, <2>5, <2>6 DEF q, Count
<1> QED BY <1>5, <1>6, <1>7

LEMMA ReadSees ==
    ASSUME NEW p \in Process, NEW row \in Row \union {Invalid}
    PROVE  /\ \A k \in Keys : p.seen[k] # None => Read(p, row).seen[k] # None
           /\ row # Invalid => Read(p, row).seen[row.key] # None
BY ReadIs

-----------------------------------------------------------------------------
(* Reading the file *)

LEMMA StartPreserves ==
    ASSUME IInv, NEW i \in Importers, Start(i)
    PROVE  IInv'
<1> DEFINE q == [Idle EXCEPT !.pc = IF AllRows(i) THEN "looking" ELSE "sampling",
                             !.runs = importer[i].runs + 1]
<1>1. importer[i].runs + 1 \in 0 .. MaxRuns
  BY BoundAssumption DEF IInv, Typed, Process, Start
<1>2. q \in Process /\ Good(i, q) /\ KeysOf(q.own) = {}
  BY <1>1, FreshIsGood DEF IInv
<1>3. /\ importer' = [importer EXCEPT ![i] = q]
      /\ UNCHANGED <<case, survey, stored, batches, waiting, events>>
  BY DEF Start
<1> HIDE DEF q
<1> QED BY <1>2, <1>3, ProcessStep DEF IInv, Typed

\* A process that starts over has nothing.
LEMMA RestartPreserves ==
    ASSUME IInv, NEW i \in Importers,
           importer' = [importer EXCEPT ![i] = [Idle EXCEPT !.runs = importer[i].runs]],
           UNCHANGED <<case, survey, stored, batches, waiting>>, events' \in 0 .. MaxEvents
    PROVE  IInv'
<1> DEFINE q == [Idle EXCEPT !.pc = "idle", !.runs = importer[i].runs]
<1>1. importer[i].runs \in 0 .. MaxRuns
  BY DEF IInv, Typed, Process
<1>2. q \in Process /\ Good(i, q) /\ KeysOf(q.own) = {}
  BY <1>1, FreshIsGood DEF IInv
<1>3. importer' = [importer EXCEPT ![i] = q]
  <2>1. Idle.pc = "idle" /\ Idle = [Idle EXCEPT !.pc = Idle.pc]
    BY DEF Idle
  <2>2. q = [Idle EXCEPT !.runs = importer[i].runs]
    BY <2>1 DEF Idle
  <2> QED BY <2>2
<1> HIDE DEF q
<1> QED BY <1>2, <1>3, ProcessStep DEF IInv, Typed

LEMMA DisturbedIsBounded ==
    ASSUME Typed, Disturbed
    PROVE  events' \in 0 .. MaxEvents
  BY BoundAssumption DEF Typed, Disturbed

LEMMA ReadFurther ==
    ASSUME Typed, NEW i \in Importers, NEW p \in Process, ReadSoFar(i, p), p.at < Len(File(i)),
           NEW q, q.at = p.at + 1, q.seen = Read(p, File(i)[p.at + 1]).seen, q.pc = p.pc
    PROVE  ReadSoFar(i, q)
<1> DEFINE row == File(i)[p.at + 1]
           r == Read(p, row)
<1>1. /\ p.at \in Nat /\ p.at <= Len(File(i)) /\ Len(File(i)) \in Nat
      /\ \A n \in 1 .. p.at : File(i)[n] # Invalid => p.seen[File(i)[n].key] # None
  BY FileType DEF ReadSoFar, Process
<1>2. p.at + 1 \in 1 .. Len(File(i)) /\ row \in Row \union {Invalid}
  BY <1>1, FileType
<1>3. /\ \A k \in Keys : p.seen[k] # None => r.seen[k] # None
      /\ row # Invalid => r.seen[row.key] # None
  BY <1>2, ReadIs
<1> HIDE DEF r
<1>4. ASSUME NEW n \in 1 .. p.at + 1, File(i)[n] # Invalid
      PROVE  r.seen[File(i)[n].key] # None
  <2>1. CASE n = p.at + 1
    BY <2>1, <1>3, <1>4
  <2>2. CASE n \in 1 .. p.at
    <3>1. File(i)[n] \in Row
      BY <1>1, <1>4, <2>2, FileType
    <3> QED BY <3>1, <2>2, <1>1, <1>3, <1>4 DEF Row
  <2> QED BY <2>1, <2>2, <1>1
<1>5. q.at <= Len(File(i)) /\ q.seen = r.seen /\ q.at = p.at + 1
  BY <1>1, <1>2 DEF r
<1> QED BY <1>4, <1>5 DEF ReadSoFar

LEMMA SampleRowPreserves ==
    ASSUME IInv, NEW i \in Importers, SampleRow(i)
    PROVE  IInv'
<1> DEFINE p == importer[i]
           row == File(i)[p.at + 1]
           r == Read(p, row)
<1>1. p \in Process /\ Good(i, p) /\ p.pc = "sampling" /\ ~AllRows(i)
  BY DEF IInv, Typed, SampleRow, Good, ReadSoFar
<1>2. p.at + 1 \in 1 .. Len(File(i)) /\ row \in Row \union {Invalid}
  <2>1. p.at \in Nat /\ p.at < Len(File(i)) /\ Len(File(i)) \in Nat
    BY <1>1, FileType DEF Process, SampleRow, IInv
  <2> QED BY <2>1, FileType DEF IInv
<1>3. Limit(i) \in Nat \ {0}
  BY <1>1, FileType DEF AllRows, IInv
<1>4. PICK sample \in IF Accepted(p, row) THEN Reservoir(p.rows, Limit(i), row) ELSE {p.rows} :
         importer' = [importer EXCEPT ![i] = [r EXCEPT !.rows = sample]]
  BY DEF SampleRow
<1>5. /\ r = [p EXCEPT !.at = p.at + 1, !.seen = r.seen, !.result = r.result]
      /\ r.seen \in [Keys -> Contents \union {None}] /\ r.result \in Count
      /\ \A k \in Keys : p.seen[k] # None => r.seen[k] # None
      /\ row # Invalid => r.seen[row.key] # None
  <2>1. r = [p EXCEPT !.at = p.at + 1, !.seen = r.seen, !.result = r.result]
    BY <1>1, <1>2, ReadIs
  <2>2. r.seen \in [Keys -> Contents \union {None}] /\ r.result \in Count
    BY <1>1, <1>2, ReadIs
  <2>3. /\ \A k \in Keys : p.seen[k] # None => r.seen[k] # None
        /\ row # Invalid => r.seen[row.key] # None
    BY <1>1, <1>2, ReadSees
  <2> QED BY <2>1, <2>2, <2>3
<1>14. r.result.imported = p.result.imported
  BY <1>1, <1>2, ReadIs
<1> DEFINE q == [r EXCEPT !.rows = sample]
<1> HIDE DEF r, row, p
<1>6. /\ sample \in Seq(Row)
      /\ \A m, n \in DOMAIN sample : sample[m].key = sample[n].key => m = n
      /\ \A n \in DOMAIN sample : r.seen[sample[n].key] # None
  <2>1. /\ p.rows \in Seq(Row)
        /\ \A m, n \in DOMAIN p.rows : p.rows[m].key = p.rows[n].key => m = n
        /\ \A n \in DOMAIN p.rows : p.rows[n].key \in Keys /\ p.seen[p.rows[n].key] # None
    <3>1. p.rows \in Seq(Row)
      BY <1>1 DEF Process
    <3>2. \A n \in DOMAIN p.rows : p.rows[n] \in Row
      BY <3>1
    <3> QED BY <1>1, <3>1, <3>2 DEF Good, RowsAreSeen, Row
  <2>2. CASE sample = p.rows
    BY <2>1, <2>2, <1>5
  <2>3. CASE Accepted(p, row) /\ sample = Append(p.rows, row)
    <3>1. /\ row \in Row /\ p.seen[row.key] = None /\ r.seen[row.key] # None
      BY <2>3, <1>2, <1>5 DEF Accepted
    <3>2. \A n \in DOMAIN p.rows : p.rows[n].key # row.key
      BY <2>1, <3>1
    <3>3. sample \in Seq(Row) /\ DOMAIN sample = 1 .. Len(p.rows) + 1
      BY <2>1, <2>3, <3>1
    <3>4. \A n \in DOMAIN sample : (n \in DOMAIN p.rows /\ sample[n] = p.rows[n])
                                     \/ (n = Len(p.rows) + 1 /\ sample[n] = row)
      BY <2>1, <2>3, <3>1, <3>3
    <3> QED BY <2>1, <3>1, <3>2, <3>3, <3>4, <1>5
  <2>4. CASE /\ Accepted(p, row) /\ ~(Len(p.rows) < Limit(i))
             /\ \E n \in 1 .. Limit(i) : sample = [p.rows EXCEPT ![n] = row]
    <3>1. PICK n \in 1 .. Limit(i) : sample = [p.rows EXCEPT ![n] = row]
      BY <2>4
    <3>2. n \in DOMAIN p.rows
      BY <2>1, <2>4, <1>3
    <3>3. row \in Row /\ p.seen[row.key] = None /\ r.seen[row.key] # None
      BY <2>4, <1>2, <1>5 DEF Accepted
    <3>4. \A m \in DOMAIN p.rows : p.rows[m].key # row.key
      BY <2>1, <3>3
    <3>5. sample \in Seq(Row) /\ DOMAIN sample = DOMAIN p.rows
      BY <2>1, <3>1, <3>2, <3>3
    <3>6. sample[n] = row /\ \A m \in DOMAIN p.rows : m # n => sample[m] = p.rows[m]
      BY <3>1, <3>2
    <3> QED BY <2>1, <3>3, <3>4, <3>5, <3>6, <1>5
  <2> QED BY <2>2, <2>3, <2>4, <1>4 DEF Reservoir
<1>7. /\ q = [p EXCEPT !.at = p.at + 1, !.seen = r.seen, !.result = r.result, !.rows = sample]
      /\ q \in Process
  <2>1. q = [p EXCEPT !.at = p.at + 1, !.seen = r.seen, !.result = r.result, !.rows = sample]
    BY <1>1, <1>5 DEF Process
  <2>2. r \in Process
    <3>1. p.at + 1 \in Nat
      BY <1>1 DEF Process
    <3> QED BY <1>1, <1>5, <3>1 DEF Process
  <2>3. q \in Process
    BY <2>2, <1>6 DEF Process
  <2> QED BY <2>1, <2>3
<1>8. /\ q.pc = "sampling" /\ q.own = p.own /\ q.left = p.left /\ q.candidates = p.candidates
      /\ q.chunk = p.chunk /\ q.batch = p.batch /\ q.seen = r.seen /\ q.at = p.at + 1
      /\ q.rows = sample /\ q.result = r.result
  BY <1>1, <1>7 DEF Process
<1> HIDE DEF q
<1>9. BatchIsOpen(i, q) /\ Transaction(q) /\ RowsAreSeen(q)
  BY <1>1, <1>6, <1>8 DEF Good, BatchIsOpen, Transaction, RowsAreSeen, WithBatch, InTransaction, Trying
<1>10. ReadSoFar(i, q)
  <2>1. ReadSoFar(i, p) /\ p.at < Len(File(i))
    BY <1>1 DEF Good, SampleRow, p
  <2> QED BY <2>1, <1>1, <1>8, ReadFurther DEF IInv, r, row
<1>11. NothingIsDropped(i, q) /\ RepliesAreCounted(q) /\ RowsAreCounted(i, q)
  BY <1>1, <1>8, <1>14 DEF Good, NothingIsDropped, RepliesAreCounted, RowsAreCounted
<1>12. Good(i, q)
  BY <1>9, <1>10, <1>11 DEF Good
<1>13. importer' = [importer EXCEPT ![i] = q] /\ KeysOf(q.own) = KeysOf(importer[i].own)
  BY <1>4, <1>8 DEF q, p
<1> QED BY <1>7, <1>12, <1>13, ProcessStep DEF IInv, Typed, SampleRow

LEMMA SampledPreserves ==
    ASSUME IInv, NEW i \in Importers, Sampled(i)
    PROVE  IInv'
<1> DEFINE p == importer[i]
           q == [p EXCEPT !.pc = "looking", !.result.sampled = Len(p.rows)]
<1>1. p \in Process /\ Good(i, p) /\ p.pc = "sampling" /\ ~AllRows(i)
  BY DEF IInv, Typed, Sampled, Good, ReadSoFar
<1>2. importer' = [importer EXCEPT ![i] = q]
  BY <1>1 DEF Sampled, IInv, Typed
<1> HIDE DEF p
<1>3. p.result \in Count /\ Len(p.rows) \in Nat /\ "looking" \in Phases
  BY <1>1 DEF Process, Phases
<1>4. /\ [p.result EXCEPT !.sampled = Len(p.rows)] \in Count
      /\ [p.result EXCEPT !.sampled = Len(p.rows)].imported = p.result.imported
  BY <1>3 DEF Count
<1>5. q = [p EXCEPT !.pc = "looking", !.result = [p.result EXCEPT !.sampled = Len(p.rows)]]
  BY <1>1 DEF Process
<1>6. q \in Process
  BY <1>1, <1>3, <1>4, <1>5 DEF Process
<1>7. /\ q.pc = "looking" /\ q.own = p.own /\ q.left = p.left /\ q.candidates = p.candidates
      /\ q.chunk = p.chunk /\ q.batch = p.batch /\ q.seen = p.seen /\ q.at = p.at
      /\ q.rows = p.rows /\ q.result.imported = p.result.imported
  BY <1>1, <1>4, <1>5 DEF Process
<1> HIDE DEF q
<1>8. Good(i, q)
  BY <1>1, <1>7 DEF Good, BatchIsOpen, Transaction, RowsAreSeen, ReadSoFar, NothingIsDropped,
                    RepliesAreCounted, RowsAreCounted, WithBatch, InTransaction, Trying
<1>9. KeysOf(q.own) = KeysOf(importer[i].own)
  BY <1>7 DEF p
<1> QED BY <1>2, <1>6, <1>8, <1>9, ProcessStep DEF IInv, Typed, Sampled

LEMMA LookUpPreserves ==
    ASSUME IInv, NEW i \in Importers, LookUp(i)
    PROVE  IInv'
<1> DEFINE p == importer[i]
           q == [p EXCEPT !.pc = "opening", !.saw = survey.exists]
<1>1. p \in Process /\ Good(i, p) /\ p.pc = "looking"
  BY DEF IInv, Typed, LookUp
<1>2. importer' = [importer EXCEPT ![i] = q]
  BY <1>1 DEF LookUp, IInv, Typed
<1> HIDE DEF p
<1>3. survey.exists \in BOOLEAN /\ "opening" \in Phases
  BY DEF IInv, Typed, Surveys, Phases
<1>4. q \in Process
  BY <1>1, <1>3 DEF Process
<1>5. /\ q.pc = "opening" /\ q.own = p.own /\ q.left = p.left /\ q.candidates = p.candidates
      /\ q.chunk = p.chunk /\ q.batch = p.batch /\ q.seen = p.seen /\ q.at = p.at
      /\ q.rows = p.rows /\ q.result = p.result
  BY <1>1 DEF Process
<1> HIDE DEF q
<1>6. Good(i, q)
  BY <1>1, <1>5 DEF Good, BatchIsOpen, Transaction, RowsAreSeen, ReadSoFar, NothingIsDropped,
                    RepliesAreCounted, RowsAreCounted, WithBatch, InTransaction, Trying
<1>7. KeysOf(q.own) = KeysOf(importer[i].own)
  BY <1>5 DEF p
<1> QED BY <1>2, <1>4, <1>6, <1>7, ProcessStep DEF IInv, Typed, LookUp

LEMMA ReadRowPreserves ==
    ASSUME IInv, NEW i \in Importers, ReadRow(i)
    PROVE  IInv'
<1> DEFINE p == importer[i]
           row == File(i)[p.at + 1]
           r == Read(p, row)
           rows == IF Accepted(p, row) THEN Append(p.rows, row) ELSE p.rows
           result == IF Accepted(p, row) THEN Add(r.result, "sampled", 1) ELSE r.result
           q == [p EXCEPT !.at = p.at + 1, !.seen = r.seen, !.result = result, !.rows = rows]
<1>1. p \in Process /\ Good(i, p) /\ p.pc = "chunks" /\ AllRows(i)
  BY DEF IInv, Typed, ReadRow
<1>2. p.at + 1 \in 1 .. Len(File(i)) /\ row \in Row \union {Invalid}
  <2>1. p.at \in Nat /\ p.at < Len(File(i)) /\ Len(File(i)) \in Nat
    BY <1>1, FileType DEF Process, ReadRow, IInv
  <2> QED BY <2>1, FileType DEF IInv
<1>3. /\ r = [p EXCEPT !.at = p.at + 1, !.seen = r.seen, !.result = r.result]
      /\ r.seen \in [Keys -> Contents \union {None}] /\ r.result \in Count
      /\ \A k \in Keys : p.seen[k] # None => r.seen[k] # None
      /\ row # Invalid => r.seen[row.key] # None
      /\ \A k \in Keys : r.seen[k] # None => p.seen[k] # None \/ (Accepted(p, row) /\ k = row.key)
      /\ r.result.read = p.result.read + 1 /\ r.result.imported = p.result.imported
      /\ r.result.skipped + r.result.duplicate
            = p.result.skipped + p.result.duplicate + (IF Accepted(p, row) THEN 0 ELSE 1)
  BY <1>1, <1>2, ReadIs
<1>4. importer' = [importer EXCEPT ![i] =
         IF Accepted(p, row) THEN [r EXCEPT !.rows = Append(@, row), !.result.sampled = @ + 1] ELSE r]
  BY DEF ReadRow
<1> HIDE DEF p, row, r
<1>5. /\ result \in Count /\ result.read = r.result.read /\ result.imported = r.result.imported
      /\ result.skipped = r.result.skipped /\ result.duplicate = r.result.duplicate
  <2>1. CASE Accepted(p, row)
    <3>1. result = [r.result EXCEPT !.sampled = r.result.sampled + 1] /\ result \in Count
      BY <2>1, <1>3, Counters
    <3> HIDE DEF result
    <3> QED BY <3>1, <1>3 DEF Count
  <2>2. CASE ~Accepted(p, row)
    BY <2>2, <1>3
  <2> QED BY <2>1, <2>2
<1>6. importer' = [importer EXCEPT ![i] = q]
  <2>1. r.rows = p.rows
    BY <1>1, <1>3 DEF Process
  <2>2. CASE Accepted(p, row)
    <3>1. Add(r.result, "sampled", 1) = [r.result EXCEPT !.sampled = r.result.sampled + 1]
      BY <1>3, Counters
    <3>2. [r EXCEPT !.rows = Append(@, row), !.result.sampled = @ + 1]
            = [r EXCEPT !.rows = Append(p.rows, row), !.result = result]
      BY <2>1, <2>2, <3>1, <1>3, <1>1 DEF Process
    <3>3. [r EXCEPT !.rows = Append(p.rows, row), !.result = result] = q
      BY <2>2, <1>3, <1>1 DEF Process
    <3> QED BY <3>2, <3>3, <1>4, <2>2
  <2>3. CASE ~Accepted(p, row)
    <3>1. r = q
      BY <2>3, <1>3, <1>1 DEF Process
    <3> QED BY <3>1, <1>4, <2>3
  <2> QED BY <2>2, <2>3
<1>7. /\ rows \in Seq(Row) /\ Len(rows) = Len(p.rows) + (IF Accepted(p, row) THEN 1 ELSE 0)
      /\ \A m, n \in DOMAIN rows : rows[m].key = rows[n].key => m = n
      /\ \A n \in DOMAIN rows : r.seen[rows[n].key] # None
      /\ \A n \in DOMAIN p.rows : n \in DOMAIN rows /\ rows[n] = p.rows[n]
      /\ Accepted(p, row) => \E n \in DOMAIN rows : rows[n] = row
  <2>1. /\ p.rows \in Seq(Row)
        /\ \A m, n \in DOMAIN p.rows : p.rows[m].key = p.rows[n].key => m = n
        /\ \A n \in DOMAIN p.rows : p.rows[n].key \in Keys /\ p.seen[p.rows[n].key] # None
    <3>1. p.rows \in Seq(Row)
      BY <1>1 DEF Process
    <3>2. \A n \in DOMAIN p.rows : p.rows[n] \in Row
      BY <3>1
    <3> QED BY <1>1, <3>1, <3>2 DEF Good, RowsAreSeen, Row
  <2>2. CASE ~Accepted(p, row)
    BY <2>1, <2>2, <1>3
  <2>3. CASE Accepted(p, row)
    <3>1. /\ row \in Row /\ p.seen[row.key] = None /\ r.seen[row.key] # None
          /\ rows = Append(p.rows, row)
      BY <2>3, <1>2, <1>3 DEF Accepted
    <3>2. \A n \in DOMAIN p.rows : p.rows[n].key # row.key
      BY <2>1, <3>1
    <3> HIDE DEF rows
    <3>3. rows \in Seq(Row) /\ DOMAIN rows = 1 .. Len(p.rows) + 1 /\ Len(rows) = Len(p.rows) + 1
      BY <2>1, <3>1
    <3>4. /\ rows[Len(p.rows) + 1] = row /\ Len(p.rows) + 1 \in DOMAIN rows
          /\ \A n \in DOMAIN p.rows : n \in DOMAIN rows /\ rows[n] = p.rows[n]
          /\ \A n \in DOMAIN rows : n \in DOMAIN p.rows \/ n = Len(p.rows) + 1
      BY <2>1, <3>1, <3>3
    <3> QED BY <2>1, <2>3, <3>1, <3>2, <3>3, <3>4, <1>3
  <2> QED BY <2>2, <2>3
<1> HIDE DEF rows, result
<1>8. q \in Process
  <2>1. p.at + 1 \in Nat
    BY <1>1 DEF Process
  <2> QED BY <1>1, <1>3, <1>5, <1>7, <2>1 DEF Process
<1>9. /\ q.pc = "chunks" /\ q.own = p.own /\ q.left = p.left /\ q.candidates = p.candidates
      /\ q.chunk = p.chunk /\ q.batch = p.batch /\ q.seen = r.seen /\ q.at = p.at + 1
      /\ q.rows = rows /\ q.result = result
  BY <1>1 DEF Process
<1> HIDE DEF q
<1>10. BatchIsOpen(i, q) /\ Transaction(q) /\ RowsAreSeen(q) /\ RepliesAreCounted(q)
  <2>1. BatchIsOpen(i, q)
    BY <1>1, <1>9 DEF Good, BatchIsOpen
  <2>2. Transaction(q)
    BY <1>1, <1>9 DEF Good, Transaction
  <2>3. RowsAreSeen(q)
    BY <1>7, <1>9 DEF RowsAreSeen
  <2>4. RepliesAreCounted(q)
    BY <1>1, <1>3, <1>5, <1>9 DEF Good, RepliesAreCounted
  <2> QED BY <2>1, <2>2, <2>3, <2>4
<1>11. ReadSoFar(i, q)
  <2>1. ReadSoFar(i, p) /\ p.at < Len(File(i))
    BY <1>1 DEF Good, ReadRow, p
  <2> QED BY <2>1, <1>1, <1>9, ReadFurther DEF IInv, r, row
<1>12. NothingIsDropped(i, q)
  <2> SUFFICES ASSUME NEW k \in Keys, r.seen[k] # None
               PROVE  \/ stored[k] # None \/ k \in KeysOf(p.own)
                      \/ \E n \in p.left : p.chunk[n].key = k
                      \/ \E n \in DOMAIN rows : rows[n].key = k
    BY <1>9 DEF NothingIsDropped
  <2>1. CASE p.seen[k] # None
    BY <2>1, <1>1, <1>7 DEF Good, NothingIsDropped
  <2>2. CASE Accepted(p, row) /\ k = row.key
    BY <2>2, <1>7
  <2> QED BY <2>1, <2>2, <1>3
<1>13. RowsAreCounted(i, q)
  <2>1. p.left = {} /\ Cardinality(p.left) = 0
    BY <1>1, Nothing DEF Good, Transaction, Trying
  <2>2. /\ p.result.read = p.at
        /\ p.result.read = p.result.imported + p.result.skipped + p.result.duplicate + Len(p.rows)
    BY <1>1, <2>1 DEF Good, RowsAreCounted, Process, Count
  <2>3. /\ result.read = p.at + 1 /\ result.imported = p.result.imported
        /\ result.skipped + result.duplicate
             = p.result.skipped + p.result.duplicate + (IF Accepted(p, row) THEN 0 ELSE 1)
    BY <2>2, <1>3, <1>5
  <2>4. /\ p.result.imported \in Nat /\ p.result.skipped \in Nat /\ p.result.duplicate \in Nat
        /\ result.skipped \in Nat /\ result.duplicate \in Nat /\ Len(p.rows) \in Nat /\ p.at \in Nat
    BY <1>1, <1>5 DEF Process, Count
  <2>5. result.read = result.imported + result.skipped + result.duplicate + Len(rows) + 0
    <3> DEFINE new == IF Accepted(p, row) THEN 1 ELSE 0
    <3>1. new \in {0, 1} /\ (IF Accepted(p, row) THEN 0 ELSE 1) = 1 - new
      OBVIOUS
    <3>2. Len(rows) = Len(p.rows) + new
      BY <1>7
    <3> HIDE DEF new
    <3>3. result.skipped + result.duplicate = p.result.skipped + p.result.duplicate + (1 - new)
      BY <2>3, <3>1
    <3>4. result.read = p.at + 1 /\ result.imported = p.result.imported
      BY <2>3
    <3>5. p.at = p.result.imported + p.result.skipped + p.result.duplicate + Len(p.rows)
      BY <2>2
    <3>6. p.at + 1 = p.result.imported + result.skipped + result.duplicate + (Len(p.rows) + new) + 0
      <4> DEFINE at == p.at
                 imported == p.result.imported
                 skipped == p.result.skipped
                 duplicate == p.result.duplicate
                 skipped1 == result.skipped
                 duplicate1 == result.duplicate
                 atHand == Len(p.rows)
      <4>1. /\ at \in Nat /\ imported \in Nat /\ skipped \in Nat /\ duplicate \in Nat
            /\ skipped1 \in Nat /\ duplicate1 \in Nat /\ atHand \in Nat
        BY <2>4
      <4>2. at = imported + skipped + duplicate + atHand
        BY <3>5
      <4>3. skipped1 + duplicate1 = skipped + duplicate + (1 - new)
        BY <3>3
      <4> HIDE DEF at, imported, skipped, duplicate, skipped1, duplicate1, atHand
      <4>4. at + 1 = imported + skipped1 + duplicate1 + (atHand + new) + 0
        BY <3>1, <4>1, <4>2, <4>3, OneRowMore
      <4> QED BY <4>4 DEF at, imported, skipped, duplicate, skipped1, duplicate1, atHand
    <3> QED BY <3>2, <3>4, <3>6
  <2> QED BY <2>1, <2>3, <2>5, <1>9 DEF RowsAreCounted
<1>14. Good(i, q) /\ KeysOf(q.own) = KeysOf(importer[i].own)
  BY <1>9, <1>10, <1>11, <1>12, <1>13 DEF Good, p
<1> QED BY <1>6, <1>8, <1>14, ProcessStep DEF IInv, Typed, ReadRow

-----------------------------------------------------------------------------
(* The transaction of a chunk *)

LEMMA PartsOfAChunk ==
    ASSUME NEW read \in Nat, NEW imported \in Nat, NEW skipped \in Nat, NEW duplicate \in Nat,
           NEW all \in Nat, NEW old, old = 0, read = imported + skipped + duplicate + all + old,
           NEW chunk \in Nat, NEW rest \in Nat, rest = all - chunk,
           NEW candidates \in Nat, NEW same \in Nat, NEW conflicts \in Nat,
           candidates + same + conflicts = chunk
    PROVE  read = imported + (skipped + conflicts) + (duplicate + same) + rest + candidates
  OBVIOUS

LEMMA BeginChunkPreserves ==
    ASSUME IInv, NEW i \in Importers, BeginChunk(i)
    PROVE  IInv'
<1> DEFINE p == importer[i]
           chunk == ChunkOf(p.rows)
           rest == SubSeq(p.rows, Len(chunk) + 1, Len(p.rows))
           new == {n \in DOMAIN chunk : stored[chunk[n].key] = None}
           same == {n \in (DOMAIN chunk) \ new : stored[chunk[n].key].content = chunk[n].content}
           conflicts == (DOMAIN chunk) \ (new \union same)
           result == Add(Add(Add(p.result, "duplicate", Cardinality(same)),
                             "skipped", Cardinality(conflicts)), "conflict", Cardinality(conflicts))
           pc == IF new = {} THEN "saving" ELSE "bulk"
           q == [p EXCEPT !.rows = rest, !.chunk = chunk, !.candidates = new, !.left = new,
                          !.result = result, !.pc = pc]
<1>1. p \in Process /\ Good(i, p) /\ p.pc = "chunks" /\ p.rows # <<>> /\ p.rows \in Seq(Row)
  BY DEF IInv, Typed, BeginChunk, ChunkReady, Process
<1>2. importer' = [importer EXCEPT ![i] = q]
  BY DEF BeginChunk
<1> HIDE DEF p
<1>3. /\ chunk \in Seq(Row) /\ Len(chunk) \in 1 .. Len(p.rows) /\ DOMAIN chunk = 1 .. Len(chunk)
      /\ \A n \in DOMAIN chunk : chunk[n] = p.rows[n]
      /\ rest \in Seq(Row) /\ Len(rest) = Len(p.rows) - Len(chunk)
      /\ \A n \in DOMAIN rest : Len(chunk) + n \in DOMAIN p.rows /\ rest[n] = p.rows[Len(chunk) + n]
      /\ \A n \in DOMAIN p.rows : n \in DOMAIN chunk \/ (n - Len(chunk) \in DOMAIN rest
                                                      /\ rest[n - Len(chunk)] = p.rows[n])
  BY <1>1, ChunkIs
<1> HIDE DEF chunk, rest
<1>4. /\ Cardinality(new) \in Nat /\ Cardinality(same) \in Nat /\ Cardinality(conflicts) \in Nat
      /\ Cardinality(new) + Cardinality(same) + Cardinality(conflicts) = Len(chunk)
  <2>1. Len(chunk) \in Nat /\ DOMAIN chunk = 1 .. Len(chunk)
    BY <1>3
  <2>2. new \in SUBSET (1 .. Len(chunk)) /\ same \in SUBSET ((1 .. Len(chunk)) \ new)
    BY <2>1
  <2>3. conflicts = (1 .. Len(chunk)) \ (new \union same)
    BY <2>1
  <2> HIDE DEF new, same, conflicts
  <2> QED BY <2>1, <2>2, <2>3, ThreeParts
<1>5. /\ new \subseteq DOMAIN chunk /\ new \subseteq Nat
      /\ \A n \in new : stored[chunk[n].key] = None
      /\ \A n \in DOMAIN chunk : n \notin new => stored[chunk[n].key] # None
  BY <1>3
<1> HIDE DEF new, same, conflicts
<1>6. p.result \in Count
  BY <1>1 DEF Process
<1>7. /\ result \in Count /\ result.read = p.result.read /\ result.imported = p.result.imported
      /\ result.skipped = p.result.skipped + Cardinality(conflicts)
      /\ result.duplicate = p.result.duplicate + Cardinality(same)
  BY <1>4, <1>6, ChunkCounters
<1> HIDE DEF result
<1>8. pc \in Phases /\ pc \in {"saving", "bulk"} /\ (pc = "bulk" <=> new # {})
  BY DEF Phases, WithBatch, InTransaction, Trying
<1> HIDE DEF pc
<1>9. q \in Process
  BY <1>1, <1>3, <1>5, <1>7, <1>8 DEF Process
<1>10. /\ q.pc = pc /\ q.rows = rest /\ q.chunk = chunk /\ q.candidates = new /\ q.left = new
       /\ q.result = result /\ q.own = p.own /\ q.batch = p.batch /\ q.seen = p.seen /\ q.at = p.at
  BY <1>1 DEF Process
<1> HIDE DEF q
<1>11. /\ p.own = {} /\ p.left = {} /\ KeysOf(p.own) = {} /\ Cardinality(KeysOf(p.own)) = 0
       /\ Cardinality(p.left) = 0
  <2>1. p.own = {} /\ p.left = {}
    BY <1>1 DEF Good, Transaction, InTransaction, Trying
  <2> QED BY <2>1, Nothing
<1>12. /\ \A m, n \in DOMAIN p.rows : p.rows[m].key = p.rows[n].key => m = n
       /\ \A n \in DOMAIN p.rows : p.rows[n] \in Row /\ p.seen[p.rows[n].key] # None
       /\ Len(p.rows) \in Nat /\ DOMAIN p.rows = 1 .. Len(p.rows)
  BY <1>1 DEF Good, RowsAreSeen
<1>13. BatchIsOpen(i, q)
  BY <1>1, <1>8, <1>10 DEF Good, BatchIsOpen, WithBatch, InTransaction, Trying
<1>14. Transaction(q)
  <2>1. \A m, n \in DOMAIN chunk : chunk[m].key = chunk[n].key => m = n
    <3>1. \A n \in DOMAIN chunk : n \in DOMAIN p.rows
      BY <1>3, <1>12
    <3> QED BY <3>1, <1>3, <1>12
  <2> QED BY <2>1, <1>5, <1>8, <1>10, <1>11 DEF Transaction, InTransaction, Trying
<1>15. RowsAreSeen(q)
  <2>1. ASSUME NEW m \in DOMAIN rest, NEW n \in DOMAIN rest, rest[m].key = rest[n].key
        PROVE  m = n
    <3>0. /\ Len(chunk) + m \in DOMAIN p.rows /\ rest[m] = p.rows[Len(chunk) + m]
          /\ Len(chunk) + n \in DOMAIN p.rows /\ rest[n] = p.rows[Len(chunk) + n]
      BY <1>3
    <3>1. Len(chunk) + m = Len(chunk) + n
      BY <2>1, <3>0, <1>12
    <3>2. m \in Nat /\ n \in Nat /\ Len(chunk) \in Nat
      BY <1>3
    <3> QED BY <3>1, <3>2
  <2>2. ASSUME NEW n \in DOMAIN rest PROVE p.seen[rest[n].key] # None
    <3>1. Len(chunk) + n \in DOMAIN p.rows /\ rest[n] = p.rows[Len(chunk) + n]
      BY <1>3
    <3> QED BY <3>1, <1>12
  <2> QED BY <2>1, <2>2, <1>10 DEF RowsAreSeen
<1>16. ReadSoFar(i, q)
  BY <1>1, <1>8, <1>10 DEF Good, ReadSoFar
<1>17. NothingIsDropped(i, q)
  <2> SUFFICES ASSUME AllRows(i), NEW k \in Keys, p.seen[k] # None
               PROVE  \/ stored[k] # None \/ k \in KeysOf(p.own)
                      \/ \E n \in new : chunk[n].key = k
                      \/ \E n \in DOMAIN rest : rest[n].key = k
    BY <1>10 DEF NothingIsDropped
  <2>1. stored[k] # None \/ \E n \in DOMAIN p.rows : p.rows[n].key = k
    BY <1>1, <1>11 DEF Good, NothingIsDropped
  <2>2. CASE \E n \in DOMAIN p.rows : p.rows[n].key = k
    <3>1. PICK n \in DOMAIN p.rows : p.rows[n].key = k
      BY <2>2
    <3>2. CASE n \in DOMAIN chunk
      <4>1. chunk[n].key = k
        BY <3>1, <3>2, <1>3
      <4> QED BY <4>1, <3>2, <1>5
    <3>3. CASE n - Len(chunk) \in DOMAIN rest /\ rest[n - Len(chunk)] = p.rows[n]
      BY <3>1, <3>3
    <3> QED BY <3>2, <3>3, <1>3
  <2> QED BY <2>1, <2>2
<1>18. RepliesAreCounted(q)
  <2>1. p.result.imported = Cardinality(StoredBy(p.batch)) + 0
    BY <1>1, <1>11 DEF Good, RepliesAreCounted
  <2>2. 0 + Cardinality(new) = Cardinality(new)
    BY <1>4
  <2>3. result.imported = Cardinality(StoredBy(p.batch))
    <3>1. IsFiniteSet(StoredBy(p.batch)) /\ Cardinality(StoredBy(p.batch)) \in Nat
      BY <1>1, FS_CardinalityType DEF IInv, StoredInBatches, Process
    <3> QED BY <3>1, <2>1, <1>7
  <2> QED BY <2>1, <2>2, <2>3, <1>7, <1>8, <1>10, <1>11 DEF RepliesAreCounted
<1>19. RowsAreCounted(i, q)
  <2> SUFFICES ASSUME AllRows(i)
               PROVE  /\ result.read = p.at
                      /\ result.read = result.imported + result.skipped + result.duplicate + Len(rest)
                                       + Cardinality(new)
    BY <1>10 DEF RowsAreCounted
  <2>1. /\ p.result.read = p.at
        /\ p.result.read = p.result.imported + p.result.skipped + p.result.duplicate + Len(p.rows)
                           + Cardinality(p.left)
    BY <1>1 DEF Good, RowsAreCounted
  <2> DEFINE read == p.result.read
             imported == p.result.imported
             skipped == p.result.skipped
             duplicate == p.result.duplicate
             all == Len(p.rows)
             more == Len(rest)
             c == Cardinality(conflicts)
             d == Cardinality(same)
             e == Cardinality(new)
             size == Len(chunk)
  <2>2. /\ read \in Nat /\ imported \in Nat /\ skipped \in Nat /\ duplicate \in Nat /\ all \in Nat
        /\ more \in Nat /\ c \in Nat /\ d \in Nat /\ e \in Nat /\ size \in Nat
        /\ more = all - size /\ e + d + c = size
    BY <1>3, <1>4, <1>6, <1>12 DEF Count
  <2>3. read = imported + skipped + duplicate + all + Cardinality(p.left)
    BY <2>1
  <2> HIDE DEF read, imported, skipped, duplicate, all, more, c, d, e, size
  <2>4. read = imported + (skipped + c) + (duplicate + d) + more + e
    BY <2>2, <2>3, <1>11, PartsOfAChunk
  <2> QED BY <2>1, <2>4, <1>7 DEF read, imported, skipped, duplicate, more, c, d, e
<1>20. Good(i, q)
  BY <1>13, <1>14, <1>15, <1>16, <1>17, <1>18, <1>19 DEF Good
<1>21. KeysOf(q.own) = KeysOf(importer[i].own)
  BY <1>10 DEF p
<1> QED BY <1>2, <1>9, <1>20, <1>21, ProcessStep DEF IInv, Typed, BeginChunk

\* The keys that a transaction has inserted.
LEMMA OwnKeys ==
    ASSUME NEW p \in Process, Transaction(p)
    PROVE  /\ p.candidates \subseteq Nat /\ IsFiniteSet(p.candidates) /\ Cardinality(p.candidates) \in Nat
           /\ p.left \subseteq Nat /\ IsFiniteSet(p.left) /\ Cardinality(p.left) \in Nat
           /\ IsFiniteSet(KeysOf(p.own)) /\ Cardinality(KeysOf(p.own)) \in Nat
           /\ KeysOf(p.own) \subseteq Keys
<1>1. /\ p.chunk \in Seq(Row) /\ p.left \subseteq p.candidates /\ p.candidates \subseteq DOMAIN p.chunk
      /\ p.own \subseteq OwnRow
  BY DEF Process, Transaction
<1>2. /\ p.candidates \subseteq Nat /\ IsFiniteSet(p.candidates) /\ Cardinality(p.candidates) \in Nat
      /\ p.left \subseteq Nat /\ IsFiniteSet(p.left) /\ Cardinality(p.left) \in Nat
  <2>1. p.left \subseteq DOMAIN p.chunk
    BY <1>1
  <2> QED BY <1>1, <2>1, PositionsAreFinite
<1>3. KeysOf(p.own) \subseteq Keys
  BY <1>1 DEF KeysOf, OwnRow
<1>4. KeysOf(p.own) \subseteq {p.chunk[n].key : n \in p.candidates}
  <2> SUFFICES ASSUME NEW row \in p.own PROVE row.key \in {p.chunk[n].key : n \in p.candidates}
    BY DEF KeysOf
  <2>1. PICK n \in p.candidates : p.chunk[n].key = row.key
    BY DEF Transaction
  <2> QED BY <2>1
<1>5. IsFiniteSet({p.chunk[n].key : n \in p.candidates})
  <2> DEFINE f == [n \in p.candidates |-> p.chunk[n].key]
             T == {p.chunk[n].key : n \in p.candidates}
  <2>1. f \in Surjection(p.candidates, T)
    BY DEF Surjection
  <2> HIDE DEF f, T
  <2>2. IsFiniteSet(T)
    BY <1>2, <2>1, FS_Surjection
  <2> QED BY <2>2 DEF T
<1>6. IsFiniteSet(KeysOf(p.own)) /\ Cardinality(KeysOf(p.own)) \in Nat
  <2>1. IsFiniteSet(KeysOf(p.own))
    BY <1>4, <1>5, FS_Subset
  <2> QED BY <2>1, FS_CardinalityType
<1> QED BY <1>2, <1>3, <1>6

\* The next candidate is a row of the chunk that this transaction has not inserted.
LEMMA CandidateIs ==
    ASSUME IInv, NEW i \in Importers, importer[i].pc \in Trying
    PROVE  LET p == importer[i]
               n == Least(p.left)
           IN  /\ n \in p.left /\ n \in p.candidates /\ n \in DOMAIN p.chunk
               /\ Candidate(i) = p.chunk[n] /\ Candidate(i) \in Row
               /\ Candidate(i).key \in Keys /\ Candidate(i).content \in Contents
               /\ Candidate(i).key \notin KeysOf(p.own)
               /\ Cardinality(p.left \ {n}) = Cardinality(p.left) - 1
               /\ Tried(p) = [p EXCEPT !.left = p.left \ {n}]
<1> DEFINE p == importer[i]
           n == Least(p.left)
<1>1. p \in Process /\ Transaction(p) /\ p.left # {}
  BY DEF IInv, Typed, Good, Transaction
<1>2. p.left \subseteq Nat /\ IsFiniteSet(p.left)
  BY <1>1, OwnKeys
<1>3. n \in p.left
  BY <1>1, <1>2, LeastIs
<1>4. n \in p.candidates /\ n \in DOMAIN p.chunk /\ p.chunk \in Seq(Row)
  BY <1>1, <1>3 DEF Transaction, Process
<1>5. Candidate(i) = p.chunk[n] /\ Candidate(i) \in Row
  BY <1>4 DEF Candidate
<1>6. Candidate(i).key \notin KeysOf(p.own)
  <2> SUFFICES ASSUME NEW row \in p.own, row.key = p.chunk[n].key PROVE FALSE
    BY <1>5 DEF KeysOf
  <2>1. PICK m \in p.candidates \ p.left : p.chunk[m].key = row.key
    BY <1>1 DEF Transaction
  <2>2. m \in DOMAIN p.chunk /\ m # n
    BY <1>1, <1>3, <2>1 DEF Transaction
  <2> QED BY <2>1, <2>2, <1>1, <1>4 DEF Transaction
<1>7. Cardinality(p.left \ {n}) = Cardinality(p.left) - 1
  <2> DEFINE left == p.left
  <2>1. IsFiniteSet(left) /\ n \in left
    BY <1>2, <1>3
  <2> HIDE DEF left, n
  <2>2. Cardinality(left \ {n}) = Cardinality(left) - 1
    BY <2>1, FS_RemoveElement
  <2> QED BY <2>2 DEF left
<1>8. Tried(p) = [p EXCEPT !.left = p.left \ {n}]
  BY <1>1 DEF Tried
<1>9. Candidate(i).key \in Keys /\ Candidate(i).content \in Contents
  BY <1>5 DEF Row
<1> QED BY <1>3, <1>4, <1>5, <1>6, <1>7, <1>8, <1>9

\* A candidate is tried: it was stored meanwhile, or this transaction inserts it.
LEMMA TryingKeeps ==
    ASSUME IInv, NEW i \in Importers, importer[i].pc \in Trying, NEW q \in Process,
           q.chunk = importer[i].chunk, q.candidates = importer[i].candidates,
           q.batch = importer[i].batch, q.seen = importer[i].seen, q.rows = importer[i].rows,
           q.at = importer[i].at, q.left = importer[i].left \ {Least(importer[i].left)},
           q.pc \in InTransaction, q.pc \in Trying <=> q.left # {}, NEW versioned,
           \/ stored[Candidate(i).key] # None /\ q.own = importer[i].own
           \/ /\ stored[Candidate(i).key] = None
              /\ q.own = importer[i].own \union {Reply(i, Candidate(i), versioned)}
    PROVE  /\ BatchIsOpen(i, q) /\ Transaction(q) /\ RowsAreSeen(q) /\ ReadSoFar(i, q)
           /\ NothingIsDropped(i, q)
           /\ stored[Candidate(i).key] = None =>
                 /\ KeysOf(q.own) = KeysOf(importer[i].own) \union {Candidate(i).key}
                 /\ Cardinality(KeysOf(q.own)) = Cardinality(KeysOf(importer[i].own)) + 1
<1> DEFINE p == importer[i]
           n == Least(p.left)
           reply == Reply(i, Candidate(i), versioned)
<1>1. p \in Process /\ Good(i, p)
  BY DEF IInv, Typed
<1>2. /\ n \in p.left /\ n \in p.candidates /\ n \in DOMAIN p.chunk
      /\ Candidate(i) = p.chunk[n] /\ Candidate(i).key \in Keys /\ Candidate(i).key \notin KeysOf(p.own)
  BY CandidateIs
<1>3. reply.key = Candidate(i).key /\ reply.batch = p.batch
  BY DEF Reply
<1> DEFINE key == Candidate(i).key
<1> HIDE DEF p, n, reply
<1>4. /\ q.chunk = p.chunk /\ q.candidates = p.candidates /\ q.batch = p.batch /\ q.seen = p.seen
      /\ q.rows = p.rows /\ q.at = p.at /\ q.left = p.left \ {n} /\ p.pc \in Trying
  BY DEF p, n
<1>5. \/ stored[key] # None /\ q.own = p.own
      \/ stored[key] = None /\ q.own = p.own \union {reply}
  BY DEF p, reply
<1> HIDE DEF key
<1>6. key = p.chunk[n].key /\ reply.key = key /\ reply.batch = p.batch /\ key \notin KeysOf(p.own)
  BY <1>2, <1>3 DEF key
<1>7. BatchIsOpen(i, q) /\ RowsAreSeen(q) /\ ReadSoFar(i, q)
  BY <1>1, <1>4 DEF Good, BatchIsOpen, RowsAreSeen, ReadSoFar, WithBatch, InTransaction, Trying
<1>8. /\ q.left \subseteq q.candidates /\ q.candidates \subseteq DOMAIN q.chunk
      /\ \A m, o \in DOMAIN q.chunk : q.chunk[m].key = q.chunk[o].key => m = o
  BY <1>1, <1>4 DEF Good, Transaction
<1>9. \A row \in q.own : row.batch = q.batch /\ stored[row.key] = None
  <2>1. \A row \in p.own : row.batch = p.batch /\ stored[row.key] = None
    BY <1>1 DEF Good, Transaction
  <2> QED BY <2>1, <1>4, <1>5, <1>6
<1>10. ASSUME NEW row \in q.own PROVE \E m \in q.candidates \ q.left : q.chunk[m].key = row.key
  <2>1. CASE row \in p.own
    <3>1. PICK m \in p.candidates \ p.left : p.chunk[m].key = row.key
      BY <2>1, <1>1 DEF Good, Transaction
    <3> QED BY <3>1, <1>4
  <2>2. CASE row = reply
    BY <2>2, <1>2, <1>4, <1>6
  <2> QED BY <2>1, <2>2, <1>5
<1>11. ASSUME NEW row \in q.own, NEW other \in q.own, row.key = other.key PROVE row = other
  <2>1. \A r, o \in p.own : r.key = o.key => r = o
    BY <1>1 DEF Good, Transaction
  <2>2. \A r \in p.own : r.key # key
    BY <1>6 DEF KeysOf
  <2> QED BY <2>1, <2>2, <1>5, <1>6, <1>11
<1>12. Transaction(q)
  BY <1>8, <1>9, <1>10, <1>11 DEF Transaction, InTransaction, Trying
<1>13. NothingIsDropped(i, q)
  <2> SUFFICES ASSUME AllRows(i), NEW k \in Keys, p.seen[k] # None
               PROVE  \/ stored[k] # None \/ k \in KeysOf(q.own)
                      \/ \E m \in q.left : q.chunk[m].key = k
                      \/ \E m \in DOMAIN q.rows : q.rows[m].key = k
    BY <1>4 DEF NothingIsDropped
  <2>1. p.pc # "failing"
    BY <1>4 DEF Trying
  <2>2. \/ stored[k] # None \/ k \in KeysOf(p.own)
        \/ \E m \in p.left : p.chunk[m].key = k
        \/ \E m \in DOMAIN p.rows : p.rows[m].key = k
    BY <1>1, <2>1 DEF Good, NothingIsDropped
  <2>3. KeysOf(p.own) \subseteq KeysOf(q.own)
    BY <1>5 DEF KeysOf
  <2>4. stored[key] # None \/ key \in KeysOf(q.own)
    BY <1>5, <1>6 DEF KeysOf
  <2> QED BY <2>2, <2>3, <2>4, <1>4, <1>6
<1>14. ASSUME stored[key] = None
       PROVE  /\ KeysOf(q.own) = KeysOf(p.own) \union {key}
              /\ Cardinality(KeysOf(q.own)) = Cardinality(KeysOf(p.own)) + 1
  <2>1. KeysOf(q.own) = KeysOf(p.own) \union {key}
    BY <1>5, <1>6, <1>14 DEF KeysOf
  <2>2. IsFiniteSet(KeysOf(p.own))
    BY <1>1, OwnKeys DEF Good
  <2> QED BY <2>1, <2>2, <1>6, FS_AddElement
<1> QED BY <1>7, <1>12, <1>13, <1>14 DEF p, key

\* A candidate has been tried one by one, with this outcome.
TriedWith(i, own, result) == Continue([importer[i] EXCEPT !.own = own, !.result = result])

IsTriedWith(q, p, own, result) ==
    /\ q \in Process /\ q.pc \in {"check", "saving"} /\ (q.pc = "check" <=> q.left # {})
    /\ q.own = own /\ q.result = result /\ q.left = p.left \ {Least(p.left)}
    /\ q.chunk = p.chunk /\ q.candidates = p.candidates /\ q.batch = p.batch
    /\ q.seen = p.seen /\ q.rows = p.rows /\ q.at = p.at

LEMMA ContinueIs ==
    ASSUME IInv, NEW i \in Importers, importer[i].pc \in {"check", "insert"},
           NEW own \in SUBSET OwnRow, NEW result \in Count
    PROVE  IsTriedWith(TriedWith(i, own, result), importer[i], own, result)
<1> DEFINE p == importer[i]
           q == TriedWith(i, own, result)
<1> DEFINE t == [p EXCEPT !.own = own, !.result = result]
           left == p.left \ {Least(p.left)}
           pc == IF left # {} THEN "check" ELSE "saving"
<1>0. q = Continue(t)
  BY DEF TriedWith
<1>1. p \in Process
  BY DEF IInv, Typed
<1> HIDE DEF p, q
<1>2. t \in Process /\ t.left = p.left
  BY <1>1 DEF Process
<1>3. Tried(t) = [t EXCEPT !.left = left]
  BY <1>2 DEF Tried, Process
<1>4. q = [[t EXCEPT !.left = left] EXCEPT !.pc = pc]
  <2>1. [t EXCEPT !.left = left].left = left
    BY <1>2 DEF Process
  <2> QED BY <1>0, <1>3, <2>1 DEF Continue
<1>5. left \subseteq Nat /\ pc \in {"check", "saving"} /\ pc \in Phases /\ (pc = "check" <=> left # {})
  BY <1>1 DEF Process, Phases, WithBatch, InTransaction, Trying
<1>6. t = [p EXCEPT !.own = own, !.result = result]
  OBVIOUS
<1> HIDE DEF t, left, pc
<1>7. q \in Process
  <2>1. [t EXCEPT !.left = left] \in Process
    BY <1>2, <1>5 DEF Process
  <2> DEFINE u == [t EXCEPT !.left = left]
  <2>2. u \in Process /\ q = [u EXCEPT !.pc = pc]
    BY <1>4, <2>1
  <2> HIDE DEF u
  <2> QED BY <2>2, <1>5 DEF Process
<1>8. /\ q.pc = pc /\ q.left = left /\ q.own = own /\ q.result = result
      /\ q.chunk = p.chunk /\ q.candidates = p.candidates /\ q.batch = p.batch
      /\ q.seen = p.seen /\ q.rows = p.rows /\ q.at = p.at
  <2>1. q = [p EXCEPT !.own = own, !.result = result, !.left = left, !.pc = pc]
    BY <1>1, <1>4, <1>6 DEF Process
  <2> QED BY <2>1, <1>1 DEF Process
<1>9. IsTriedWith(q, p, own, result)
  BY <1>5, <1>7, <1>8 DEF left, IsTriedWith
<1> QED BY <1>9 DEF p, q

LEMMA RowTried ==
    ASSUME NEW read \in Nat, NEW imported \in Nat, NEW skipped \in Nat, NEW duplicate \in Nat,
           NEW rows \in Nat, NEW left \in Nat, read = imported + skipped + duplicate + rows + left,
           NEW m \in Nat, NEW s \in Nat, NEW d \in Nat, m + s + d = imported + skipped + duplicate + 1
    PROVE  read = m + s + d + rows + (left - 1)
  OBVIOUS

\* One by one, each candidate counts once: it was stored meanwhile, or it is inserted.
CountsOnce(i, own, result) ==
    LET known == importer[i].result
        key == Candidate(i).key
    IN  /\ result.read = known.read
        /\ result.imported + result.skipped + result.duplicate
              = known.imported + known.skipped + known.duplicate + 1
        /\ \/ stored[key] # None /\ own = importer[i].own /\ result.imported = known.imported
           \/ /\ stored[key] = None /\ ~Held(key, i) /\ result.imported = known.imported + 1
              /\ own = importer[i].own \union {Reply(i, Candidate(i), FALSE)}

LEMMA RowIsTried ==
    ASSUME IInv, NEW i \in Importers, importer[i].pc \in {"check", "insert"},
           NEW own \in SUBSET OwnRow, NEW result \in Count, CountsOnce(i, own, result),
           importer' = [importer EXCEPT ![i] = TriedWith(i, own, result)],
           UNCHANGED <<case, survey, stored, batches, waiting, events>>
    PROVE  IInv'
<1> DEFINE p == importer[i]
           q == TriedWith(i, own, result)
           key == Candidate(i).key
<1>1. p \in Process /\ Good(i, p) /\ p.pc \in {"check", "insert"} /\ p.pc \in Trying
  BY DEF IInv, Typed, Trying
<1>2. IsTriedWith(q, p, own, result)
  BY ContinueIs
<1>3. importer' = [importer EXCEPT ![i] = q]
  OBVIOUS
<1> HIDE DEF q
<1> USE DEF IsTriedWith
<1>0. /\ \/ stored[key] # None /\ own = p.own /\ result.imported = p.result.imported
         \/ /\ stored[key] = None /\ ~Held(key, i) /\ result.imported = p.result.imported + 1
            /\ own = p.own \union {Reply(i, Candidate(i), FALSE)}
      /\ result.read = p.result.read
      /\ result.imported + result.skipped + result.duplicate
            = p.result.imported + p.result.skipped + p.result.duplicate + 1
  BY DEF CountsOnce
<1>4. q.pc \in InTransaction /\ (q.pc \in Trying <=> q.left # {})
  BY <1>2 DEF InTransaction, Trying
<1>5. /\ BatchIsOpen(i, q) /\ Transaction(q) /\ RowsAreSeen(q) /\ ReadSoFar(i, q)
      /\ NothingIsDropped(i, q)
      /\ stored[key] = None =>
            /\ KeysOf(q.own) = KeysOf(p.own) \union {key}
            /\ Cardinality(KeysOf(q.own)) = Cardinality(KeysOf(p.own)) + 1
  BY <1>0, <1>1, <1>2, <1>4, TryingKeeps
<1>6. Cardinality(q.left) = Cardinality(p.left) - 1 /\ key \in Keys
  BY <1>1, <1>2, CandidateIs
<1>7. Cardinality(p.left) \in Nat /\ Cardinality(KeysOf(p.own)) \in Nat
  BY <1>1, OwnKeys DEF Good
<1>8. p.result \in Count /\ p.rows \in Seq(Row)
  BY <1>1 DEF Process
<1>9. RepliesAreCounted(q)
  <2> DEFINE c == Cardinality(StoredBy(p.batch))
             o == Cardinality(KeysOf(p.own))
             imported == p.result.imported
  <2>1. imported = c + o
    BY <1>1 DEF Good, RepliesAreCounted
  <2>2. c \in Nat
    <3>1. IsFiniteSet(StoredBy(p.batch))
      BY <1>1 DEF IInv, StoredInBatches, Process
    <3> QED BY <3>1, FS_CardinalityType
  <2>3. o \in Nat
    BY <1>7
  <2>4. result.imported = c + Cardinality(KeysOf(q.own))
    <3>1. CASE stored[key] # None /\ q.own = p.own /\ result.imported = imported
      BY <3>1, <2>1
    <3>2. CASE stored[key] = None /\ result.imported = imported + 1
      <4>1. Cardinality(KeysOf(q.own)) = o + 1
        BY <3>2, <1>5
      <4> HIDE DEF c, o, imported
      <4>2. imported + 1 = c + (o + 1)
        BY <2>1, <2>2, <2>3
      <4> QED BY <4>1, <4>2, <3>2
    <3> QED BY <3>1, <3>2, <1>0, <1>2
  <2> QED BY <2>4, <1>2 DEF RepliesAreCounted
<1>10. RowsAreCounted(i, q)
  <2> SUFFICES ASSUME AllRows(i)
               PROVE  /\ result.read = p.at
                      /\ result.read = result.imported + result.skipped + result.duplicate + Len(p.rows)
                                       + Cardinality(q.left)
    BY <1>2 DEF RowsAreCounted
  <2>1. /\ p.result.read = p.at
        /\ p.result.read = p.result.imported + p.result.skipped + p.result.duplicate + Len(p.rows)
                           + Cardinality(p.left)
    BY <1>1 DEF Good, RowsAreCounted
  <2> DEFINE read == p.result.read
             imported == p.result.imported
             skipped == p.result.skipped
             duplicate == p.result.duplicate
             rows == Len(p.rows)
             left == Cardinality(p.left)
             m == result.imported
             s == result.skipped
             d == result.duplicate
  <2>2. /\ read \in Nat /\ imported \in Nat /\ skipped \in Nat /\ duplicate \in Nat /\ rows \in Nat
        /\ left \in Nat /\ m \in Nat /\ s \in Nat /\ d \in Nat
    <3>1. read \in Nat /\ imported \in Nat /\ skipped \in Nat /\ duplicate \in Nat
      BY <1>8 DEF Count
    <3>2. rows \in Nat /\ left \in Nat
      BY <1>7, <1>8
    <3>3. m \in Nat /\ s \in Nat /\ d \in Nat
      BY DEF Count
    <3> QED BY <3>1, <3>2, <3>3
  <2>3. read = imported + skipped + duplicate + rows + left
    BY <2>1
  <2>4. m + s + d = imported + skipped + duplicate + 1
    BY <1>0
  <2> HIDE DEF read, imported, skipped, duplicate, rows, left, m, s, d
  <2>5. read = m + s + d + rows + (left - 1)
    BY <2>2, <2>3, <2>4, RowTried
  <2>6. result.read = read
    BY <1>0 DEF read
  <2> QED BY <2>1, <2>5, <2>6, <1>6 DEF read, rows, left, m, s, d
<1>11. Good(i, q)
  BY <1>5, <1>9, <1>10 DEF Good
<1>12. KeysOf(q.own) \subseteq KeysOf(importer[i].own) \union {k \in Keys : ~Held(k, i)}
  BY <1>0, <1>2, <1>5, <1>6
<1> QED BY <1>2, <1>3, <1>11, <1>12, ProcessStep DEF IInv, Typed

LEMMA SameIs ==
    ASSUME NEW r \in Count, NEW known, NEW row
    PROVE  /\ Same(r, known, row) \in Count
           /\ Same(r, known, row).read = r.read /\ Same(r, known, row).imported = r.imported
           /\ Same(r, known, row).imported + Same(r, known, row).skipped + Same(r, known, row).duplicate
                = r.imported + r.skipped + r.duplicate + 1
<1>0. /\ Duplicate(r) = [r EXCEPT !.duplicate = r.duplicate + 1] /\ Duplicate(r) \in Count
      /\ Conflict(r) = [r EXCEPT !.skipped = r.skipped + 1, !.conflict = r.conflict + 1]
      /\ Conflict(r) \in Count
  BY Counters
<1>1. CASE Same(r, known, row) = Duplicate(r)
  BY <1>0, <1>1 DEF Count
<1>2. CASE Same(r, known, row) = Conflict(r)
  BY <1>0, <1>2 DEF Count
<1> QED BY <1>1, <1>2 DEF Same

LEMMA CheckRowPreserves ==
    ASSUME IInv, NEW i \in Importers, CheckRow(i)
    PROVE  IInv'
<1> DEFINE p == importer[i]
           known == stored[Candidate(i).key]
<1>1. p \in Process /\ Good(i, p) /\ p.pc = "check"
  BY DEF IInv, Typed, CheckRow
<1>2. CASE known = None
  <2> DEFINE q == [p EXCEPT !.pc = "insert"]
  <2>1. importer' = [importer EXCEPT ![i] = q]
    BY <1>2 DEF CheckRow
  <2> HIDE DEF p
  <2>2. q \in Process
    <3>1. "insert" \in Phases
      BY DEF Phases, WithBatch, InTransaction, Trying
    <3> QED BY <3>1, <1>1 DEF Process
  <2>3. /\ q.pc = "insert" /\ q.own = p.own /\ q.left = p.left /\ q.candidates = p.candidates
        /\ q.chunk = p.chunk /\ q.batch = p.batch /\ q.seen = p.seen /\ q.at = p.at
        /\ q.rows = p.rows /\ q.result = p.result
    BY <1>1 DEF Process
  <2> HIDE DEF q
  <2>4. Good(i, q)
    BY <1>1, <2>3 DEF Good, BatchIsOpen, Transaction, RowsAreSeen, ReadSoFar, NothingIsDropped,
                      RepliesAreCounted, RowsAreCounted, WithBatch, InTransaction, Trying
  <2>5. KeysOf(q.own) = KeysOf(importer[i].own)
    BY <2>3 DEF p
  <2> QED BY <2>1, <2>2, <2>4, <2>5, ProcessStep DEF IInv, Typed, CheckRow
<1>3. CASE known # None
  <2> DEFINE result == Same(p.result, known.content, Candidate(i))
  <2>1. p.result \in Count /\ p.own \in SUBSET OwnRow
    BY <1>1 DEF Process
  <2>2. /\ result \in Count /\ result.read = p.result.read /\ result.imported = p.result.imported
        /\ result.imported + result.skipped + result.duplicate
             = p.result.imported + p.result.skipped + p.result.duplicate + 1
    BY <2>1, SameIs
  <2>3. importer' = [importer EXCEPT ![i] = Continue([p EXCEPT !.result = result])]
    BY <1>3 DEF CheckRow
  <2> HIDE DEF result
  <2>4. [p EXCEPT !.result = result] = [p EXCEPT !.own = p.own, !.result = result]
    BY <1>1 DEF Process
  <2>5. importer' = [importer EXCEPT ![i] = TriedWith(i, p.own, result)]
    BY <2>3, <2>4 DEF TriedWith
  <2>6. CountsOnce(i, p.own, result)
    BY <2>2, <1>3 DEF CountsOnce
  <2> QED BY <2>1, <2>2, <2>5, <2>6, <1>1, RowIsTried DEF CheckRow
<1> QED BY <1>2, <1>3

LEMMA InsertRowPreserves ==
    ASSUME IInv, NEW i \in Importers, InsertRow(i)
    PROVE  IInv'
<1> DEFINE p == importer[i]
           reply == Reply(i, Candidate(i), FALSE)
           own == p.own \union {reply}
           result == Add(p.result, "imported", 1)
<1>1. p \in Process /\ p.pc = "insert" /\ p.result \in Count
  BY DEF IInv, Typed, InsertRow, Process
<1>2. own \in SUBSET OwnRow
  <2>1. Candidate(i).key \in Keys /\ Candidate(i).content \in Contents
    BY <1>1, CandidateIs DEF Trying
  <2>2. reply \in OwnRow /\ p.own \subseteq OwnRow
    BY <2>1, <1>1 DEF Reply, OwnRow, Process
  <2> QED BY <2>2
<1>3. /\ result \in Count /\ result.read = p.result.read /\ result.imported = p.result.imported + 1
      /\ result.imported + result.skipped + result.duplicate
           = p.result.imported + p.result.skipped + p.result.duplicate + 1
  <2>1. result = [p.result EXCEPT !.imported = p.result.imported + 1] /\ result \in Count
    BY <1>1, Counters
  <2> HIDE DEF result
  <2> QED BY <2>1, <1>1 DEF Count
<1>4. importer' = [importer EXCEPT ![i] = TriedWith(i, own, result)]
  BY <1>1 DEF InsertRow, Process, TriedWith
<1> HIDE DEF result, own
<1>5. CountsOnce(i, own, result)
  BY <1>3 DEF CountsOnce, own, InsertRow
<1> QED BY <1>1, <1>2, <1>3, <1>4, <1>5, RowIsTried DEF InsertRow

LEMMA InsertFailsPreserves ==
    ASSUME IInv, NEW i \in Importers, InsertFails(i)
    PROVE  IInv'
<1> DEFINE p == importer[i]
           result == Duplicate(p.result)
<1>1. p \in Process /\ p.pc = "insert" /\ p.result \in Count /\ p.own \in SUBSET OwnRow
  BY DEF IInv, Typed, InsertFails, Process
<1>2. /\ result \in Count /\ result.read = p.result.read /\ result.imported = p.result.imported
      /\ result.imported + result.skipped + result.duplicate
           = p.result.imported + p.result.skipped + p.result.duplicate + 1
  <2>1. result = [p.result EXCEPT !.duplicate = p.result.duplicate + 1] /\ result \in Count
    BY <1>1, Counters
  <2> HIDE DEF result
  <2> QED BY <2>1, <1>1 DEF Count
<1>3. importer' = [importer EXCEPT ![i] = Continue([p EXCEPT !.result = result])]
  BY <1>1 DEF InsertFails, Process
<1> HIDE DEF result
<1>4. [p EXCEPT !.result = result] = [p EXCEPT !.own = p.own, !.result = result]
  BY <1>1 DEF Process
<1>5. importer' = [importer EXCEPT ![i] = TriedWith(i, p.own, result)]
  BY <1>3, <1>4 DEF TriedWith
<1>6. CountsOnce(i, p.own, result)
  BY <1>2 DEF CountsOnce, InsertFails
<1> QED BY <1>1, <1>2, <1>5, <1>6, RowIsTried DEF InsertFails

LEMMA StatementEnds ==
    ASSUME NEW read \in Nat, NEW imported \in Nat, NEW skipped \in Nat, NEW duplicate \in Nat,
           NEW rows \in Nat, NEW candidates \in Nat,
           read = imported + skipped + duplicate + rows + candidates
    PROVE  read = (imported + candidates) + skipped + duplicate + rows + 0
  OBVIOUS

LEMMA BatchIsCounted ==
    ASSUME IInv, NEW b \in Nat
    PROVE  IsFiniteSet(StoredBy(b)) /\ Cardinality(StoredBy(b)) \in Nat
<1>1. IsFiniteSet(StoredBy(b))
  BY DEF IInv, StoredInBatches
<1> QED BY <1>1, FS_CardinalityType

LEMMA BulkInsertPreserves ==
    ASSUME IInv, NEW i \in Importers, BulkInsert(i)
    PROVE  IInv'
<1> DEFINE p == importer[i]
           left == p.left \ {Least(p.left)}
           reply == Reply(i, Candidate(i), survey.published)
           own == p.own \union {reply}
           all == Cardinality(p.candidates)
           result == IF left # {} THEN p.result ELSE Add(p.result, "imported", all)
           pc == IF left # {} THEN "bulk" ELSE "saving"
           q == [p EXCEPT !.left = left, !.own = own, !.result = result, !.pc = pc]
           key == Candidate(i).key
<1>1. p \in Process /\ Good(i, p) /\ p.pc = "bulk" /\ p.pc \in Trying /\ p.result \in Count
  BY DEF IInv, Typed, BulkInsert, Process, Trying
<1>2. /\ key \in Keys /\ Candidate(i).content \in Contents /\ Tried(p) = [p EXCEPT !.left = left]
      /\ Cardinality(left) = Cardinality(p.left) - 1
  BY <1>1, CandidateIs
<1>3. /\ p.candidates \subseteq Nat /\ all \in Nat /\ p.left \subseteq Nat /\ Cardinality(p.left) \in Nat
      /\ Cardinality(KeysOf(p.own)) \in Nat
  BY <1>1, OwnKeys DEF Good
<1>4. stored[key] = None /\ ~Held(key, i)
  BY DEF BulkInsert
<1>5. importer' = [importer EXCEPT ![i] = q]
  <2> DEFINE t == Tried(p)
             inserted == [t EXCEPT !.own = @ \union {reply}]
  <2>1. importer' = [importer EXCEPT ![i] =
               IF t.left # {} THEN inserted
               ELSE [inserted EXCEPT !.result = Add(@, "imported", Cardinality(t.candidates)),
                                     !.pc = "saving"]]
    BY DEF BulkInsert
  <2> HIDE DEF t
  <2>2. t = [p EXCEPT !.left = left]
    BY <1>2 DEF t
  <2> HIDE DEF p, left, reply
  <2>3. t.left = left /\ t.candidates = p.candidates /\ inserted = [p EXCEPT !.left = left, !.own = own]
    BY <1>1, <2>2 DEF Process
  <2>4. CASE left # {}
    <3>1. q = [p EXCEPT !.left = left, !.own = own]
      BY <1>1, <2>4 DEF Process
    <3> QED BY <2>1, <2>3, <2>4, <3>1
  <2>5. CASE left = {}
    <3>1. inserted.result = p.result
      BY <1>1, <2>3 DEF Process
    <3> HIDE DEF inserted, own
    <3>2. [inserted EXCEPT !.result = Add(@, "imported", Cardinality(t.candidates)), !.pc = "saving"]
            = [inserted EXCEPT !.result = result, !.pc = "saving"]
      BY <3>1, <2>3, <2>5
    <3> HIDE DEF result
    <3>3. [inserted EXCEPT !.result = result, !.pc = "saving"] = q
      BY <1>1, <2>3, <2>5 DEF Process
    <3> QED BY <2>1, <2>3, <2>5, <3>2, <3>3
  <2> QED BY <2>4, <2>5
<1>6. own \in SUBSET OwnRow
  <2>1. importer[i].batch \in Nat /\ survey.published \in BOOLEAN /\ p.own \subseteq OwnRow
    BY <1>1 DEF Process, IInv, Typed, Surveys
  <2>2. reply \in OwnRow
    BY <1>2, <2>1 DEF Reply, OwnRow
  <2> QED BY <2>1, <2>2
<1>7. /\ result \in Count /\ result.read = p.result.read /\ result.skipped = p.result.skipped
      /\ result.duplicate = p.result.duplicate
      /\ left # {} => result.imported = p.result.imported
      /\ left = {} => result.imported = p.result.imported + all
  <2>1. CASE left # {}
    BY <2>1, <1>1
  <2>2. CASE left = {}
    <3>1. result = [p.result EXCEPT !.imported = p.result.imported + all] /\ result \in Count
      BY <1>1, <1>3, <2>2, Counters
    <3> HIDE DEF result, left
    <3> QED BY <3>1, <2>2, <1>1 DEF Count
  <2> QED BY <2>1, <2>2
<1>8. /\ p = importer[i] /\ own = p.own \union {reply} /\ left = p.left \ {Least(p.left)}
      /\ left \subseteq Nat /\ (left # {} <=> pc = "bulk") /\ pc \in {"bulk", "saving"}
  BY <1>3
<1> HIDE DEF p, left, own, result, pc, reply
<1>9. q \in Process
  <2>1. pc \in Phases
    BY <1>8 DEF Phases, WithBatch, InTransaction, Trying
  <2> QED BY <1>1, <1>6, <1>7, <1>8, <2>1 DEF Process
<1>10. /\ q.pc = pc /\ q.left = left /\ q.own = own /\ q.result = result
       /\ q.chunk = p.chunk /\ q.candidates = p.candidates /\ q.batch = p.batch
       /\ q.seen = p.seen /\ q.rows = p.rows /\ q.at = p.at
  BY <1>1 DEF Process
<1> HIDE DEF q
<1>11. q.pc \in InTransaction /\ (q.pc \in Trying <=> q.left # {})
  BY <1>8, <1>10 DEF InTransaction, Trying
<1>12. q.left = importer[i].left \ {Least(importer[i].left)} /\ q.own = importer[i].own \union {reply}
  BY <1>8, <1>10
<1>13. /\ BatchIsOpen(i, q) /\ Transaction(q) /\ RowsAreSeen(q) /\ ReadSoFar(i, q)
       /\ NothingIsDropped(i, q)
       /\ KeysOf(q.own) = KeysOf(p.own) \union {key}
       /\ Cardinality(KeysOf(q.own)) = Cardinality(KeysOf(p.own)) + 1
  <2>1. /\ q.chunk = importer[i].chunk /\ q.candidates = importer[i].candidates
        /\ q.batch = importer[i].batch /\ q.seen = importer[i].seen /\ q.rows = importer[i].rows
        /\ q.at = importer[i].at /\ importer[i].pc \in Trying
    BY <1>1, <1>8, <1>10
  <2> HIDE DEF key
  <2>2. stored[Candidate(i).key] = None
    BY <1>4 DEF key
  <2>3. q.own = importer[i].own \union {Reply(i, Candidate(i), survey.published)}
    BY <1>12 DEF reply
  <2> QED BY <1>9, <1>11, <1>12, <2>1, <2>2, <2>3, TryingKeeps DEF p, key
<1>14. RepliesAreCounted(q)
  <2> DEFINE c == Cardinality(StoredBy(p.batch))
             o == Cardinality(KeysOf(p.own))
             l == Cardinality(p.left)
             imported == p.result.imported
  <2>1. imported = c /\ o + l = all
    BY <1>1 DEF Good, RepliesAreCounted
  <2>2. c \in Nat /\ o \in Nat /\ l \in Nat /\ all \in Nat
    BY <1>1, <1>3, BatchIsCounted DEF Process
  <2>3. Cardinality(KeysOf(own)) = o + 1 /\ Cardinality(left) = l - 1
    BY <1>2, <1>8, <1>10, <1>13
  <2>4. left # {} => result.imported = imported
    BY <1>7
  <2>5. left = {} => result.imported = imported + all
    BY <1>7
  <2> HIDE DEF c, o, l, imported, all
  <2>6. CASE left # {}
    <3>1. result.imported = c /\ Cardinality(KeysOf(own)) + Cardinality(left) = all
      BY <2>1, <2>2, <2>3, <2>4, <2>6
    <3> QED BY <3>1, <2>6, <1>8, <1>10 DEF RepliesAreCounted, c, all
  <2>7. CASE left = {}
    <3>1. l - 1 = 0
      BY <2>3, <2>7, Nothing
    <3>2. result.imported = c + Cardinality(KeysOf(own))
      BY <3>1, <2>1, <2>2, <2>3, <2>5, <2>7
    <3> QED BY <3>2, <2>7, <1>8, <1>10 DEF RepliesAreCounted, c
  <2> QED BY <2>6, <2>7
<1>15. RowsAreCounted(i, q)
  <2> SUFFICES ASSUME AllRows(i)
               PROVE  /\ result.read = p.at
                      /\ result.read = result.imported + result.skipped + result.duplicate + Len(p.rows)
                                       + Cardinality(IF q.pc = "bulk" THEN p.candidates ELSE q.left)
    BY <1>10 DEF RowsAreCounted
  <2>1. /\ p.result.read = p.at
        /\ p.result.read = p.result.imported + p.result.skipped + p.result.duplicate + Len(p.rows) + all
    BY <1>1 DEF Good, RowsAreCounted
  <2>2. CASE left # {}
    BY <2>1, <2>2, <1>7, <1>8, <1>10
  <2>3. CASE left = {}
    <3> DEFINE read == p.result.read
               imported == p.result.imported
               skipped == p.result.skipped
               duplicate == p.result.duplicate
               rows == Len(p.rows)
    <3>1. read \in Nat /\ imported \in Nat /\ skipped \in Nat /\ duplicate \in Nat
      BY <1>1 DEF Count
    <3>2. rows \in Nat
      BY <1>1 DEF Process
    <3>3. read = imported + skipped + duplicate + rows + all
      BY <2>1
    <3>4. all \in Nat
      BY <1>3
    <3> HIDE DEF read, imported, skipped, duplicate, rows, all
    <3>5. read = (imported + all) + skipped + duplicate + rows + 0
      BY <3>1, <3>2, <3>3, <3>4, StatementEnds
    <3>6. Cardinality(IF q.pc = "bulk" THEN p.candidates ELSE q.left) = 0
      BY <2>3, <1>8, <1>10, Nothing
    <3> QED BY <2>1, <2>3, <3>5, <3>6, <1>7 DEF read, imported, skipped, duplicate, rows
  <2> QED BY <2>2, <2>3
<1>16. Good(i, q)
  BY <1>13, <1>14, <1>15 DEF Good
<1>17. KeysOf(q.own) \subseteq KeysOf(importer[i].own) \union {k \in Keys : ~Held(k, i)}
  BY <1>2, <1>4, <1>8, <1>13
<1> QED BY <1>5, <1>9, <1>16, <1>17, ProcessStep DEF IInv, Typed, BulkInsert

\* The statement is undone: its rows are tried one by one.
LEMMA BulkFailsPreserves ==
    ASSUME IInv, NEW i \in Importers, BulkFails(i)
    PROVE  IInv'
<1> DEFINE p == importer[i]
           q == [p EXCEPT !.own = {}, !.left = p.candidates, !.pc = "check"]
<1>1. p \in Process /\ Good(i, p) /\ p.pc = "bulk"
  BY DEF IInv, Typed, BulkFails
<1>2. importer' = [importer EXCEPT ![i] = q]
  BY <1>1 DEF BulkFails, IInv, Typed
<1> HIDE DEF p
<1>3. q \in Process
  <2>1. "check" \in Phases
    BY DEF Phases, WithBatch, InTransaction, Trying
  <2> QED BY <1>1, <2>1 DEF Process
<1>4. /\ q.pc = "check" /\ q.own = {} /\ q.left = p.candidates /\ q.result = p.result
      /\ q.chunk = p.chunk /\ q.candidates = p.candidates /\ q.batch = p.batch
      /\ q.seen = p.seen /\ q.rows = p.rows /\ q.at = p.at
  BY <1>1 DEF Process
<1> HIDE DEF q
<1>5. KeysOf(q.own) = {} /\ Cardinality(KeysOf(q.own)) = 0
  BY <1>4, Nothing
<1>6. BatchIsOpen(i, q) /\ RowsAreSeen(q) /\ ReadSoFar(i, q)
  BY <1>1, <1>4 DEF Good, BatchIsOpen, RowsAreSeen, ReadSoFar, WithBatch, InTransaction, Trying
<1>7. Transaction(q)
  BY <1>1, <1>4 DEF Good, Transaction, InTransaction, Trying
<1>8. NothingIsDropped(i, q)
  <2> SUFFICES ASSUME AllRows(i), NEW k \in Keys, p.seen[k] # None
               PROVE  \/ stored[k] # None
                      \/ \E n \in p.candidates : p.chunk[n].key = k
                      \/ \E n \in DOMAIN p.rows : p.rows[n].key = k
    BY <1>4 DEF NothingIsDropped
  <2>1. \/ stored[k] # None \/ k \in KeysOf(p.own)
        \/ \E n \in p.left : p.chunk[n].key = k
        \/ \E n \in DOMAIN p.rows : p.rows[n].key = k
    BY <1>1 DEF Good, NothingIsDropped
  <2>2. CASE k \in KeysOf(p.own)
    <3>1. PICK row \in p.own : row.key = k
      BY <2>2 DEF KeysOf
    <3>2. PICK n \in p.candidates \ p.left : p.chunk[n].key = row.key
      BY <1>1 DEF Good, Transaction
    <3> QED BY <3>1, <3>2
  <2>3. p.left \subseteq p.candidates
    BY <1>1 DEF Good, Transaction
  <2> QED BY <2>1, <2>2, <2>3
<1>9. RepliesAreCounted(q)
  <2>1. p.result.imported = Cardinality(StoredBy(p.batch))
    BY <1>1 DEF Good, RepliesAreCounted
  <2>2. Cardinality(StoredBy(p.batch)) \in Nat
    BY <1>1, BatchIsCounted DEF Process
  <2> QED BY <2>1, <2>2, <1>4, <1>5 DEF RepliesAreCounted
<1>10. RowsAreCounted(i, q)
  BY <1>1, <1>4 DEF Good, RowsAreCounted
<1>11. Good(i, q)
  BY <1>6, <1>7, <1>8, <1>9, <1>10 DEF Good
<1> QED BY <1>2, <1>3, <1>5, <1>11, ProcessStep DEF IInv, Typed, BulkFails

\* A chunk that raises takes its rows back.
LEMMA RaisePreserves ==
    ASSUME IInv, NEW i \in Importers, Importing(i), Raise(i), events' \in 0 .. MaxEvents
    PROVE  IInv'
<1> DEFINE p == importer[i]
           q == [p EXCEPT !.own = {}, !.pc = "failing"]
<1>1. p \in Process /\ Good(i, p) /\ p.pc \in {"chunks", "bulk", "check", "insert", "saving"}
  BY DEF IInv, Typed, Importing
<1>2. importer' = [importer EXCEPT ![i] = q]
  BY <1>1 DEF Raise, IInv, Typed
<1> HIDE DEF p
<1>3. q \in Process
  <2>1. "failing" \in Phases
    BY DEF Phases, WithBatch
  <2> QED BY <1>1, <2>1 DEF Process
<1>4. /\ q.pc = "failing" /\ q.own = {} /\ q.left = p.left /\ q.result = p.result
      /\ q.chunk = p.chunk /\ q.candidates = p.candidates /\ q.batch = p.batch
      /\ q.seen = p.seen /\ q.rows = p.rows /\ q.at = p.at
  BY <1>1 DEF Process
<1> HIDE DEF q
<1>5. KeysOf(q.own) = {}
  BY <1>4, Nothing
<1>6. BatchIsOpen(i, q) /\ RowsAreSeen(q) /\ ReadSoFar(i, q) /\ NothingIsDropped(i, q)
      /\ RowsAreCounted(i, q)
  BY <1>1, <1>4 DEF Good, BatchIsOpen, RowsAreSeen, ReadSoFar, NothingIsDropped, RowsAreCounted,
                    WithBatch, InTransaction, Trying
<1>7. Transaction(q)
  BY <1>1, <1>4 DEF Good, Transaction, InTransaction, Trying
<1>8. RepliesAreCounted(q)
  <2> DEFINE c == Cardinality(StoredBy(p.batch))
             o == Cardinality(KeysOf(p.own))
             imported == p.result.imported
  <2>1. imported = c + o \/ imported = c
    BY <1>1 DEF Good, RepliesAreCounted
  <2>2. c \in Nat /\ o \in Nat
    <3>1. p.batch \in Nat /\ Transaction(p)
      BY <1>1 DEF Process, Good
    <3> QED BY <3>1, <1>1, BatchIsCounted, OwnKeys
  <2> HIDE DEF c, o, imported
  <2>3. imported >= c
    BY <2>1, <2>2
  <2> QED BY <2>3, <1>4 DEF RepliesAreCounted, c, imported
<1>9. Good(i, q)
  BY <1>6, <1>7, <1>8 DEF Good
<1> QED BY <1>2, <1>3, <1>5, <1>9, ProcessStep DEF IInv, Typed, Raise

-----------------------------------------------------------------------------
(* The batch *)

\* A batch is recorded for a process that starts to import.
LEMMA OpenPreserves ==
    ASSUME IInv, NEW i \in Importers, Open(i)
    PROVE  IInv'
<1> DEFINE p == importer[i]
           b == Len(batches) + 1
           q == [p EXCEPT !.pc = "chunks", !.batch = b]
<1>1. p \in Process /\ Good(i, p) /\ p.pc = "opening" /\ p.result \in Count
  BY DEF IInv, Typed, Open, Process
<1>2. /\ importer' = [importer EXCEPT ![i] = q] /\ batches' = Append(batches, NewBatch(i))
      /\ UNCHANGED <<case, stored, waiting, events>>
  BY DEF Open
<1>3. survey' \in Surveys
  <2>1. survey \in Surveys /\ Mapping(i) \subseteq Questions
    BY FileType DEF IInv, Typed
  <2>2. [survey EXCEPT !.questions = @ \union Mapping(i)] \in Surveys
    BY <2>1 DEF Surveys
  <2>3. [exists |-> TRUE, published |-> TRUE, questions |-> Mapping(i)] \in Surveys
    BY <2>1 DEF Surveys
  <2> QED BY <2>2, <2>3 DEF Open
<1>4. NewBatch(i) \in Batch /\ NewBatch(i).status = "running" /\ NewBatch(i).importer = i
      /\ NewBatch(i).count = p.result
  BY <1>1 DEF NewBatch, Batch
<1>5. /\ batches \in Seq(Batch) /\ Len(batches) \in Nat /\ DOMAIN batches = 1 .. Len(batches)
      /\ batches' \in Seq(Batch) /\ DOMAIN batches' = 1 .. b /\ b \in DOMAIN batches'
      /\ b \notin DOMAIN batches /\ batches'[b] = NewBatch(i)
      /\ \A c \in DOMAIN batches : c \in DOMAIN batches' /\ batches'[c] = batches[c]
      /\ \A c \in DOMAIN batches' : c \in DOMAIN batches \/ c = b
  BY <1>2, <1>4 DEF IInv, Typed
<1> HIDE DEF p
<1>6. q \in Process
  <2>1. "chunks" \in Phases /\ b \in Nat
    BY <1>5 DEF Phases, WithBatch
  <2> QED BY <1>1, <2>1 DEF Process
<1>7. /\ q.pc = "chunks" /\ q.own = p.own /\ q.left = p.left /\ q.result = p.result
      /\ q.chunk = p.chunk /\ q.candidates = p.candidates /\ q.batch = b
      /\ q.seen = p.seen /\ q.rows = p.rows /\ q.at = p.at
  BY <1>1 DEF Process
<1>8. p.own = {} /\ p.left = {} /\ KeysOf(p.own) = {}
  <2>1. p.own = {} /\ p.left = {}
    BY <1>1 DEF Good, Transaction, InTransaction, Trying
  <2> QED BY <2>1, Nothing
<1> HIDE DEF q, b
<1>30. PICK r, new : r = q /\ new = b
  OBVIOUS
<1>31. /\ importer' = [importer EXCEPT ![i] = r] /\ new \in DOMAIN batches' /\ new \in Nat
       /\ r.pc = "chunks" /\ r.own = {} /\ r.left = {} /\ r.batch = new /\ KeysOf(r.own) = {}
       /\ batches'[new].status = "running" /\ batches'[new].importer = i
  <2>1. importer' = [importer EXCEPT ![i] = r] /\ new \in DOMAIN batches'
    BY <1>2, <1>5, <1>30
  <2>2. new \in Nat
    BY <1>5, <1>30
  <2>3. r.pc = "chunks" /\ r.own = {} /\ r.left = {} /\ r.batch = new /\ KeysOf(r.own) = {}
    BY <1>7, <1>8, <1>30
  <2>4. batches'[new].status = "running" /\ batches'[new].importer = i
    BY <1>4, <1>5, <1>30
  <2> QED BY <2>1, <2>2, <2>3, <2>4
<1>9. \A c \in Nat : StoredBy(c)' = StoredBy(c)
  BY <1>2 DEF StoredBy
<1>10. StoredBy(b) = {} /\ Cardinality(StoredBy(b)) = 0 /\ p.result.imported = 0
  <2>1. StoredBy(b) = {}
    BY <1>5 DEF IInv, StoredInBatches, StoredBy
  <2> QED BY <2>1, <1>1, Nothing DEF Good, RepliesAreCounted
<1>11. BatchIsOpen(i, r)'
  BY <1>31 DEF BatchIsOpen
<1>12. Transaction(r)' /\ RowsAreSeen(r)' /\ ReadSoFar(i, r)'
  <2>1. Transaction(r) /\ RowsAreSeen(r) /\ ReadSoFar(i, r)
    BY <1>1, <1>7, <1>8, <1>30 DEF Good, Transaction, RowsAreSeen, ReadSoFar, InTransaction, Trying
  <2> QED BY <2>1, <1>2 DEF Transaction, RowsAreSeen, ReadSoFar, File, AllRows, Limit
<1>13. NothingIsDropped(i, r)' /\ RowsAreCounted(i, r)'
  <2>1. NothingIsDropped(i, r) /\ RowsAreCounted(i, r)
    BY <1>1, <1>7, <1>30 DEF Good, NothingIsDropped, RowsAreCounted
  <2> QED BY <2>1, <1>2 DEF NothingIsDropped, RowsAreCounted, File, AllRows, Limit
<1>14. RepliesAreCounted(r)'
  <2>1. r.result.imported = 0 /\ StoredBy(new) = {}
    BY <1>7, <1>10, <1>30
  <2>2. StoredBy(new)' = {}
    BY <2>1, <1>9, <1>31
  <2>3. Cardinality({}) = 0 /\ 0 = 0 + 0
    BY Nothing
  <2> QED BY <2>1, <2>2, <2>3, <1>31 DEF RepliesAreCounted
<1>15. ASSUME NEW j \in Importers PROVE Good(j, importer[j])'
  <2>1. CASE j = i
    <3>1. importer'[j] = r
      BY <1>31, <2>1 DEF IInv, Typed
    <3>2. Good(i, r)'
      BY <1>11, <1>12, <1>13, <1>14 DEF Good
    <3> QED BY <2>1, <3>1, <3>2
  <2>2. CASE j # i
    <3>1. importer'[j] = importer[j] /\ Good(j, importer[j])
      BY <1>2, <2>2 DEF IInv, Typed
    <3>2. PICK o : o = importer[j]
      OBVIOUS
    <3>3. Good(j, o) /\ importer'[j] = o
      BY <3>1, <3>2
    <3>4. BatchIsOpen(j, o)'
      BY <3>3, <1>5 DEF Good, BatchIsOpen
    <3>5. Transaction(o)' /\ RowsAreSeen(o)' /\ ReadSoFar(j, o)' /\ NothingIsDropped(j, o)'
          /\ RepliesAreCounted(o)' /\ RowsAreCounted(j, o)'
      BY <3>3, <1>2 DEF Good, Transaction, RowsAreSeen, ReadSoFar, NothingIsDropped,
                       RepliesAreCounted, RowsAreCounted, File, AllRows, Limit, StoredBy
    <3>6. Good(j, o)'
      BY <3>4, <3>5 DEF Good
    <3> QED BY <3>3, <3>6
  <2> QED BY <2>1, <2>2
<1>16. Typed'
  BY <1>2, <1>3, <1>5, <1>6 DEF IInv, Typed
<1>17. KeysAreHeldOnce'
  <2>1. \A j \in Importers : importer'[j].own = importer[j].own
    BY <1>2, <1>7 DEF IInv, Typed, p
  <2> QED BY <2>1 DEF IInv, KeysAreHeldOnce
<1>18. StoredInBatches'
  BY <1>2, <1>5, <1>9 DEF IInv, StoredInBatches
<1>19. Announced'
  BY <1>2, <1>5 DEF IInv, Announced, EndedImportsAreAnnounced, Typed, StoredInBatches
<1>20. BatchCountsAreTrue'
  <2> SUFFICES ASSUME NEW c \in DOMAIN batches'
               PROVE  LET count == batches'[c].count
                      IN  /\ batches'[c].status # "failed" => count.imported = Cardinality(StoredBy(c)')
                          /\ batches'[c].status = "completed" /\ AllRows(batches'[c].importer) =>
                                /\ count.read = Len(FileOf(c)')
                                /\ count.read = count.imported + count.skipped + count.duplicate
    BY <1>2 DEF BatchCountsAreTrue, AllRows, Limit
  <2>1. StoredBy(c)' = StoredBy(c)
    BY <1>5, <1>9
  <2>2. CASE c \in DOMAIN batches
    <3>1. batches'[c] = batches[c] /\ FileOf(c)' = FileOf(c)
      BY <1>2, <1>5, <2>2 DEF FileOf, File
    <3> QED BY <3>1, <2>1, <2>2 DEF IInv, BatchCountsAreTrue
  <2>3. CASE c = b
    BY <2>1, <2>3, <1>4, <1>5, <1>10
  <2> QED BY <2>2, <2>3, <1>5
<1>21. CompletedMeansStored'
  <2> SUFFICES ASSUME NEW c \in DOMAIN batches', batches'[c].status = "completed",
                      AllRows(batches'[c].importer), NEW k \in FileKeys(c)'
               PROVE  stored[k] # None
    BY <1>2 DEF CompletedMeansStored, AllRows, Limit
  <2>1. c \in DOMAIN batches
    BY <1>4, <1>5
  <2>2. batches'[c] = batches[c] /\ FileKeys(c)' = FileKeys(c)
    BY <1>2, <1>5, <2>1 DEF FileKeys, FileOf, File
  <2> QED BY <2>1, <2>2 DEF IInv, CompletedMeansStored
<1> QED BY <1>15, <1>16, <1>17, <1>18, <1>19, <1>20, <1>21 DEF IInv

\* What a transaction commits: its rows, where nobody had stored any.
LEMMA CommitIs ==
    ASSUME IInv, NEW i \in Importers, SaveChunk(i), NEW p, p = importer[i]
    PROVE  /\ p \in Process /\ Good(i, p) /\ p.pc = "saving" /\ p.left = {}
           /\ p.batch \in DOMAIN batches /\ p.batch \in Nat
           /\ stored' \in [Keys -> OwnRow \union {None}] /\ KeysOf(p.own) \subseteq Keys
           /\ \A k \in Keys : stored[k] # None => stored'[k] = stored[k] /\ k \notin KeysOf(p.own)
           /\ \A k \in KeysOf(p.own) :
                 stored'[k] # None /\ stored'[k].key = k /\ stored'[k].batch = p.batch
           /\ \A k \in Keys : k \notin KeysOf(p.own) => stored'[k] = stored[k]
           /\ batches' \in Seq(Batch) /\ DOMAIN batches' = DOMAIN batches
           /\ \A b \in DOMAIN batches : /\ batches'[b].importer = batches[b].importer
                                        /\ batches'[b].status = batches[b].status
                                        /\ b # p.batch => batches'[b] = batches[b]
           /\ batches'[p.batch].count = p.result
           /\ waiting' = waiting \union KeysOf(p.own)
<1>1. p \in Process /\ Good(i, p) /\ p.pc = "saving"
  BY DEF IInv, Typed, SaveChunk
<1>2. p.left = {} /\ p.batch \in DOMAIN batches /\ p.batch \in Nat /\ p.own \subseteq OwnRow
      /\ p.result \in Count
  BY <1>1 DEF Good, Transaction, BatchIsOpen, WithBatch, InTransaction, Trying, Process
<1>3. /\ stored' = [k \in Keys |->
            IF k \in KeysOf(p.own) THEN CHOOSE row \in p.own : row.key = k ELSE stored[k]]
      /\ batches' = [batches EXCEPT ![p.batch].count = p.result]
      /\ waiting' = waiting \union KeysOf(p.own)
  BY DEF SaveChunk
<1>4. KeysOf(p.own) \subseteq Keys
  BY <1>1, OwnKeys DEF Good
<1>5. ASSUME NEW k \in KeysOf(p.own)
      PROVE  /\ stored'[k] \in OwnRow /\ stored'[k] # None /\ stored'[k].key = k
             /\ stored'[k].batch = p.batch /\ stored[k] = None
  <2>1. PICK row \in p.own : row.key = k
    BY DEF KeysOf
  <2> DEFINE chosen == CHOOSE r \in p.own : r.key = k
  <2>2. chosen \in p.own /\ chosen.key = k
    BY <2>1
  <2>3. stored'[k] = chosen
    BY <1>3, <1>4
  <2> HIDE DEF chosen
  <2>4. chosen \in OwnRow /\ chosen # None
    BY <2>2, <1>2, NoneAssumption DEF OwnRow
  <2>5. chosen.batch = p.batch /\ stored[chosen.key] = None
    BY <2>2, <1>1 DEF Good, Transaction
  <2> QED BY <2>2, <2>3, <2>4, <2>5
<1>6. \A k \in Keys : k \notin KeysOf(p.own) => stored'[k] = stored[k]
  BY <1>3
<1>7. stored' \in [Keys -> OwnRow \union {None}]
  <2>1. stored \in [Keys -> OwnRow \union {None}]
    BY DEF IInv, Typed
  <2>2. \A k \in Keys : stored'[k] \in OwnRow \union {None}
    BY <2>1, <1>5, <1>6
  <2>3. stored' = [k \in Keys |-> stored'[k]]
    BY <1>3
  <2> QED BY <2>2, <2>3
<1>8. \A k \in Keys : stored[k] # None => stored'[k] = stored[k] /\ k \notin KeysOf(p.own)
  BY <1>5, <1>6
<1>9. /\ batches' \in Seq(Batch) /\ DOMAIN batches' = DOMAIN batches
      /\ \A b \in DOMAIN batches : /\ batches'[b].importer = batches[b].importer
                                   /\ batches'[b].status = batches[b].status
                                   /\ b # p.batch => batches'[b] = batches[b]
      /\ batches'[p.batch].count = p.result
  <2>1. batches \in Seq(Batch) /\ \A b \in DOMAIN batches : batches[b] \in Batch
    <3>1. batches \in Seq(Batch)
      BY DEF IInv, Typed
    <3> QED BY <3>1
  <2> DEFINE row == [batches[p.batch] EXCEPT !.count = p.result]
  <2>2. row \in Batch /\ row.importer = batches[p.batch].importer /\ row.status = batches[p.batch].status
        /\ row.count = p.result
    BY <2>1, <1>2 DEF Batch
  <2>3. batches' = [batches EXCEPT ![p.batch] = row]
    BY <1>3, <1>2
  <2> HIDE DEF row
  <2> QED BY <2>1, <2>2, <2>3, <1>2
<1> QED BY <1>1, <1>2, <1>3, <1>4, <1>5, <1>6, <1>7, <1>8, <1>9

\* Only the batch of the transaction gets rows, each a new one.
LEMMA CommittedReplies ==
    ASSUME IInv, NEW i \in Importers, SaveChunk(i), NEW p, p = importer[i]
    PROVE  /\ \A b \in Nat : b # p.batch => StoredBy(b)' = StoredBy(b)
           /\ \A b \in Nat : IsFiniteSet(StoredBy(b)')
           /\ Cardinality(StoredBy(p.batch)') = Cardinality(StoredBy(p.batch)) + Cardinality(KeysOf(p.own))
           /\ p.result.imported = Cardinality(StoredBy(p.batch)')
<1>1. /\ p \in Process /\ Good(i, p) /\ p.pc = "saving" /\ p.batch \in Nat
      /\ KeysOf(p.own) \subseteq Keys
      /\ \A k \in Keys : stored[k] # None => stored'[k] = stored[k] /\ k \notin KeysOf(p.own)
      /\ \A k \in KeysOf(p.own) : stored'[k] # None /\ stored'[k].batch = p.batch
      /\ \A k \in Keys : k \notin KeysOf(p.own) => stored'[k] = stored[k]
  BY CommitIs
<1>2. ASSUME NEW b \in Nat, b # p.batch PROVE StoredBy(b)' = StoredBy(b)
  BY <1>1, <1>2 DEF StoredBy
<1>3. StoredBy(p.batch)' = StoredBy(p.batch) \union KeysOf(p.own)
  BY <1>1 DEF StoredBy
<1>4. StoredBy(p.batch) \intersect KeysOf(p.own) = {}
  BY <1>1 DEF StoredBy
<1>5. /\ IsFiniteSet(StoredBy(p.batch)) /\ Cardinality(StoredBy(p.batch)) \in Nat
      /\ IsFiniteSet(KeysOf(p.own)) /\ Cardinality(KeysOf(p.own)) \in Nat
  BY <1>1, BatchIsCounted, OwnKeys DEF Good
<1>6. /\ IsFiniteSet(StoredBy(p.batch)')
      /\ Cardinality(StoredBy(p.batch)') = Cardinality(StoredBy(p.batch)) + Cardinality(KeysOf(p.own))
  <2>1. PICK A, B : A = StoredBy(p.batch) /\ B = KeysOf(p.own)
    OBVIOUS
  <2>2. IsFiniteSet(A \union B)
        /\ Cardinality(A \union B) = Cardinality(A) + Cardinality(B) - Cardinality(A \intersect B)
    BY <2>1, <1>5, FS_Union
  <2>3. Cardinality(A \intersect B) = 0
    BY <2>1, <1>4, FS_EmptySet
  <2>4. Cardinality(A \union B) = Cardinality(A) + Cardinality(B)
    BY <2>1, <2>2, <2>3, <1>5
  <2> QED BY <2>1, <2>2, <2>4, <1>3
<1>7. ASSUME NEW b \in Nat PROVE IsFiniteSet(StoredBy(b)')
  <2>1. CASE b = p.batch
    BY <2>1, <1>6
  <2>2. CASE b # p.batch
    BY <2>2, <1>2 DEF IInv, StoredInBatches
  <2> QED BY <2>1, <2>2
<1>8. p.result.imported = Cardinality(StoredBy(p.batch)')
  BY <1>1, <1>6 DEF Good, RepliesAreCounted
<1> QED BY <1>2, <1>6, <1>7, <1>8

LEMMA SaveChunkPreserves ==
    ASSUME IInv, NEW i \in Importers, SaveChunk(i)
    PROVE  IInv'
<1>1. PICK p, q : /\ p = importer[i]
                  /\ q = [p EXCEPT !.own = {}, !.chunk = <<>>, !.candidates = {}, !.pc = "chunks"]
  OBVIOUS
<1>2. importer' = [importer EXCEPT ![i] = q] /\ UNCHANGED <<case, survey, events>>
  BY <1>1 DEF SaveChunk
<1>3. /\ p \in Process /\ Good(i, p) /\ p.pc = "saving" /\ p.left = {}
      /\ p.batch \in DOMAIN batches /\ p.batch \in Nat
      /\ stored' \in [Keys -> OwnRow \union {None}] /\ KeysOf(p.own) \subseteq Keys
      /\ \A k \in Keys : stored[k] # None => stored'[k] = stored[k] /\ k \notin KeysOf(p.own)
      /\ \A k \in KeysOf(p.own) :
            stored'[k] # None /\ stored'[k].key = k /\ stored'[k].batch = p.batch
      /\ \A k \in Keys : k \notin KeysOf(p.own) => stored'[k] = stored[k]
      /\ batches' \in Seq(Batch) /\ DOMAIN batches' = DOMAIN batches
      /\ \A b \in DOMAIN batches : /\ batches'[b].importer = batches[b].importer
                                   /\ batches'[b].status = batches[b].status
                                   /\ b # p.batch => batches'[b] = batches[b]
      /\ batches'[p.batch].count = p.result
      /\ waiting' = waiting \union KeysOf(p.own)
  BY <1>1, CommitIs
<1>4. /\ \A b \in Nat : b # p.batch => StoredBy(b)' = StoredBy(b)
      /\ \A b \in Nat : IsFiniteSet(StoredBy(b)')
      /\ p.result.imported = Cardinality(StoredBy(p.batch)')
  BY <1>1, CommittedReplies
<1>5. q \in Process
  <2>1. "chunks" \in Phases /\ <<>> \in Seq(Row)
    BY DEF Phases, WithBatch
  <2> QED BY <1>1, <1>3, <2>1 DEF Process
<1>6. /\ q.pc = "chunks" /\ q.own = {} /\ q.left = {} /\ q.candidates = {} /\ q.chunk = <<>>
      /\ q.result = p.result /\ q.batch = p.batch /\ q.seen = p.seen /\ q.rows = p.rows /\ q.at = p.at
      /\ KeysOf(q.own) = {} /\ Cardinality(KeysOf(q.own)) = 0
  <2>1. /\ q.pc = "chunks" /\ q.own = {} /\ q.left = {} /\ q.candidates = {} /\ q.chunk = <<>>
        /\ q.result = p.result /\ q.batch = p.batch /\ q.seen = p.seen /\ q.rows = p.rows
        /\ q.at = p.at
    BY <1>1, <1>3 DEF Process
  <2> QED BY <2>1, Nothing
<1>7. BatchIsOpen(i, q)' /\ Transaction(q)' /\ RowsAreSeen(q)' /\ ReadSoFar(i, q)'
  <2>1. BatchIsOpen(i, p) /\ RowsAreSeen(p) /\ ReadSoFar(i, p)
    BY <1>3 DEF Good
  <2>2. BatchIsOpen(i, q)'
    BY <2>1, <1>3, <1>6 DEF BatchIsOpen, WithBatch, InTransaction
  <2>3. Transaction(q)'
    BY <1>6 DEF Transaction, Trying
  <2>4. RowsAreSeen(q)' /\ ReadSoFar(i, q)'
    BY <2>1, <1>2, <1>6 DEF RowsAreSeen, ReadSoFar, File, AllRows, Limit
  <2> QED BY <2>2, <2>3, <2>4
<1>8. NothingIsDropped(i, q)'
  <2> SUFFICES ASSUME AllRows(i), NEW k \in Keys, p.seen[k] # None
               PROVE  stored'[k] # None \/ \E n \in DOMAIN p.rows : p.rows[n].key = k
    BY <1>2, <1>6 DEF NothingIsDropped, AllRows, Limit
  <2>1. \/ stored[k] # None \/ k \in KeysOf(p.own)
        \/ \E n \in DOMAIN p.rows : p.rows[n].key = k
    BY <1>3 DEF Good, NothingIsDropped
  <2> QED BY <2>1, <1>3
<1>9. RepliesAreCounted(q)'
  <2>1. Cardinality(StoredBy(p.batch)') \in Nat
    BY <1>3, <1>4, FS_CardinalityType
  <2>2. p.result.imported = Cardinality(StoredBy(p.batch)') + 0
    BY <2>1, <1>4
  <2> QED BY <2>2, <1>6 DEF RepliesAreCounted
<1>10. RowsAreCounted(i, q)'
  <2>1. RowsAreCounted(i, p)
    BY <1>3 DEF Good
  <2> QED BY <2>1, <1>2, <1>3, <1>6 DEF RowsAreCounted, AllRows, Limit
<1>11. ASSUME NEW j \in Importers PROVE Good(j, importer[j])'
  <2>1. CASE j = i
    <3>1. importer'[j] = q
      BY <1>2, <2>1 DEF IInv, Typed
    <3>2. Good(i, q)'
      BY <1>7, <1>8, <1>9, <1>10 DEF Good
    <3> QED BY <2>1, <3>1, <3>2
  <2>2. CASE j # i
    <3>1. PICK o : o = importer[j]
      OBVIOUS
    <3>2. Good(j, o) /\ importer'[j] = o /\ o \in Process
      BY <1>2, <2>2, <3>1 DEF IInv, Typed
    <3>3. KeysOf(o.own) \intersect KeysOf(p.own) = {}
      BY <1>1, <2>2, <3>1 DEF IInv, KeysAreHeldOnce
    <3>4. BatchIsOpen(j, o)'
      BY <3>2, <1>3 DEF Good, BatchIsOpen
    <3>5. Transaction(o)'
      <4>1. \A row \in o.own : row.key \in KeysOf(o.own) /\ row.key \in Keys
        BY <3>2 DEF KeysOf, Process, OwnRow
      <4>2. \A row \in o.own : row.batch = o.batch /\ stored'[row.key] = None
        BY <4>1, <3>2, <3>3, <1>3 DEF Good, Transaction
      <4> QED BY <4>2, <3>2 DEF Good, Transaction
    <3>6. RowsAreSeen(o)' /\ ReadSoFar(j, o)' /\ RowsAreCounted(j, o)'
      BY <3>2, <1>2 DEF Good, RowsAreSeen, ReadSoFar, RowsAreCounted, File, AllRows, Limit
    <3>7. NothingIsDropped(j, o)'
      <4> SUFFICES ASSUME AllRows(j), o.pc # "failing", NEW k \in Keys, o.seen[k] # None
                   PROVE  \/ stored'[k] # None \/ k \in KeysOf(o.own)
                          \/ \E n \in o.left : o.chunk[n].key = k
                          \/ \E n \in DOMAIN o.rows : o.rows[n].key = k
        BY <1>2 DEF NothingIsDropped, AllRows, Limit
      <4>1. \/ stored[k] # None \/ k \in KeysOf(o.own)
            \/ \E n \in o.left : o.chunk[n].key = k
            \/ \E n \in DOMAIN o.rows : o.rows[n].key = k
        BY <3>2 DEF Good, NothingIsDropped
      <4> QED BY <4>1, <1>3
    <3>8. RepliesAreCounted(o)'
      <4>1. CASE o.pc \in WithBatch
        <5>1. o.batch # p.batch
          BY <4>1, <3>2, <1>3, <2>2 DEF Good, BatchIsOpen, WithBatch, InTransaction
        <5>2. StoredBy(o.batch)' = StoredBy(o.batch)
          BY <5>1, <3>2, <1>4 DEF Process
        <5> QED BY <5>2, <3>2 DEF Good, RepliesAreCounted
      <4>2. CASE o.pc \notin WithBatch
        BY <4>2, <3>2 DEF Good, RepliesAreCounted, WithBatch, InTransaction, Trying
      <4> QED BY <4>1, <4>2
    <3>9. Good(j, o)'
      BY <3>4, <3>5, <3>6, <3>7, <3>8 DEF Good
    <3> QED BY <3>2, <3>9
  <2> QED BY <2>1, <2>2
<1>12. Typed'
  <2>1. waiting' \subseteq Keys
    BY <1>3 DEF IInv, Typed
  <2> QED BY <2>1, <1>2, <1>3, <1>5 DEF IInv, Typed
<1>13. KeysAreHeldOnce'
  <2>1. \A j \in Importers : KeysOf(importer'[j].own) \subseteq KeysOf(importer[j].own)
    BY <1>2, <1>6 DEF IInv, Typed
  <2> SUFFICES ASSUME NEW j \in Importers, NEW o \in Importers, j # o
               PROVE  KeysOf(importer'[j].own) \intersect KeysOf(importer'[o].own) = {}
    BY DEF KeysAreHeldOnce, KeysOf
  <2> QED BY <2>1 DEF IInv, KeysAreHeldOnce
<1>14. StoredInBatches'
  <2>1. ASSUME NEW k \in Keys, stored'[k] # None
        PROVE  stored'[k].key = k /\ stored'[k].batch \in DOMAIN batches
    <3>1. CASE k \in KeysOf(p.own)
      BY <3>1, <1>3
    <3>2. CASE k \notin KeysOf(p.own)
      BY <2>1, <3>2, <1>3 DEF IInv, StoredInBatches
    <3> QED BY <3>1, <3>2
  <2> QED BY <2>1, <1>3, <1>4 DEF StoredInBatches
<1>15. Announced'
  <2> SUFFICES ASSUME NEW k \in waiting'
               PROVE  batches'[stored'[k].batch].status = "running" /\ stored'[k] # None
    BY DEF Announced, EndedImportsAreAnnounced
  <2>1. CASE k \in KeysOf(p.own)
    <3>1. batches[p.batch].status = "running"
      BY <1>3 DEF Good, BatchIsOpen, WithBatch, InTransaction
    <3> QED BY <2>1, <3>1, <1>3
  <2>2. CASE k \in waiting
    <3>1. k \in Keys /\ stored[k] # None /\ batches[stored[k].batch].status = "running"
      BY <2>2 DEF IInv, Typed, Announced, EndedImportsAreAnnounced
    <3>2. stored[k].batch \in DOMAIN batches /\ stored'[k] = stored[k]
      BY <3>1, <1>3 DEF IInv, StoredInBatches
    <3> QED BY <3>1, <3>2, <1>3
  <2> QED BY <2>1, <2>2, <1>3
<1>16. BatchCountsAreTrue'
  <2> SUFFICES ASSUME NEW c \in DOMAIN batches
               PROVE  LET count == batches'[c].count
                      IN  /\ batches'[c].status # "failed" => count.imported = Cardinality(StoredBy(c)')
                          /\ batches'[c].status = "completed" /\ AllRows(batches'[c].importer) =>
                                /\ count.read = Len(FileOf(c)')
                                /\ count.read = count.imported + count.skipped + count.duplicate
    BY <1>2, <1>3 DEF BatchCountsAreTrue, AllRows, Limit
  <2>1. CASE c = p.batch
    <3>1. batches'[c].status = "running"
      BY <2>1, <1>3 DEF Good, BatchIsOpen, WithBatch, InTransaction
    <3> QED BY <2>1, <3>1, <1>3, <1>4
  <2>2. CASE c # p.batch
    <3>1. c \in Nat
      BY DEF IInv, Typed
    <3>2. batches'[c] = batches[c] /\ FileOf(c)' = FileOf(c) /\ StoredBy(c)' = StoredBy(c)
      BY <1>2, <1>3, <1>4, <2>2, <3>1 DEF FileOf, File
    <3> QED BY <3>2 DEF IInv, BatchCountsAreTrue
  <2> QED BY <2>1, <2>2
<1>17. CompletedMeansStored'
  <2> SUFFICES ASSUME NEW c \in DOMAIN batches, batches[c].status = "completed",
                      AllRows(batches[c].importer), NEW k \in FileKeys(c)
               PROVE  stored'[k] # None
    <3>1. \A c \in DOMAIN batches : FileKeys(c)' = FileKeys(c)
      BY <1>2, <1>3 DEF FileKeys, FileOf, File
    <3>2. \A c \in DOMAIN batches : /\ batches'[c].status = batches[c].status
                                    /\ AllRows(batches[c].importer)' = AllRows(batches[c].importer)
      BY <1>2, <1>3 DEF AllRows, Limit
    <3> QED BY <3>1, <3>2, <1>3 DEF CompletedMeansStored
  <2>1. stored[k] # None
    BY DEF IInv, CompletedMeansStored
  <2>2. k \in Keys
    BY FileKeysAre DEF IInv
  <2> QED BY <2>1, <2>2, <1>3
<1> QED BY <1>11, <1>12, <1>13, <1>14, <1>15, <1>16, <1>17 DEF IInv

\* A batch ends with true counters: nothing is at hand when it is complete, and nothing that it
\* stored is left to announce when it counts no reply.
LEMMA ClosePreserves ==
    ASSUME IInv, NEW i \in Importers, NEW status \in {"completed", "failed"},
           importer[i].pc = IF status = "completed" THEN "chunks" ELSE "failing",
           status = "completed" => Ended(i), Close(i, status), UNCHANGED <<case, survey, stored, events>>
    PROVE  IInv'
<1>1. PICK p, q : /\ p = importer[i]
                  /\ q = [Idle EXCEPT !.pc = "idle", !.runs = p.runs]
  OBVIOUS
<1>2. importer' = [importer EXCEPT ![i] = q]
  <2>1. Idle.pc = "idle" /\ Idle = [Idle EXCEPT !.pc = Idle.pc]
    BY DEF Idle
  <2>2. q = [Idle EXCEPT !.runs = p.runs]
    BY <1>1, <2>1 DEF Idle
  <2> QED BY <1>1, <2>2 DEF Close
<1>3. q \in Process /\ Good(i, q) /\ KeysOf(q.own) = {} /\ q.pc = "idle"
  <2>1. p.runs \in 0 .. MaxRuns
    BY <1>1 DEF IInv, Typed, Process
  <2> QED BY <1>1, <2>1, FreshIsGood DEF IInv, Idle
<1>4. /\ p \in Process /\ Good(i, p) /\ p.pc \in {"chunks", "failing"} /\ p.result \in Count
      /\ (status = "completed" <=> p.pc = "chunks")
  BY <1>1 DEF IInv, Typed, Process
<1>5. /\ p.batch \in DOMAIN batches /\ p.batch \in Nat /\ batches[p.batch].importer = i
      /\ batches[p.batch].status = "running" /\ p.own = {} /\ KeysOf(p.own) = {}
      /\ p.pc = "chunks" => p.left = {}
  <2>1. p.own = {} /\ (p.pc = "chunks" => p.left = {})
    BY <1>4 DEF Good, Transaction, InTransaction, Trying
  <2> QED BY <2>1, <1>4, Nothing DEF Good, BatchIsOpen, Process, WithBatch
<1>6. /\ batches \in Seq(Batch) /\ batches' \in Seq(Batch) /\ DOMAIN batches' = DOMAIN batches
      /\ \A b \in DOMAIN batches : /\ batches'[b].importer = batches[b].importer
                                   /\ b # p.batch => batches'[b] = batches[b]
      /\ batches'[p.batch].count = p.result /\ batches'[p.batch].status = status
  <2>1. batches \in Seq(Batch) /\ \A b \in DOMAIN batches : batches[b] \in Batch
    <3>1. batches \in Seq(Batch)
      BY DEF IInv, Typed
    <3> QED BY <3>1
  <2> DEFINE row == [batches[p.batch] EXCEPT !.status = status, !.count = p.result]
  <2>2. row \in Batch /\ row.importer = batches[p.batch].importer /\ row.status = status
        /\ row.count = p.result
    BY <2>1, <1>4, <1>5 DEF Batch
  <2>3. batches' = [batches EXCEPT ![p.batch] = row]
    BY <1>1 DEF Close
  <2> HIDE DEF row
  <2> QED BY <2>1, <2>2, <2>3, <1>5
<1>7. \A b \in Nat : StoredBy(b)' = StoredBy(b)
  BY DEF StoredBy
<1>8. waiting' = IF p.result.imported > 0 THEN {} ELSE waiting
  BY <1>1 DEF Close
<1>9. /\ IsFiniteSet(StoredBy(p.batch)) /\ Cardinality(StoredBy(p.batch)) \in Nat
      /\ p.result.imported >= Cardinality(StoredBy(p.batch))
      /\ status = "completed" => p.result.imported = Cardinality(StoredBy(p.batch))
  <2>1. IsFiniteSet(StoredBy(p.batch)) /\ Cardinality(StoredBy(p.batch)) \in Nat
    BY <1>5, BatchIsCounted
  <2>2. Cardinality(KeysOf(p.own)) = 0
    BY <1>5, Nothing
  <2>3. CASE p.pc = "chunks"
    <3>1. p.result.imported = Cardinality(StoredBy(p.batch)) + 0
      BY <2>2, <2>3, <1>4 DEF Good, RepliesAreCounted
    <3>2. p.result.imported = Cardinality(StoredBy(p.batch))
      BY <2>1, <3>1
    <3> QED BY <2>1, <3>2
  <2>4. CASE p.pc = "failing"
    <3>1. status # "completed"
      BY <2>4, <1>4
    <3> QED BY <2>1, <2>4, <3>1, <1>4 DEF Good, RepliesAreCounted
  <2> QED BY <2>3, <2>4, <1>4
<1>10. ASSUME NEW j \in Importers PROVE Good(j, importer[j])'
  <2>1. CASE j = i
    <3>1. importer'[j] = q
      BY <1>2, <2>1 DEF IInv, Typed
    <3>2. BatchIsOpen(i, q)'
      BY <1>3 DEF BatchIsOpen, WithBatch, InTransaction, Trying
    <3>3. Transaction(q)' /\ RowsAreSeen(q)' /\ ReadSoFar(i, q)' /\ NothingIsDropped(i, q)'
          /\ RepliesAreCounted(q)' /\ RowsAreCounted(i, q)'
      BY <1>3 DEF Good, Transaction, RowsAreSeen, ReadSoFar, NothingIsDropped, RepliesAreCounted,
                  RowsAreCounted, File, AllRows, Limit, StoredBy
    <3>4. Good(i, q)'
      BY <3>2, <3>3 DEF Good
    <3> QED BY <2>1, <3>1, <3>4
  <2>2. CASE j # i
    <3>1. PICK o : o = importer[j]
      OBVIOUS
    <3>2. Good(j, o) /\ importer'[j] = o
      BY <1>2, <2>2, <3>1 DEF IInv, Typed
    <3>3. BatchIsOpen(j, o)'
      BY <2>2, <3>2, <1>5, <1>6 DEF Good, BatchIsOpen
    <3>4. Transaction(o)' /\ RowsAreSeen(o)' /\ ReadSoFar(j, o)' /\ NothingIsDropped(j, o)'
          /\ RepliesAreCounted(o)' /\ RowsAreCounted(j, o)'
      BY <3>2 DEF Good, Transaction, RowsAreSeen, ReadSoFar, NothingIsDropped, RepliesAreCounted,
                  RowsAreCounted, File, AllRows, Limit, StoredBy
    <3>5. Good(j, o)'
      BY <3>3, <3>4 DEF Good
    <3> QED BY <3>2, <3>5
  <2> QED BY <2>1, <2>2
<1>11. Typed'
  <2>1. waiting' \subseteq Keys
    BY <1>8 DEF IInv, Typed
  <2> QED BY <2>1, <1>2, <1>3, <1>6 DEF IInv, Typed
<1>12. KeysAreHeldOnce'
  <2>1. \A j \in Importers : KeysOf(importer'[j].own) \subseteq KeysOf(importer[j].own)
    BY <1>2, <1>3 DEF IInv, Typed
  <2> SUFFICES ASSUME NEW j \in Importers, NEW o \in Importers, j # o
               PROVE  KeysOf(importer'[j].own) \intersect KeysOf(importer'[o].own) = {}
    BY DEF KeysAreHeldOnce, KeysOf
  <2> QED BY <2>1 DEF IInv, KeysAreHeldOnce
<1>13. StoredInBatches'
  BY <1>6, <1>7 DEF IInv, StoredInBatches
<1>14. Announced'
  <2> SUFFICES ASSUME NEW k \in waiting'
               PROVE  batches'[stored[k].batch].status = "running" /\ stored[k] # None
    BY DEF Announced, EndedImportsAreAnnounced
  <2>1. k \in waiting /\ ~(p.result.imported > 0)
    BY <1>8
  <2>2. /\ k \in Keys /\ stored[k] # None /\ batches[stored[k].batch].status = "running"
        /\ stored[k].batch \in DOMAIN batches
    BY <2>1 DEF IInv, Typed, Announced, EndedImportsAreAnnounced, StoredInBatches
  <2>3. StoredBy(p.batch) = {}
    <3>1. p.result.imported \in Nat
      BY <1>4 DEF Count
    <3>2. Cardinality(StoredBy(p.batch)) = 0
      BY <2>1, <3>1, <1>9
    <3> QED BY <3>2, <1>9, FS_EmptySet
  <2>4. stored[k].batch # p.batch
    BY <2>2, <2>3 DEF StoredBy
  <2> QED BY <2>2, <2>4, <1>6
<1>15. AllRows(i) /\ status = "completed" =>
          /\ p.result.read = Len(File(i)) /\ p.rows = <<>> /\ p.left = {} /\ p.at = Len(File(i))
          /\ p.result.read = p.result.imported + p.result.skipped + p.result.duplicate
  <2> SUFFICES ASSUME AllRows(i), status = "completed"
               PROVE  /\ p.result.read = Len(File(i)) /\ p.rows = <<>> /\ p.left = {}
                      /\ p.at = Len(File(i))
                      /\ p.result.read = p.result.imported + p.result.skipped + p.result.duplicate
    OBVIOUS
  <2>1. p.rows = <<>> /\ p.left = {} /\ p.at = Len(File(i)) /\ p.pc = "chunks"
    BY <1>1, <1>4, <1>5 DEF Ended
  <2>2. Len(p.rows) = 0 /\ Cardinality(p.left) = 0
    BY <2>1, Nothing
  <2>3. /\ p.result.read = p.at
        /\ p.result.read = p.result.imported + p.result.skipped + p.result.duplicate + Len(p.rows)
                           + Cardinality(p.left)
    BY <2>1, <1>4 DEF Good, RowsAreCounted
  <2>4. p.result.imported \in Nat /\ p.result.skipped \in Nat /\ p.result.duplicate \in Nat
    BY <1>4 DEF Count
  <2>5. p.result.read = p.result.imported + p.result.skipped + p.result.duplicate + 0 + 0
    BY <2>2, <2>3
  <2>6. ASSUME NEW x \in Nat, NEW y \in Nat, NEW z \in Nat PROVE x + y + z + 0 + 0 = x + y + z
    OBVIOUS
  <2> QED BY <2>1, <2>3, <2>4, <2>5, <2>6
<1>16. BatchCountsAreTrue'
  <2> SUFFICES ASSUME NEW c \in DOMAIN batches
               PROVE  LET count == batches'[c].count
                      IN  /\ batches'[c].status # "failed" => count.imported = Cardinality(StoredBy(c)')
                          /\ batches'[c].status = "completed" /\ AllRows(batches'[c].importer) =>
                                /\ count.read = Len(FileOf(c)')
                                /\ count.read = count.imported + count.skipped + count.duplicate
    BY <1>6 DEF BatchCountsAreTrue, AllRows, Limit
  <2>1. c \in Nat /\ FileOf(c)' = FileOf(c) /\ StoredBy(c)' = StoredBy(c)
    <3>1. c \in Nat
      BY <1>6
    <3> QED BY <3>1, <1>6, <1>7 DEF FileOf, File
  <2>2. CASE c = p.batch
    BY <2>1, <2>2, <1>5, <1>6, <1>9, <1>15 DEF FileOf
  <2>3. CASE c # p.batch
    BY <2>1, <2>3, <1>6 DEF IInv, BatchCountsAreTrue
  <2> QED BY <2>2, <2>3
<1>17. CompletedMeansStored'
  <2> SUFFICES ASSUME NEW c \in DOMAIN batches, batches'[c].status = "completed",
                      AllRows(batches[c].importer), NEW k \in FileKeys(c)
               PROVE  stored[k] # None
    <3>1. \A c \in DOMAIN batches : FileKeys(c)' = FileKeys(c)
      BY <1>6 DEF FileKeys, FileOf, File
    <3>2. \A c \in DOMAIN batches : AllRows(batches[c].importer)' = AllRows(batches[c].importer)
      BY <1>6 DEF AllRows, Limit
    <3> QED BY <3>1, <3>2, <1>6 DEF CompletedMeansStored
  <2>1. CASE c # p.batch
    BY <2>1, <1>6 DEF IInv, CompletedMeansStored
  <2>2. CASE c = p.batch
    <3>1. AllRows(i) /\ status = "completed" /\ FileOf(c) = File(i) /\ p.pc = "chunks"
      BY <2>2, <1>4, <1>5, <1>6 DEF FileOf
    <3>2. k \in Keys /\ \E n \in 1 .. Len(File(i)) : File(i)[n] # Invalid /\ File(i)[n].key = k
      BY <3>1, FileKeysAre DEF IInv
    <3>3. p.seen[k] # None
      BY <3>1, <3>2, <1>4, <1>15 DEF Good, ReadSoFar
    <3>4. \/ stored[k] # None \/ k \in KeysOf(p.own)
          \/ \E n \in p.left : p.chunk[n].key = k
          \/ \E n \in DOMAIN p.rows : p.rows[n].key = k
      BY <3>1, <3>2, <3>3, <1>4 DEF Good, NothingIsDropped
    <3>5. DOMAIN <<>> = {}
      OBVIOUS
    <3> QED BY <3>1, <3>4, <3>5, <1>5, <1>15
  <2> QED BY <2>1, <2>2
<1> QED BY <1>10, <1>11, <1>12, <1>13, <1>14, <1>16, <1>17 DEF IInv

-----------------------------------------------------------------------------
(* The theorems *)

LEMMA InitIsGood ==
    ASSUME Init
    PROVE  IInv
<1>1. Typed
  <2>1. case \in Cases /\ survey \in Surveys /\ events \in 0 .. MaxEvents
    BY CaseAssumption, BoundAssumption DEF Init
  <2>2. batches \in Seq(Batch) /\ stored \in [Keys -> OwnRow \union {None}] /\ waiting \subseteq Keys
    BY DEF Init
  <2>3. Idle \in Process
    <3>1. Zero \in Count
      BY DEF Zero, Count
    <3>2. "idle" \in Phases /\ 0 \in 0 .. MaxRuns
      BY BoundAssumption DEF Phases
    <3>3. <<>> \in Seq(Row) /\ [k \in Keys |-> None] \in [Keys -> Contents \union {None}]
      OBVIOUS
    <3> QED BY <3>1, <3>2, <3>3 DEF Idle, Process
  <2>4. importer \in [Importers -> Process]
    BY <2>3 DEF Init
  <2> QED BY <2>1, <2>2, <2>4 DEF Typed
<1>2. ASSUME NEW i \in Importers PROVE Good(i, importer[i])
  <2> DEFINE q == [Idle EXCEPT !.pc = "idle", !.runs = 0]
  <2>1. Idle.pc = "idle" /\ Idle.runs = 0
    BY DEF Idle
  <2>2. q = Idle
    BY <2>1 DEF Idle
  <2>3. 0 \in 0 .. MaxRuns
    BY BoundAssumption
  <2>4. Good(i, q)
    BY <1>1, <2>3, FreshIsGood
  <2>5. importer[i] = Idle
    BY DEF Init
  <2> QED BY <2>2, <2>4, <2>5
<1>3. KeysAreHeldOnce
  <2>1. \A i \in Importers : importer[i].own = {}
    BY DEF Init, Idle
  <2> QED BY <2>1, Nothing DEF KeysAreHeldOnce
<1>4. StoredInBatches
  <2>1. \A b \in Nat : StoredBy(b) = {}
    BY DEF Init, StoredBy
  <2> QED BY <2>1, Nothing DEF StoredInBatches, Init
<1>5. Announced
  BY DEF Init, Announced, EndedImportsAreAnnounced
<1>6. DOMAIN batches = {}
  BY DEF Init
<1> QED BY <1>1, <1>2, <1>3, <1>4, <1>5, <1>6 DEF IInv, BatchCountsAreTrue, CompletedMeansStored

LEMMA NextKeepsIInv ==
    ASSUME IInv, [Next]_vars
    PROVE  IInv'
<1>1. CASE UNCHANGED vars
  <2>0. UNCHANGED <<case, survey, stored, batches, waiting, importer, events>>
    BY <1>1 DEF vars
  <2>1. Typed'
    BY <2>0 DEF IInv, Typed
  <2>2. ASSUME NEW i \in Importers PROVE Good(i, importer[i])'
    <3>1. PICK o : o = importer[i]
      OBVIOUS
    <3>2. Good(i, o) /\ importer'[i] = o
      BY <2>0, <3>1 DEF IInv
    <3>3. Good(i, o)'
      BY <2>0, <3>2 DEF Good, BatchIsOpen, Transaction, RowsAreSeen, ReadSoFar, NothingIsDropped,
                       RepliesAreCounted, RowsAreCounted, StoredBy, File, Limit, AllRows
    <3> QED BY <3>2, <3>3
  <2>3. KeysAreHeldOnce' /\ StoredInBatches' /\ Announced'
    BY <2>0 DEF IInv, KeysAreHeldOnce, StoredInBatches, Announced, EndedImportsAreAnnounced, StoredBy
  <2>4. BatchCountsAreTrue' /\ CompletedMeansStored'
    BY <2>0 DEF IInv, BatchCountsAreTrue, CompletedMeansStored, StoredBy, FileOf, FileKeys, File,
               Limit, AllRows
  <2> QED BY <2>1, <2>2, <2>3, <2>4 DEF IInv
<1>2. ASSUME NEW i \in Importers, Step(i) PROVE IInv'
  <2>1. CASE Start(i)
    BY <2>1, StartPreserves
  <2>2. CASE SampleRow(i)
    BY <2>2, SampleRowPreserves
  <2>3. CASE Sampled(i)
    BY <2>3, SampledPreserves
  <2>4. CASE LookUp(i)
    BY <2>4, LookUpPreserves
  <2>5. CASE Open(i)
    BY <2>5, OpenPreserves
  <2>6. CASE Refuse(i)
    BY <2>6, RestartPreserves DEF Refuse, IInv, Typed
  <2>7. CASE ReadRow(i)
    BY <2>7, ReadRowPreserves
  <2>8. CASE BeginChunk(i)
    BY <2>8, BeginChunkPreserves
  <2>9. CASE BulkInsert(i)
    BY <2>9, BulkInsertPreserves
  <2>10. CASE BulkFails(i)
    BY <2>10, BulkFailsPreserves
  <2>11. CASE CheckRow(i)
    BY <2>11, CheckRowPreserves
  <2>12. CASE InsertRow(i)
    BY <2>12, InsertRowPreserves
  <2>13. CASE InsertFails(i)
    BY <2>13, InsertFailsPreserves
  <2>14. CASE SaveChunk(i)
    BY <2>14, SaveChunkPreserves
  <2>15. CASE Complete(i)
    <3>1. importer[i].pc = "chunks"
      BY <2>15 DEF Complete, Ended
    <3> QED BY <2>15, <3>1, ClosePreserves DEF Complete
  <2>16. CASE Fail(i)
    BY <2>16, ClosePreserves DEF Fail
  <2>17. CASE Error(i)
    BY <2>17, DisturbedIsBounded, RaisePreserves DEF Error, IInv
  <2>18. CASE Deadlock(i)
    <3>1. Importing(i)
      BY <2>18 DEF Deadlock, WaitsFor, Importing
    <3>2. events' \in 0 .. MaxEvents
      BY <2>18 DEF Deadlock, IInv, Typed
    <3> QED BY <2>18, <3>1, <3>2, RaisePreserves DEF Deadlock
  <2>19. CASE Kill(i)
    BY <2>19, DisturbedIsBounded, RestartPreserves DEF Kill, IInv
  <2> QED BY <1>2, <2>1, <2>2, <2>3, <2>4, <2>5, <2>6, <2>7, <2>8, <2>9, <2>10, <2>11, <2>12, <2>13,
             <2>14, <2>15, <2>16, <2>17, <2>18, <2>19 DEF Step
<1> QED BY <1>1, <1>2 DEF Next

LEMMA Invariance == Spec => []IInv
BY InitIsGood, NextKeepsIInv, PTL DEF Spec

\* The rows, the batches and the processes' variables have their types (_import_chunk,
\* import_dataset).
THEOREM TypesAreCorrect == Spec => []TypeOK
<1>1. IInv => TypeOK
  <2> SUFFICES ASSUME IInv PROVE TypeOK
    OBVIOUS
  <2>1. ASSUME NEW k \in Keys, stored[k] # None
        PROVE  stored[k] \in Source /\ stored[k].key = k
    <3>1. stored[k] \in OwnRow
      BY <2>1 DEF IInv, Typed
    <3> QED BY <2>1, <3>1 DEF IInv, StoredInBatches, OwnRow, Source
  <2>2. ASSUME NEW i \in Importers
        PROVE  /\ importer[i].runs \in 0 .. MaxRuns
               /\ importer[i].pc \in {"idle", "sampling", "looking", "opening", "chunks", "bulk", "check",
                                      "insert", "saving", "failing"}
               /\ Importing(i) => importer[i].batch \in DOMAIN batches
    <3>1. importer[i] \in Process /\ Good(i, importer[i])
      BY DEF IInv, Typed
    <3> QED BY <3>1 DEF Process, Phases, WithBatch, InTransaction, Trying, Importing, Good, BatchIsOpen
  <2> QED BY <2>1, <2>2 DEF IInv, Typed, TypeOK
<1> QED BY <1>1, Invariance, PTL

\* A completed import of all rows has left every valid record of its file stored, whoever stored
\* it: no interleaving of two imports, no undone statement and no restart loses one.
THEOREM NoRecordIsLost == Spec => []CompletedMeansStored
<1>1. IInv => CompletedMeansStored
  BY DEF IInv
<1> QED BY <1>1, Invariance, PTL

\* Whatever an import has stored when it ends has been announced to the analysis, also by an
\* import that fails after it committed some of its chunks.
THEOREM ImportsAreAnnounced == Spec => []EndedImportsAreAnnounced
<1>1. IInv => EndedImportsAreAnnounced
  BY DEF IInv, Announced
<1> QED BY <1>1, Invariance, PTL

\* The counters of a batch agree with the rows that were committed for it, also while it runs and
\* after a kill; those of a completed import of all rows add up to the rows of its file.
THEOREM CountersAreTrue == Spec => []BatchCountsAreTrue
<1>1. IInv => BatchCountsAreTrue
  BY DEF IInv
<1> QED BY <1>1, Invariance, PTL

\* A record that is stored is never replaced, nor moved to another batch: the unique key decides
\* which of two imports stores it (ImportedSubmissionSource).
RecordsStay == [][\A k \in Keys : stored[k] # None => stored'[k] = stored[k]]_vars

THEOREM RecordsAreNeverReplaced == Spec => RecordsStay
<1>1. ASSUME IInv, [Next]_vars
      PROVE  [\A k \in Keys : stored[k] # None => stored'[k] = stored[k]]_vars
  <2> SUFFICES ASSUME stored' # stored
               PROVE  \A k \in Keys : stored[k] # None => stored'[k] = stored[k]
    BY <1>1 DEF vars
  <2>1. PICK i \in Importers : SaveChunk(i)
    <3>1. PICK i \in Importers : Step(i)
      BY <1>1 DEF Next, vars
    <3>2. SaveChunk(i)
      BY <3>1 DEF Step, Start, SampleRow, Sampled, LookUp, Open, Refuse, ReadRow, BeginChunk, BulkInsert,
                  BulkFails, CheckRow, InsertRow, InsertFails, Complete, Fail, Error, Deadlock, Kill, Raise
    <3> QED BY <3>2
  <2> QED BY <1>1, <2>1, CommitIs
<1> QED BY <1>1, Invariance, PTL DEF Spec, RecordsStay

-----------------------------------------------------------------------------
(* Local data sets: the inductive invariant *)

Gone == {Missing, Other, Short}
Layer == {Clean(rs) : rs \in Datasets \union {<<>>}}
Accounts == {Report(rs) : rs \in Datasets \union {<<>>}}
Vouched ==
    [raw : {Locked, Missing}, clean : (Layer \union {Other, Short}) \ {Missing},
     report : Accounts \union {Other, Short}, rows : Nat, untouched : BOOLEAN]
FileSystem ==
    [raw : {Locked} \union Gone, part : {Locked} \union Gone, clean : Layer \union Gone,
     report : Accounts \union Gone, manifest : Vouched \union Gone, mapping : Mappings]
Snapshot == [manifest : Vouched \union Gone, mapping : Mappings]

Writing == {"report", "clean", "manifest"}
Built == {"build"} \union Writing
Preparing == {"raw", "download", "downloaded"} \union Built
Preparation ==
    [pc : {"idle"} \union Preparing, attempt : {0, 1}, outcome : {Missing}, clean : Layer \union {Missing},
     report : Accounts \union {Missing}, untouched : BOOLEAN]
Verification ==
    [pc : {"idle", "hashed", "parsed"}, hashed : Snapshot \union {Missing}, read : Snapshot \union {Missing}]

Registered ==
    [registration : [content : (Layer \union {Other, Short}) \ {Missing}, rows : Nat \ {0},
                     mapping : Mappings, latest : Accounts \union Gone],
     location : Snapshot]

Mapped == {"statistics", "text", "verify"}
Reading == {"signed"} \union Mapped
JobPhases == {"idle", "claimed", "validating", "validated", "opened", "publish"} \union Reading
Job ==
    [pc : JobPhases, version : Layer \union Gone, mapping : Mappings \union {Missing}, signature : Nat,
     statistics : Layer \union Gone, text : Layer \union Gone, raced : BOOLEAN]

LocalTyped ==
    /\ locked \in Datasets /\ files \in FileSystem /\ stamp \in Nat
    /\ prep \in Preparation /\ verify \in [Users -> Verification]
    /\ versions \subseteq Registered /\ job \in Job
    /\ runs \in [prepare : 0 .. MaxPreparations, register : 0 .. MaxJobs, job : 0 .. MaxJobs]
    /\ hands \in 0 .. MaxHands

\* What a preparation has yet to write is not there.
NotYetWritten ==
    /\ prep.pc \in Preparing => files.manifest = Missing
    /\ prep.pc \in Preparing \ {"manifest"} => files.clean = Missing
    /\ prep.pc \in Preparing \ {"clean", "manifest"} => files.report = Missing
    /\ prep.pc \in {"download", "downloaded"} => files.raw = Missing
    /\ prep.pc \in Writing => prep.clean \in Layer /\ prep.report \in Accounts

\* What it has written, when nobody else changed a file, comes from the locked bytes.
WrittenFromLocked ==
    prep.untouched =>
        /\ prep.pc \in Built => files.raw = Locked
        /\ prep.pc \in Writing => prep.clean = Clean(locked) /\ prep.report = Report(locked)
        /\ prep.pc \in {"clean", "manifest"} => files.report = Report(locked)
        /\ prep.pc = "manifest" => files.clean = Clean(locked)

VouchesForLocked ==
    files.manifest \notin Gone /\ files.manifest.untouched =>
        /\ files.manifest.raw = Locked /\ files.manifest.clean = Clean(locked)
        /\ files.manifest.report = Report(locked)

\* A validation has what it hashed and what it parsed.
Snapshots ==
    /\ \A u \in Users :
          /\ verify[u].pc # "idle" => verify[u].hashed \in Snapshot
          /\ verify[u].pc = "parsed" => verify[u].read \in Snapshot
    /\ verify["worker"].pc # "idle" => job.pc = "validating"

OneVersionEach ==
    /\ \A v, w \in versions : v.registration.content = w.registration.content => v = w
    /\ active # Missing => \E v \in versions : v.registration.content = active
    /\ job.pc # "idle" => \E v \in versions : v.registration.content = job.version

IsOfVersion(mapping) == \A v \in versions : v.registration.content = job.version => v.registration.mapping = mapping

\* Without a race the worker has the registered mapping and, as long as the clean file keeps the
\* signature, the registered bytes.
ReadsRegistered ==
    ~job.raced =>
        /\ verify["worker"].pc = "parsed" => verify["worker"].read.mapping = files.mapping
        /\ job.pc \in {"validated", "opened", "signed"} => IsOfVersion(files.mapping)
        /\ job.pc = "opened" => files.clean = job.version
        /\ job.pc \in Mapped \union {"publish"} => IsOfVersion(job.mapping)
        /\ job.pc \in Reading /\ stamp = job.signature =>
              /\ files.clean = job.version
              /\ job.pc \in {"text", "verify"} => job.statistics = job.version
              /\ job.pc = "verify" => job.text = job.version
        /\ job.pc = "publish" => job.statistics = job.version /\ job.text = job.version

Signed ==
    /\ job.pc \in Reading => job.signature <= stamp
    /\ job.pc \in Mapped \union {"publish"} => job.mapping \in Mappings
    /\ published # Missing => published.version.mapping \in Mappings

LocalIInv ==
    /\ LocalTyped /\ NotYetWritten /\ WrittenFromLocked /\ VouchesForLocked
    /\ Snapshots /\ OneVersionEach /\ ReadsRegistered /\ Signed
    /\ PublishedIsRegistered

LEMMA EligibleIs ==
    ASSUME NEW rs \in Seq(FileRow)
    PROVE  /\ DOMAIN rs = 1 .. Len(rs) /\ Len(rs) \in Nat
           /\ \A n \in DOMAIN rs : rs[n] \in FileRow
           /\ Eligible(rs) \subseteq 1 .. Len(rs) /\ Eligible(rs) \subseteq Nat
<1>1. DOMAIN rs = 1 .. Len(rs) /\ Len(rs) \in Nat /\ \A n \in DOMAIN rs : rs[n] \in FileRow
  OBVIOUS
<1>2. Eligible(rs) \subseteq 1 .. Len(rs)
  BY <1>1 DEF Eligible
<1> QED BY <1>1, <1>2

AreParts(E, K, R, C) ==
    /\ K \union R \union C = E
    /\ K \intersect R = {} /\ K \intersect C = {} /\ R \intersect C = {}

\* A finite set in three parts.
LEMMA ThreePartsOf ==
    ASSUME NEW E, IsFiniteSet(E), NEW K, NEW R, NEW C, AreParts(E, K, R, C)
    PROVE  /\ Cardinality(K) \in Nat /\ Cardinality(R) \in Nat /\ Cardinality(C) \in Nat
           /\ Cardinality(E) = Cardinality(K) + Cardinality(R) + Cardinality(C)
<1>0. /\ K \union R \union C = E
      /\ K \intersect R = {} /\ (K \union R) \intersect C = {}
  BY DEF AreParts
<1>2. IsFiniteSet(K) /\ IsFiniteSet(R) /\ IsFiniteSet(C)
  BY <1>0, FS_Subset
<1>3. Cardinality(K) \in Nat /\ Cardinality(R) \in Nat /\ Cardinality(C) \in Nat
  BY <1>2, FS_CardinalityType
<1>4. IsFiniteSet(K \union R) /\ Cardinality(K \union R) = Cardinality(K) + Cardinality(R)
  <2>1. Cardinality(K \intersect R) = 0
    BY <1>0, FS_EmptySet
  <2>2. /\ IsFiniteSet(K \union R)
        /\ Cardinality(K \union R) = Cardinality(K) + Cardinality(R) - Cardinality(K \intersect R)
    BY <1>2, FS_Union
  <2> QED BY <2>1, <2>2, <1>3
<1>5. Cardinality((K \union R) \union C) = Cardinality(K \union R) + Cardinality(C)
  <2>1. Cardinality((K \union R) \intersect C) = 0
    BY <1>0, FS_EmptySet
  <2>2. Cardinality((K \union R) \union C)
          = Cardinality(K \union R) + Cardinality(C) - Cardinality((K \union R) \intersect C)
    BY <1>2, <1>4, FS_Union
  <2> QED BY <2>1, <2>2, <1>3, <1>4
<1>6. Cardinality(E) = Cardinality((K \union R) \union C)
  BY <1>0
<1> QED BY <1>3, <1>4, <1>5, <1>6

\* The counts of a cleaned file account for every row, whatever the rows.
LEMMA ReportReconciles ==
    ASSUME NEW rs \in Seq(FileRow)
    PROVE  /\ Report(rs).input = Len(rs)
           /\ Report(rs).retained \in Nat
           /\ Report(rs).retained = Cardinality(DOMAIN Clean(rs))
           /\ Reconciled(Report(rs))
<1> DEFINE E == Eligible(rs)
           K == Kept(rs)
           R == Removed(rs)
           C == Conflicting(rs)
<1>1. Len(rs) \in Nat /\ E \in SUBSET (1 .. Len(rs)) /\ E \subseteq Nat
  BY EligibleIs
<1>2. \A n \in E : SameKey(rs, n) \subseteq E
  BY DEF SameKey
<1>3. AreParts(E, K, R, C)
  <2>1. K \subseteq E /\ R \subseteq E /\ C \subseteq E
    BY DEF Kept, Removed, Conflicting
  <2>2. \A n \in E : n \in C <=> ~Unanimous(rs, n)
    BY DEF Conflicting
  <2>3. \A n \in E : n \in K <=> Unanimous(rs, n) /\ \A m \in SameKey(rs, n) : n <= m
    BY DEF Kept
  <2>4. \A n \in E : n \in R <=> Unanimous(rs, n) /\ \E m \in SameKey(rs, n) : m < n
    BY DEF Removed
  <2>5. \A n \in E : (\A m \in SameKey(rs, n) : n <= m) <=> ~(\E m \in SameKey(rs, n) : m < n)
    BY <1>1, <1>2
  <2> HIDE DEF E, K, R, C
  <2> QED BY <2>1, <2>2, <2>3, <2>4, <2>5 DEF AreParts
<1> HIDE DEF E, K, R, C
<1>4. /\ Cardinality(K) \in Nat /\ Cardinality(R) \in Nat /\ Cardinality(C) \in Nat
      /\ Cardinality(E) = Cardinality(K) + Cardinality(R) + Cardinality(C)
  <2>2. IsFiniteSet(E)
    <3>1. IsFiniteSet(1 .. Len(rs))
      <4>1. 1 \in Int /\ Len(rs) \in Int
        BY <1>1
      <4> QED BY <4>1, FS_Interval
    <3> QED BY <3>1, <1>1, FS_Subset
  <2> QED BY <2>2, <1>3, ThreePartsOf
<1>5. Report(rs) = [input |-> Len(rs), retained |-> Cardinality(K),
                          excluded |-> Len(rs) - Cardinality(E),
                          removed |-> Cardinality(R), conflicting |-> Cardinality(C)]
  BY DEF Report, E, K, R, C
<1>6. Cardinality(K) + (Len(rs) - Cardinality(E)) + Cardinality(R) + Cardinality(C) = Len(rs)
  BY <1>1, <1>4
<1>7. DOMAIN Clean(rs) = K
  BY DEF Clean, K
<1> QED BY <1>4, <1>5, <1>6, <1>7 DEF Reconciled

\* The clean layer of the locked rows is exact.
LEMMA CleanIsExact ==
    ASSUME locked \in Seq(FileRow)
    PROVE  Exact(Clean(locked))
<1> DEFINE clean == Clean(locked)
           E == Eligible(locked)
           eligible == {locked[n] : n \in {m \in DOMAIN locked : locked[m].reason = Missing}}
           kept(k) == {n \in DOMAIN clean : clean[n].key = k}
           texts(k) == {r.text : r \in {e \in eligible : e.key = k}}
           mine(k) == {n \in E : locked[n].key = k}
<1>1. E \subseteq Nat /\ E \subseteq DOMAIN locked /\ \A n \in E : locked[n].reason = Missing
  BY EligibleIs DEF Eligible
<1>2. eligible = {locked[n] : n \in E}
  BY DEF Eligible
<1>3. /\ DOMAIN clean = Kept(locked) /\ DOMAIN clean \subseteq E
      /\ \A n \in DOMAIN clean : clean[n] = locked[n]
  BY DEF Clean, Kept
<1>4. ASSUME NEW k PROVE texts(k) = {locked[n].text : n \in mine(k)}
  <2>1. {e \in eligible : e.key = k} = {locked[n] : n \in mine(k)}
    BY <1>2
  <2>2. texts(k) = {r.text : r \in {locked[n] : n \in mine(k)}}
    BY <2>1
  <2> HIDE DEF mine, texts
  <2> QED BY <2>2
<1>5. ASSUME NEW k, NEW n \in mine(k)
      PROVE  /\ SameKey(locked, n) = mine(k)
             /\ Unanimous(locked, n) <=> Cardinality(texts(k)) = 1
  <2>1. SameKey(locked, n) = mine(k)
    BY DEF SameKey
  <2>2. Texts(locked, n) = {locked[m].text : m \in mine(k)}
    BY <2>1 DEF Texts
  <2>3. Texts(locked, n) = texts(k)
    BY <2>2, <1>4
  <2>4. Unanimous(locked, n) <=> Cardinality(Texts(locked, n)) = 1
    BY DEF Unanimous
  <2> HIDE DEF mine, texts
  <2> QED BY <2>1, <2>3, <2>4
<1>6. ASSUME NEW k
      PROVE  kept(k) = {n \in mine(k) : Cardinality(texts(k)) = 1 /\ \A m \in mine(k) : n <= m}
  <2>1. \A n : n \in kept(k) <=> n \in mine(k) /\ n \in Kept(locked)
    BY <1>3
  <2>2. \A n \in mine(k) : n \in Kept(locked) <=>
            Cardinality(texts(k)) = 1 /\ \A m \in mine(k) : n <= m
    <3> SUFFICES ASSUME NEW n \in mine(k)
                 PROVE n \in Kept(locked) <=>
                           Cardinality(texts(k)) = 1 /\ \A m \in mine(k) : n <= m
      OBVIOUS
    <3>1. n \in Eligible(locked)
      OBVIOUS
    <3>2. n \in Kept(locked) <=>
              Unanimous(locked, n) /\ \A m \in SameKey(locked, n) : n <= m
      BY <3>1 DEF Kept
    <3> HIDE DEF mine, texts
    <3> QED BY <3>2, <1>5
  <2> HIDE DEF kept, mine, texts
  <2> QED BY <2>1, <2>2
<1>7. ASSUME NEW k
      PROVE  Cardinality(kept(k)) = IF Cardinality(texts(k)) = 1 THEN 1 ELSE 0
  <2>1. CASE Cardinality(texts(k)) = 1
    <3>1. mine(k) # {}
      <4> SUFFICES ASSUME mine(k) = {} PROVE FALSE
        OBVIOUS
      <4>1. texts(k) = {}
        <5> HIDE DEF texts, mine
        <5> QED BY <1>4
      <4>2. Cardinality({}) = 0
        BY FS_EmptySet
      <4> HIDE DEF texts
      <4> QED BY <4>1, <4>2, <2>1
    <3>2. mine(k) \subseteq Nat
      BY <1>1
    <3>3. PICK x \in mine(k) : \A m \in mine(k) : x <= m
      <4> HIDE DEF mine
      <4> QED BY <3>1, <3>2, LeastIs
    <3>4. kept(k) = {x}
      <4> HIDE DEF mine, kept, texts
      <4> QED BY <1>6, <2>1, <3>2, <3>3
    <3> HIDE DEF kept, texts
    <3> QED BY <2>1, <3>4, FS_Singleton
  <2>2. CASE Cardinality(texts(k)) # 1
    <3> HIDE DEF kept, mine, texts
    <3>1. kept(k) = {}
      BY <1>6, <2>2
    <3> QED BY <2>2, <3>1, FS_EmptySet
  <2> QED BY <2>1, <2>2
<1>8. ASSUME NEW k, NEW n \in kept(k) PROVE clean[n] \in eligible
  BY <1>2, <1>3
<1>9. \A k \in {"k1", "k2"} :
          /\ Cardinality(kept(k)) = IF Cardinality(texts(k)) = 1 THEN 1 ELSE 0
          /\ \A n \in kept(k) : clean[n] \in eligible
  <2> HIDE DEF kept, texts, eligible, clean
  <2> QED BY <1>7, <1>8
<1> QED BY <1>9 DEF Exact

-----------------------------------------------------------------------------

\* The parameters, and what is cleaned from any of the data sets.
LEMMA ParametersAre ==
    /\ Missing \notin {Other, Short, Locked} /\ Other \notin {Short, Locked} /\ Short # Locked
    /\ Mappings # {} /\ Missing \notin Mappings
    /\ MaxPreparations \in Nat /\ MaxJobs \in Nat /\ MaxHands \in Nat
    /\ \A rs \in Datasets \union {<<>>} : rs \in Seq(FileRow)
<1>1. <<>> \in Seq(FileRow)
  OBVIOUS
<1>2. \A rs \in Datasets : rs \in Seq(FileRow)
  BY DatasetsAssumption
<1> QED BY <1>1, <1>2, LocalBoundAssumption, MissingAssumption, MappingAssumption

LEMMA CleanedIs ==
    ASSUME NEW rs \in Datasets \union {<<>>}
    PROVE  /\ Clean(rs) \in Layer /\ Report(rs) \in Accounts
           /\ Reconciled(Report(rs))
<1>1. rs \in Seq(FileRow)
  BY ParametersAre
<1> QED BY <1>1, ReportReconciles DEF Layer, Accounts

LEMMA AccountsAre ==
    ASSUME NEW report \in Accounts
    PROVE  report.retained \in Nat
<1>1. PICK rs \in Datasets \union {<<>>} : report = Report(rs)
  BY DEF Accounts
<1>2. rs \in Seq(FileRow)
  BY ParametersAre
<1> QED BY <1>1, <1>2, ReportReconciles

\* What an action has to leave true of the files and of the preparation.
PreparationIInv == NotYetWritten /\ WrittenFromLocked /\ VouchesForLocked

\* And of the validations, the versions and the job.
ReadingIInv == Snapshots /\ OneVersionEach /\ ReadsRegistered /\ Signed /\ PublishedIsRegistered

LEMMA IInvParts == LocalIInv <=> LocalTyped /\ PreparationIInv /\ ReadingIInv
BY DEF LocalIInv, PreparationIInv, ReadingIInv

LEMMA StartsRight == ASSUME LocalInit PROVE LocalIInv
<1>1. (CHOOSE content \in Mappings : TRUE) \in Mappings
  BY ParametersAre
<1>2. prep = [pc |-> "idle", attempt |-> 0, outcome |-> Missing, clean |-> Missing, report |-> Missing,
              untouched |-> TRUE]
  BY DEF LocalInit, NoPrep
<1>3. verify = [u \in {"console", "worker"} |-> [pc |-> "idle", hashed |-> Missing, read |-> Missing]]
  BY DEF LocalInit, NoVerify, Users
<1>4. job = [pc |-> "idle", version |-> Missing, mapping |-> Missing, signature |-> 0,
             statistics |-> Missing, text |-> Missing, raced |-> FALSE]
  BY DEF LocalInit, NoJob
<1>5. LocalTyped
  <2>1. locked \in Datasets /\ stamp \in Nat /\ versions \subseteq Registered
    BY DEF LocalInit
  <2>2. files \in FileSystem
    BY <1>1 DEF LocalInit, FileSystem, Gone
  <2>3. prep \in Preparation
    BY <1>2 DEF Preparation
  <2>4. verify \in [Users -> Verification]
    BY <1>3 DEF Verification, Users
  <2>5. job \in Job
    BY <1>4 DEF Job, JobPhases, Reading, Mapped, Gone
  <2>6. /\ runs \in [prepare : 0 .. MaxPreparations, register : 0 .. MaxJobs, job : 0 .. MaxJobs]
        /\ hands \in 0 .. MaxHands
    BY ParametersAre DEF LocalInit
  <2> QED BY <2>1, <2>2, <2>3, <2>4, <2>5, <2>6 DEF LocalTyped
<1>6. NotYetWritten /\ WrittenFromLocked
  BY <1>2 DEF NotYetWritten, WrittenFromLocked, Preparing, Built, Writing
<1>7. VouchesForLocked
  BY DEF LocalInit, VouchesForLocked, Gone
<1>8. Snapshots
  BY <1>3 DEF Snapshots, Users
<1>9. OneVersionEach /\ ReadsRegistered /\ Signed
  BY <1>3, <1>4 DEF LocalInit, OneVersionEach, ReadsRegistered, Signed, Reading, Mapped
<1>10. PublishedIsRegistered
  BY DEF LocalInit, PublishedIsRegistered
<1> QED BY <1>5, <1>6, <1>7, <1>8, <1>9, <1>10 DEF LocalIInv

LEMMA ReadingUndisturbed ==
    ASSUME LocalTyped, ReadingIInv, UNCHANGED <<verify, versions, active, job, published>>,
           files'.mapping = files.mapping,
           \/ files'.clean = files.clean /\ stamp' = stamp
           \/ files.clean = Missing /\ stamp' = stamp + 1
    PROVE  ReadingIInv'
<1>1. Snapshots' /\ OneVersionEach' /\ PublishedIsRegistered'
  BY DEF ReadingIInv, Snapshots, OneVersionEach, PublishedIsRegistered
<1>2. Signed'
  BY DEF ReadingIInv, Signed, LocalTyped, Job, Reading, Mapped
<1>3. IsOfVersion(files.mapping)' = IsOfVersion(files.mapping) /\ IsOfVersion(job.mapping)' = IsOfVersion(job.mapping)
  BY DEF IsOfVersion
<1>4. job.pc # "idle" => job.version # Missing
  BY DEF ReadingIInv, OneVersionEach, LocalTyped, Registered
<1>5. ReadsRegistered'
  <2>1. CASE files'.clean = files.clean /\ stamp' = stamp
    BY <1>3, <2>1 DEF ReadingIInv, ReadsRegistered
  <2>2. CASE files.clean = Missing /\ stamp' = stamp + 1
    <3>1. job.pc \in Reading => stamp' # job.signature
      BY <2>2 DEF ReadingIInv, Signed, LocalTyped, Job
    <3>2. ~job.raced => job.pc # "opened"
      BY <1>4, <2>2 DEF ReadingIInv, ReadsRegistered
    <3> QED BY <1>3, <3>1, <3>2 DEF ReadingIInv, ReadsRegistered
  <2> QED BY <2>1, <2>2
<1> QED BY <1>1, <1>2, <1>5 DEF ReadingIInv

LEMMA PreparationUndisturbed ==
    ASSUME PreparationIInv, UNCHANGED <<locked, files, prep>> PROVE PreparationIInv'
BY DEF PreparationIInv, NotYetWritten, WrittenFromLocked, VouchesForLocked

-----------------------------------------------------------------------------

\* Every phase of a preparation, and what the sets of phases are.
LEMMA PhasesAre ==
    /\ Writing = {"report", "clean", "manifest"}
    /\ Built = {"build", "report", "clean", "manifest"}
    /\ Preparing = {"raw", "download", "downloaded", "build", "report", "clean", "manifest"}
BY DEF Writing, Built, Preparing

\* A preparation that ends, and leaves the files, keeps everything.
LEMMA Stopping ==
    ASSUME LocalTyped, PreparationIInv, Stop, UNCHANGED <<locked, files>>
    PROVE  prep' \in Preparation /\ PreparationIInv'
<1>1. prep' = [pc |-> "idle", attempt |-> 0, outcome |-> Missing, clean |-> Missing, report |-> Missing,
               untouched |-> TRUE]
  BY DEF Stop, NoPrep
<1>2. prep' \in Preparation
  BY <1>1 DEF Preparation
<1>3. NotYetWritten' /\ WrittenFromLocked'
  BY <1>1, PhasesAre DEF NotYetWritten, WrittenFromLocked
<1>4. VouchesForLocked'
  BY DEF PreparationIInv, VouchesForLocked
<1> QED BY <1>2, <1>3, <1>4 DEF PreparationIInv

\* What a step of a preparation does to the variables it shares with no other process.
Prepares ==
    /\ LocalTyped' /\ PreparationIInv'
    /\ files'.mapping = files.mapping
    /\ \/ files'.clean = files.clean /\ stamp' = stamp
       \/ files.clean = Missing /\ stamp' = stamp + 1

LEMMA TypedAgain ==
    ASSUME LocalTyped, Unprepared, files' \in FileSystem, stamp' \in Nat, prep' \in Preparation,
           runs' \in [prepare : 0 .. MaxPreparations, register : 0 .. MaxJobs, job : 0 .. MaxJobs],
           hands' \in 0 .. MaxHands
    PROVE  LocalTyped'
BY DEF LocalTyped, Unprepared

LEMMA BeginPrepares ==
    ASSUME LocalTyped, PreparationIInv, Begin PROVE Prepares
<1>1. /\ UNCHANGED <<locked, files, stamp, hands>> /\ Unprepared
      /\ runs.prepare < MaxPreparations /\ runs' = [runs EXCEPT !.prepare = @ + 1]
  BY DEF Begin, Unprepared
<1>2. runs' \in [prepare : 0 .. MaxPreparations, register : 0 .. MaxJobs, job : 0 .. MaxJobs]
  BY <1>1, ParametersAre DEF LocalTyped
<1>3. prep' \in Preparation /\ PreparationIInv'
  <2>1. CASE Cached \/ Occupied
    <3>1. Stop
      BY <2>1 DEF Begin
    <3> QED BY <3>1, <1>1, Stopping
  <2>2. CASE ~(Cached \/ Occupied)
    <3>1. prep' = [pc |-> "raw", attempt |-> 0, outcome |-> Missing, clean |-> Missing,
                   report |-> Missing, untouched |-> TRUE]
      BY <2>2 DEF Begin, NoPrep
    <3>2. files.manifest = Missing /\ files.clean = Missing /\ files.report = Missing
      BY <2>2 DEF Occupied
    <3>3. prep' \in Preparation
      BY <3>1, PhasesAre DEF Preparation
    <3>4. NotYetWritten' /\ WrittenFromLocked'
      BY <1>1, <3>1, <3>2, PhasesAre DEF NotYetWritten, WrittenFromLocked
    <3>5. VouchesForLocked'
      BY <1>1 DEF PreparationIInv, VouchesForLocked
    <3> QED BY <3>3, <3>4, <3>5 DEF PreparationIInv
  <2> QED BY <2>1, <2>2
<1>4. LocalTyped'
  BY <1>1, <1>2, <1>3, TypedAgain DEF LocalTyped
<1> QED BY <1>1, <1>3, <1>4 DEF Prepares

LEMMA FindRawPrepares ==
    ASSUME LocalTyped, PreparationIInv, FindRaw PROVE Prepares
<1>1. UNCHANGED <<locked, files, stamp, runs, hands>> /\ Unprepared /\ prep.pc = "raw"
  BY DEF FindRaw, Unprepared, At
<1>2. prep' \in Preparation /\ PreparationIInv'
  <2>1. CASE Stop
    BY <2>1, <1>1, Stopping
  <2>2. CASE files.raw = Locked /\ prep' = [prep EXCEPT !.pc = "build"]
    <3>1. prep' \in Preparation /\ prep'.pc = "build" /\ prep'.untouched = prep.untouched
      BY <2>2, PhasesAre DEF LocalTyped, Preparation
    <3>2. NotYetWritten' /\ WrittenFromLocked' /\ VouchesForLocked'
      BY <1>1, <2>2, <3>1, PhasesAre
         DEF PreparationIInv, NotYetWritten, WrittenFromLocked, VouchesForLocked
    <3> QED BY <3>1, <3>2 DEF PreparationIInv
  <2>3. CASE files.raw = Missing /\ prep' = [prep EXCEPT !.pc = "download"]
    <3>1. prep' \in Preparation /\ prep'.pc = "download" /\ prep'.untouched = prep.untouched
      BY <2>3, PhasesAre DEF LocalTyped, Preparation
    <3>2. NotYetWritten' /\ WrittenFromLocked' /\ VouchesForLocked'
      BY <1>1, <2>3, <3>1, PhasesAre
         DEF PreparationIInv, NotYetWritten, WrittenFromLocked, VouchesForLocked
    <3> QED BY <3>1, <3>2 DEF PreparationIInv
  <2>4. files.raw \in {Locked, Missing, Other, Short}
    BY DEF LocalTyped, FileSystem, Gone
  <2> QED BY <2>1, <2>2, <2>3, <2>4, ParametersAre DEF FindRaw
<1>3. LocalTyped'
  BY <1>1, <1>2, TypedAgain DEF LocalTyped
<1> QED BY <1>1, <1>2, <1>3 DEF Prepares

LEMMA StreamPrepares ==
    ASSUME LocalTyped, PreparationIInv, Stream PROVE Prepares
<1>1. /\ UNCHANGED <<locked, stamp, runs>> /\ Unprepared
      /\ prep.pc = "download" /\ prep' = [prep EXCEPT !.pc = "downloaded"]
  BY DEF Stream, Unprepared, At
<1>2. PICK part \in {Locked, Other, Short} :
          /\ part # Locked => hands < MaxHands
          /\ files' = [files EXCEPT !.part = part]
          /\ hands' = IF part = Locked THEN hands ELSE hands + 1
  BY DEF Stream
<1>3. /\ files' \in FileSystem /\ files'.mapping = files.mapping /\ files'.clean = files.clean
      /\ files'.raw = files.raw /\ files'.report = files.report /\ files'.manifest = files.manifest
  BY <1>2 DEF LocalTyped, FileSystem, Gone
<1>4. hands' \in 0 .. MaxHands
  BY <1>2, ParametersAre DEF LocalTyped
<1>5. prep' \in Preparation /\ prep'.pc = "downloaded" /\ prep'.untouched = prep.untouched
  BY <1>1, PhasesAre DEF LocalTyped, Preparation
<1>6. PreparationIInv'
  BY <1>1, <1>3, <1>5, PhasesAre DEF PreparationIInv, NotYetWritten, WrittenFromLocked, VouchesForLocked
<1>7. LocalTyped'
  BY <1>1, <1>3, <1>4, <1>5, TypedAgain DEF LocalTyped
<1> QED BY <1>1, <1>3, <1>6, <1>7 DEF Prepares

LEMMA PublishRawPrepares ==
    ASSUME LocalTyped, PreparationIInv, PublishRaw PROVE Prepares
<1>1. /\ UNCHANGED <<locked, stamp, runs, hands>> /\ Unprepared
      /\ prep.pc = "downloaded" /\ prep' = [prep EXCEPT !.pc = "build"]
      /\ files.part = Locked /\ files' = [files EXCEPT !.raw = files.part, !.part = Missing]
  BY DEF PublishRaw, Unprepared, At, AcceptedPart
<1>2. /\ files' \in FileSystem /\ files'.mapping = files.mapping /\ files'.clean = files.clean
      /\ files'.raw = Locked /\ files'.report = files.report /\ files'.manifest = files.manifest
  BY <1>1 DEF LocalTyped, FileSystem, Gone
<1>3. prep' \in Preparation /\ prep'.pc = "build" /\ prep'.untouched = prep.untouched
  BY <1>1, PhasesAre DEF LocalTyped, Preparation
<1>4. PreparationIInv'
  BY <1>1, <1>2, <1>3, PhasesAre DEF PreparationIInv, NotYetWritten, WrittenFromLocked, VouchesForLocked
<1>5. LocalTyped'
  BY <1>1, <1>2, <1>3, TypedAgain DEF LocalTyped
<1> QED BY <1>1, <1>2, <1>4, <1>5 DEF Prepares

LEMMA DropPartPrepares ==
    ASSUME LocalTyped, PreparationIInv, DropPart PROVE Prepares
<1>1. /\ UNCHANGED <<locked, stamp, runs, hands>> /\ Unprepared
      /\ prep.pc = "downloaded" /\ files' = [files EXCEPT !.part = Missing]
  BY DEF DropPart, Unprepared, At
<1>2. /\ files' \in FileSystem /\ files'.mapping = files.mapping /\ files'.clean = files.clean
      /\ files'.raw = files.raw /\ files'.report = files.report /\ files'.manifest = files.manifest
  BY <1>1 DEF LocalTyped, FileSystem, Gone
<1>3. /\ prep' \in Preparation /\ prep'.pc \in {"idle", "download"}
      /\ prep'.pc = "download" => prep'.untouched = prep.untouched
  <2>1. CASE Stop
    BY <2>1 DEF Stop, NoPrep, Preparation
  <2>2. CASE prep' = [prep EXCEPT !.pc = "download", !.attempt = 1]
    BY <2>2, PhasesAre DEF LocalTyped, Preparation
  <2> QED BY <2>1, <2>2 DEF DropPart
<1>4. PreparationIInv'
  BY <1>1, <1>2, <1>3, PhasesAre DEF PreparationIInv, NotYetWritten, WrittenFromLocked, VouchesForLocked
<1>5. LocalTyped'
  BY <1>1, <1>2, <1>3, TypedAgain DEF LocalTyped
<1> QED BY <1>1, <1>2, <1>4, <1>5 DEF Prepares

LEMMA BuildPrepares ==
    ASSUME LocalTyped, PreparationIInv, Build PROVE Prepares
<1>1. UNCHANGED <<locked, files, stamp, runs, hands>> /\ Unprepared /\ prep.pc = "build"
  BY DEF Build, Unprepared, At
<1>2. prep' \in Preparation /\ PreparationIInv'
  <2>1. CASE Stop
    BY <2>1, <1>1, Stopping
  <2>2. CASE prep' = [prep EXCEPT !.pc = "report", !.clean = Clean(RowsOf(files.raw)),
                                  !.report = Report(RowsOf(files.raw))]
    <3> DEFINE rs == RowsOf(files.raw)
    <3>1. rs \in Datasets \union {<<>>} /\ (files.raw = Locked => rs = locked)
      BY DEF RowsOf, LocalTyped
    <3> HIDE DEF rs
    <3>2. Clean(rs) \in Layer /\ Report(rs) \in Accounts
      BY <3>1, CleanedIs
    <3>3. prep' = [prep EXCEPT !.pc = "report", !.clean = Clean(rs), !.report = Report(rs)]
      BY <2>2 DEF rs
    <3>4. /\ prep' \in Preparation /\ prep'.pc = "report" /\ prep'.untouched = prep.untouched
          /\ prep'.clean = Clean(rs) /\ prep'.report = Report(rs)
      BY <3>2, <3>3, PhasesAre DEF LocalTyped, Preparation
    <3>5. NotYetWritten'
      BY <1>1, <3>2, <3>4, PhasesAre DEF PreparationIInv, NotYetWritten
    <3>6. WrittenFromLocked'
      <4>1. prep'.untouched => files.raw = Locked /\ rs = locked
        BY <1>1, <3>1, <3>4, PhasesAre DEF PreparationIInv, WrittenFromLocked
      <4>2. prep'.untouched =>
                prep'.clean = Clean(locked) /\ prep'.report = Report(locked)
        BY <3>4, <4>1
      <4> QED BY <1>1, <3>4, <4>1, <4>2, PhasesAre DEF WrittenFromLocked
    <3>7. VouchesForLocked'
      BY <1>1 DEF PreparationIInv, VouchesForLocked
    <3> QED BY <3>4, <3>5, <3>6, <3>7 DEF PreparationIInv
  <2> QED BY <2>1, <2>2 DEF Build
<1>3. LocalTyped'
  BY <1>1, <1>2, TypedAgain DEF LocalTyped
<1> QED BY <1>1, <1>2, <1>3 DEF Prepares

LEMMA WriteReportPrepares ==
    ASSUME LocalTyped, PreparationIInv, WriteReport PROVE Prepares
<1>1. /\ UNCHANGED <<locked, stamp, runs, hands>> /\ Unprepared
      /\ prep.pc = "report" /\ prep' = [prep EXCEPT !.pc = "clean"]
      /\ files' = [files EXCEPT !.report = prep.report]
  BY DEF WriteReport, Unprepared, At
<1>2. prep.report \in Accounts
  BY <1>1, PhasesAre DEF PreparationIInv, NotYetWritten
<1>3. /\ files' \in FileSystem /\ files'.mapping = files.mapping /\ files'.clean = files.clean
      /\ files'.raw = files.raw /\ files'.report = prep.report /\ files'.manifest = files.manifest
  BY <1>1, <1>2 DEF LocalTyped, FileSystem, Gone
<1>4. /\ prep' \in Preparation /\ prep'.pc = "clean" /\ prep'.untouched = prep.untouched
      /\ prep'.clean = prep.clean /\ prep'.report = prep.report
  BY <1>1, PhasesAre DEF LocalTyped, Preparation
<1>5. NotYetWritten'
  BY <1>1, <1>3, <1>4, PhasesAre DEF PreparationIInv, NotYetWritten
<1>6. WrittenFromLocked' /\ VouchesForLocked'
  BY <1>1, <1>3, <1>4, PhasesAre DEF PreparationIInv, WrittenFromLocked, VouchesForLocked
<1>7. LocalTyped'
  BY <1>1, <1>3, <1>4, TypedAgain DEF LocalTyped
<1> QED BY <1>1, <1>3, <1>5, <1>6, <1>7 DEF Prepares, PreparationIInv

LEMMA PublishCleanPrepares ==
    ASSUME LocalTyped, PreparationIInv, PublishClean PROVE Prepares
<1>1. /\ UNCHANGED <<locked, runs, hands>> /\ Unprepared /\ stamp' = stamp + 1
      /\ prep.pc = "clean" /\ prep' = [prep EXCEPT !.pc = "manifest"]
      /\ files' = [files EXCEPT !.clean = prep.clean]
  BY DEF PublishClean, Unprepared, At
<1>2. prep.clean \in Layer /\ files.clean = Missing
  BY <1>1, PhasesAre DEF PreparationIInv, NotYetWritten
<1>3. /\ files' \in FileSystem /\ files'.mapping = files.mapping /\ files'.clean = prep.clean
      /\ files'.raw = files.raw /\ files'.report = files.report /\ files'.manifest = files.manifest
  BY <1>1, <1>2 DEF LocalTyped, FileSystem, Gone
<1>4. /\ prep' \in Preparation /\ prep'.pc = "manifest" /\ prep'.untouched = prep.untouched
      /\ prep'.clean = prep.clean /\ prep'.report = prep.report
  BY <1>1, PhasesAre DEF LocalTyped, Preparation
<1>5. NotYetWritten'
  BY <1>1, <1>3, <1>4, PhasesAre DEF PreparationIInv, NotYetWritten
<1>6. WrittenFromLocked' /\ VouchesForLocked'
  BY <1>1, <1>3, <1>4, PhasesAre DEF PreparationIInv, WrittenFromLocked, VouchesForLocked
<1>7. LocalTyped'
  BY <1>1, <1>3, <1>4, TypedAgain DEF LocalTyped
<1> QED BY <1>1, <1>2, <1>3, <1>5, <1>6, <1>7 DEF Prepares, PreparationIInv

LEMMA WriteManifestPrepares ==
    ASSUME LocalTyped, PreparationIInv, WriteManifest PROVE Prepares
<1>1. /\ UNCHANGED <<locked, stamp, runs, hands>> /\ Unprepared /\ prep.pc = "manifest" /\ Stop
  BY DEF WriteManifest, Unprepared, At
<1>2. /\ prep' \in Preparation /\ prep'.pc = "idle"
  BY <1>1 DEF Stop, NoPrep, Preparation
<1>3. CASE files' = files
  <2>1. PreparationIInv'
    BY <1>1, <1>3, Stopping
  <2>2. LocalTyped'
    BY <1>1, <1>2, <1>3, TypedAgain DEF LocalTyped
  <2> QED BY <1>1, <1>3, <2>1, <2>2 DEF Prepares
<1>4. CASE /\ \A f \in {"raw", "clean", "report"} : files[f] # Missing
           /\ files' = [files EXCEPT !.manifest = Manifest]
  <2>1. prep.report \in Accounts /\ prep.report.retained \in Nat
    BY <1>1, PhasesAre, AccountsAre DEF PreparationIInv, NotYetWritten
  <2>2. files.clean # Missing /\ files.report # Missing
    BY <1>4
  <2> DEFINE m == Manifest
  <2>3. m = [raw |-> IF files.raw = Short THEN Missing ELSE Locked, clean |-> files.clean,
             report |-> files.report, rows |-> prep.report.retained, untouched |-> prep.untouched]
    BY DEF Manifest
  <2> HIDE DEF m
  <2>4. /\ files.clean \in (Layer \union {Other, Short}) \ {Missing}
        /\ files.report \in Accounts \union {Other, Short} /\ prep.untouched \in BOOLEAN
    BY <2>2 DEF LocalTyped, FileSystem, Gone, Preparation
  <2>5. m \in Vouched
    BY <2>1, <2>3, <2>4 DEF Vouched
  <2>6. /\ m.raw = (IF files.raw = Short THEN Missing ELSE Locked) /\ m.clean = files.clean
        /\ m.report = files.report /\ m.untouched = prep.untouched
    BY <2>3
  <2>7. files' = [files EXCEPT !.manifest = m]
    BY <1>4 DEF m
  <2>8. /\ files' \in FileSystem /\ files'.mapping = files.mapping /\ files'.clean = files.clean
        /\ files'.manifest = m
    BY <2>5, <2>7 DEF LocalTyped, FileSystem
  <2>9. NotYetWritten' /\ WrittenFromLocked'
    BY <1>2, PhasesAre DEF NotYetWritten, WrittenFromLocked
  <2>10. VouchesForLocked'
    <3> SUFFICES ASSUME prep.untouched
                 PROVE  /\ m.raw = Locked /\ m.clean = Clean(locked)
                        /\ m.report = Report(locked)
      BY <1>1, <2>6, <2>8 DEF VouchesForLocked
    <3>1. /\ files.raw = Locked /\ files.clean = Clean(locked)
          /\ files.report = Report(locked)
      BY <1>1, PhasesAre DEF PreparationIInv, WrittenFromLocked
    <3> QED BY <2>6, <3>1, ParametersAre
  <2>11. LocalTyped'
    BY <1>1, <1>2, <2>8, TypedAgain DEF LocalTyped
  <2> QED BY <1>1, <2>8, <2>9, <2>10, <2>11 DEF Prepares, PreparationIInv
<1> QED BY <1>3, <1>4 DEF WriteManifest

LEMMA CrashPrepares ==
    ASSUME LocalTyped, PreparationIInv, Crash PROVE Prepares
<1>1. /\ UNCHANGED <<locked, files, stamp, runs>> /\ Unprepared /\ Stop
      /\ hands < MaxHands /\ hands' = hands + 1
  BY DEF Crash, Unprepared
<1>2. prep' \in Preparation /\ PreparationIInv'
  BY <1>1, Stopping
<1>3. hands' \in 0 .. MaxHands
  BY <1>1, ParametersAre DEF LocalTyped
<1>4. LocalTyped'
  BY <1>1, <1>2, <1>3, TypedAgain DEF LocalTyped
<1> QED BY <1>1, <1>2, <1>4 DEF Prepares

LEMMA PrepareStep == ASSUME LocalIInv, Prepare PROVE LocalIInv'
<1>1. LocalTyped /\ PreparationIInv /\ ReadingIInv
  BY IInvParts
<1>2. Prepares
  BY <1>1, BeginPrepares, FindRawPrepares, StreamPrepares, PublishRawPrepares, DropPartPrepares,
     BuildPrepares, WriteReportPrepares, PublishCleanPrepares, WriteManifestPrepares, CrashPrepares
     DEF Prepare
<1>3. UNCHANGED <<verify, versions, active, job, published>>
  BY DEF Prepare, Begin, FindRaw, Stream, PublishRaw, DropPart,
         Build, WriteReport, PublishClean, WriteManifest, Crash,
         Unprepared
<1>4. ReadingIInv'
  BY <1>1, <1>2, <1>3, ReadingUndisturbed DEF Prepares
<1>5. LocalIInv' <=> LocalTyped' /\ PreparationIInv' /\ ReadingIInv'
  BY DEF LocalIInv, PreparationIInv, ReadingIInv
<1> QED BY <1>2, <1>4, <1>5 DEF Prepares

-----------------------------------------------------------------------------

LEMMA HereIs == ASSUME LocalTyped PROVE Here \in Snapshot /\ Here.mapping = files.mapping
BY DEF LocalTyped, FileSystem, Snapshot, Here

LEMMA TypedByReader ==
    ASSUME LocalTyped, Unverified, verify' \in [Users -> Verification],
           versions' \subseteq Registered, job' \in Job,
           runs' \in [prepare : 0 .. MaxPreparations, register : 0 .. MaxJobs, job : 0 .. MaxJobs]
    PROVE  LocalTyped'
BY DEF LocalTyped, Unverified

\* What a step of the console or of the worker has to leave.
Reads == LocalTyped' /\ ReadingIInv'

LEMMA ReadsKeepIInv == ASSUME LocalIInv, Unverified, Reads PROVE LocalIInv'
<1>1. PreparationIInv'
  BY PreparationUndisturbed, IInvParts DEF Unverified
<1> QED BY <1>1 DEF Reads, LocalIInv, PreparationIInv, ReadingIInv

LEMMA OneVerification ==
    ASSUME LocalTyped, NEW u \in Users, NEW w \in Verification, verify' = [verify EXCEPT ![u] = w]
    PROVE  /\ verify' \in [Users -> Verification] /\ verify'[u] = w
           /\ \A x \in Users : x # u => verify'[x] = verify[x]
BY DEF LocalTyped

LEMMA NoVerification == NoVerify \in Verification /\ NoVerify.pc = "idle"
BY DEF NoVerify, Verification

LEMMA NoJobIs ==
    /\ NoJob \in Job /\ NoJob.pc = "idle" /\ NoJob.raced = FALSE
    /\ NoJob.version = Missing
BY DEF NoJob, Job, JobPhases, Reading, Mapped, Gone

LEMMA TheVersion ==
    ASSUME OneVersionEach, job.pc # "idle"
    PROVE  /\ Version \in versions /\ Version.registration.content = job.version
           /\ \A v \in versions : v.registration.content = job.version => v = Version
<1>1. \E v \in versions : v.registration.content = job.version
  BY DEF OneVersionEach
<1>2. Version \in versions /\ Version.registration.content = job.version
  BY <1>1 DEF Version
<1> QED BY <1>2 DEF OneVersionEach

LEMMA HashReads ==
    ASSUME LocalTyped, ReadingIInv, NEW u \in Users, Hash(u) PROVE Reads
<1> DEFINE w == [NoVerify EXCEPT !.pc = "hashed", !.hashed = Here]
<1>1. /\ UNCHANGED <<files, stamp, versions, active, published>> /\ Unverified
      /\ verify[u].pc = "idle" /\ verify' = [verify EXCEPT ![u] = w]
      /\ u = "worker" => job.pc = "claimed"
      /\ u = "console" => runs.register < MaxJobs
      /\ runs' = IF u = "console" THEN [runs EXCEPT !.register = @ + 1] ELSE runs
      /\ job' = IF u = "worker" THEN [job EXCEPT !.pc = "validating"] ELSE job
  BY DEF Hash, Unverified, Verifying
<1>2. w \in Verification /\ w.pc = "hashed" /\ w.hashed \in Snapshot
  BY HereIs DEF NoVerify, Verification
<1> HIDE DEF w
<1>3. /\ verify' \in [Users -> Verification] /\ verify'[u] = w
      /\ \A x \in Users : x # u => verify'[x] = verify[x]
  BY <1>1, <1>2, OneVerification
<1>4. runs' \in [prepare : 0 .. MaxPreparations, register : 0 .. MaxJobs, job : 0 .. MaxJobs]
  BY <1>1, ParametersAre DEF LocalTyped
<1>5. /\ job' \in Job /\ job'.version = job.version /\ job'.raced = job.raced
      /\ u = "worker" => job'.pc = "validating" /\ job.pc = "claimed"
      /\ u # "worker" => job' = job
  BY <1>1 DEF LocalTyped, Job, JobPhases, Reading, Mapped
<1>6. LocalTyped'
  BY <1>1, <1>3, <1>4, <1>5, TypedByReader DEF LocalTyped
<1>7. Snapshots'
  BY <1>1, <1>2, <1>3, <1>5 DEF ReadingIInv, Snapshots, Users
<1>8. OneVersionEach' /\ PublishedIsRegistered'
  BY <1>1, <1>5 DEF ReadingIInv, OneVersionEach, PublishedIsRegistered
<1>9. ReadsRegistered' /\ Signed'
  <2>1. CASE u = "worker"
    BY <1>1, <1>2, <1>3, <1>5, <2>1 DEF ReadingIInv, ReadsRegistered, Signed, Reading, Mapped
  <2>2. CASE u # "worker"
    <3>1. verify'["worker"] = verify["worker"] /\ job' = job
      BY <1>3, <1>5, <2>2 DEF Users
    <3> QED BY <1>1, <3>1 DEF ReadingIInv, ReadsRegistered, Signed, IsOfVersion
  <2> QED BY <2>1, <2>2
<1> QED BY <1>6, <1>7, <1>8, <1>9 DEF Reads, ReadingIInv

LEMMA ParseReads ==
    ASSUME LocalTyped, ReadingIInv, NEW u \in Users, Parse(u) PROVE Reads
<1>1. /\ UNCHANGED <<files, stamp, versions, active, job, runs, published>> /\ Unverified
      /\ verify[u].pc = "hashed"
      /\ verify' = [verify EXCEPT ![u].pc = "parsed", ![u].read = Here]
  BY DEF Parse, Unverified, Verifying
<1> DEFINE w == [verify[u] EXCEPT !.pc = "parsed", !.read = Here]
<1>2. verify[u] \in Verification
  BY DEF LocalTyped
<1>3. w \in Verification /\ w.pc = "parsed" /\ w.hashed = verify[u].hashed /\ w.read = Here
  BY <1>2, HereIs DEF Verification
<1>4. verify' = [verify EXCEPT ![u] = w]
  BY <1>1 DEF LocalTyped
<1> HIDE DEF w
<1>5. /\ verify' \in [Users -> Verification] /\ verify'[u] = w
      /\ \A x \in Users : x # u => verify'[x] = verify[x]
  BY <1>3, <1>4, OneVerification
<1>6. LocalTyped'
  BY <1>1, <1>5, TypedByReader DEF LocalTyped
<1>7. Snapshots'
  BY <1>1, <1>3, <1>5, HereIs DEF ReadingIInv, Snapshots, Users
<1>8. OneVersionEach' /\ PublishedIsRegistered' /\ Signed'
  BY <1>1 DEF ReadingIInv, OneVersionEach, PublishedIsRegistered, Signed
<1>9. ReadsRegistered'
  <2>1. verify'["worker"].pc = "parsed" /\ ~job.raced => verify'["worker"].read.mapping = files.mapping
    BY <1>3, <1>5, HereIs DEF ReadingIInv, ReadsRegistered, Users
  <2> QED BY <1>1, <2>1 DEF ReadingIInv, ReadsRegistered, IsOfVersion
<1> QED BY <1>6, <1>7, <1>8, <1>9 DEF Reads, ReadingIInv

\* The worker gives the job up.
LEMMA Dropping ==
    ASSUME LocalTyped, ReadingIInv, Unverified, UNCHANGED <<versions, active, runs>>,
           job' = NoJob,
           \/ verify' = verify /\ job.pc # "validating"
           \/ verify' = [verify EXCEPT !["worker"] = NoVerify]
    PROVE  Reads
<1>1. "worker" \in Users
  BY DEF Users
<1>2. /\ verify' \in [Users -> Verification] /\ verify'["worker"].pc = "idle"
      /\ \A x \in Users : x # "worker" => verify'[x] = verify[x]
  <2>1. CASE verify' = verify /\ job.pc # "validating"
    BY <2>1 DEF LocalTyped, ReadingIInv, Snapshots
  <2>2. CASE verify' = [verify EXCEPT !["worker"] = NoVerify]
    BY <1>1, <2>2, NoVerification, OneVerification
  <2> QED BY <2>1, <2>2
<1>3. LocalTyped'
  BY <1>2, NoJobIs, TypedByReader DEF LocalTyped
<1>4. Snapshots'
  BY <1>2 DEF ReadingIInv, Snapshots, Users
<1>5. OneVersionEach' /\ ReadsRegistered'
  BY <1>2, NoJobIs DEF ReadingIInv, OneVersionEach, ReadsRegistered, Reading, Mapped
<1>6. Signed' /\ PublishedIsRegistered'
  BY NoJobIs DEF ReadingIInv, Signed, PublishedIsRegistered, Reading, Mapped, Unverified
<1> QED BY <1>3, <1>4, <1>5, <1>6 DEF Reads, ReadingIInv

LEMMA RegisterReads ==
    ASSUME LocalTyped, ReadingIInv, Register PROVE Reads
<1> DEFINE new == Registration("console")
           known == {v \in versions : v.registration.content = new.content}
           located == Located(new)
<1>1. /\ UNCHANGED <<files, stamp, job, runs, published>> /\ Unverified
      /\ verify["console"].pc = "parsed"
      /\ verify' = [verify EXCEPT !["console"] = NoVerify]
      /\ \/ /\ Valid("console") /\ \A v \in known : v.registration = new
            /\ versions' = (versions \ known) \union {located} /\ active' = new.content
         \/ UNCHANGED <<versions, active>>
  BY DEF Register, Unverified, Verifying
<1>2. /\ verify' \in [Users -> Verification] /\ verify'["console"].pc = "idle"
      /\ verify'["worker"] = verify["worker"]
  <2>1. "console" \in Users /\ "worker" \in Users /\ "worker" # "console"
    BY DEF Users
  <2> QED BY <1>1, <2>1, NoVerification, OneVerification
<1>3. Snapshots'
  BY <1>1, <1>2 DEF ReadingIInv, Snapshots, Users
<1>4. CASE UNCHANGED <<versions, active>>
  <2>1. LocalTyped'
    BY <1>1, <1>2, <1>4, TypedByReader DEF LocalTyped
  <2>2. OneVersionEach' /\ ReadsRegistered' /\ Signed' /\ PublishedIsRegistered'
    BY <1>1, <1>2, <1>4
       DEF ReadingIInv, OneVersionEach, ReadsRegistered, IsOfVersion, Signed, PublishedIsRegistered
  <2> QED BY <1>3, <2>1, <2>2 DEF Reads, ReadingIInv
<1>5. CASE /\ Valid("console") /\ \A v \in known : v.registration = new
           /\ versions' = (versions \ known) \union {located} /\ active' = new.content
  <2>1. verify["console"].hashed \in Snapshot /\ verify["console"].read \in Snapshot
    BY <1>1 DEF ReadingIInv, Snapshots, Users
  <2>2. verify["console"].read.manifest \in Vouched /\ verify["console"].read.manifest.rows > 0
    BY <1>5, <2>1 DEF Valid, Readable, Snapshot, Gone
  <2>3. /\ new = [content |-> verify["console"].read.manifest.clean,
                  rows |-> verify["console"].read.manifest.rows,
                  mapping |-> verify["console"].read.mapping, latest |-> files.report]
        /\ located = [registration |-> new, location |-> verify["console"].hashed]
    BY DEF Registration, Located
  <2> HIDE DEF new, located
  <2>4. /\ new.content \in (Layer \union {Other, Short}) \ {Missing}
        /\ new.rows \in Nat \ {0} /\ new.mapping \in Mappings /\ new.latest \in Accounts \union Gone
    BY <2>1, <2>2, <2>3 DEF Snapshot, Vouched, LocalTyped, FileSystem
  <2>5. located \in Registered /\ located.registration = new
    <3>1. new \in [content : (Layer \union {Other, Short}) \ {Missing}, rows : Nat \ {0},
                   mapping : Mappings, latest : Accounts \union Gone]
      BY <2>3, <2>4
    <3> QED BY <2>1, <2>3, <3>1 DEF Registered
  <2>6. LocalTyped'
    <3>1. versions' \subseteq Registered
      BY <1>5, <2>5 DEF LocalTyped
    <3> QED BY <1>1, <1>2, <3>1, TypedByReader DEF LocalTyped
  <2>7. \A v \in versions' : v.registration.content = new.content => v = located
    BY <1>5, <2>5
  <2>8. \A v \in versions' : v # located => v \in versions
    BY <1>5
  <2>9. located \in versions' /\ \A v \in versions : v.registration.content # new.content => v \in versions'
    BY <1>5
  <2>10. OneVersionEach'
    <3>1. \A v, w \in versions' : v.registration.content = w.registration.content => v = w
      BY <2>5, <2>7, <2>8 DEF ReadingIInv, OneVersionEach
    <3>2. \E v \in versions' : v.registration.content = active'
      BY <1>5, <2>5, <2>9
    <3>3. job.pc # "idle" => \E v \in versions' : v.registration.content = job.version
      BY <2>5, <2>9 DEF ReadingIInv, OneVersionEach
    <3> QED BY <1>1, <3>1, <3>2, <3>3 DEF OneVersionEach
  <2>11. ASSUME NEW mapping, job.pc # "idle", IsOfVersion(mapping)
         PROVE  IsOfVersion(mapping)'
    <3> SUFFICES ASSUME NEW v \in versions', v.registration.content = job.version
                 PROVE v.registration.mapping = mapping
      BY <1>1 DEF IsOfVersion
    <3>1. CASE v = located
      <4>1. PICK w \in versions : w.registration.content = job.version
        BY <2>11 DEF ReadingIInv, OneVersionEach
      <4>2. w.registration = new
        BY <1>5, <2>5, <3>1, <4>1
      <4> QED BY <2>5, <2>11, <3>1, <4>1, <4>2 DEF IsOfVersion
    <3>2. CASE v # located
      BY <2>8, <2>11, <3>2 DEF IsOfVersion
    <3> QED BY <3>1, <3>2
  <2>12. ReadsRegistered'
    <3>1. ~job.raced /\ job.pc \in {"validated", "opened", "signed"} => IsOfVersion(files.mapping)'
      BY <1>1, <2>11 DEF ReadingIInv, ReadsRegistered, IsOfVersion
    <3>2. ~job.raced /\ job.pc \in Mapped \union {"publish"} => IsOfVersion(job.mapping)'
      BY <1>1, <2>11 DEF ReadingIInv, ReadsRegistered, IsOfVersion, Reading, Mapped
    <3> QED BY <1>1, <1>2, <3>1, <3>2 DEF ReadingIInv, ReadsRegistered
  <2>13. Signed' /\ PublishedIsRegistered'
    BY <1>1 DEF ReadingIInv, Signed, PublishedIsRegistered
  <2> QED BY <1>3, <2>6, <2>10, <2>12, <2>13 DEF Reads, ReadingIInv
<1> QED BY <1>1, <1>4, <1>5

LEMMA ClaimReads ==
    ASSUME LocalTyped, ReadingIInv, Claim PROVE Reads
<1>1. /\ UNCHANGED <<files, stamp, verify, versions, active, published>> /\ Unverified
      /\ job.pc = "idle" /\ active # Missing /\ runs.job < MaxJobs
      /\ runs' = [runs EXCEPT !.job = @ + 1]
      /\ job' = [NoJob EXCEPT !.pc = "claimed", !.version = active]
  BY DEF Claim, Unverified, JobAt
<1>2. runs' \in [prepare : 0 .. MaxPreparations, register : 0 .. MaxJobs, job : 0 .. MaxJobs]
  BY <1>1, ParametersAre DEF LocalTyped
<1>3. PICK v \in versions : v.registration.content = active
  BY <1>1 DEF ReadingIInv, OneVersionEach
<1>4. active \in Layer \union Gone
  BY <1>3 DEF LocalTyped, Registered, Gone
<1>5. job' \in Job /\ job'.pc = "claimed" /\ job'.version = active
  BY <1>1, <1>4 DEF NoJob, Job, JobPhases, Reading, Mapped, Gone
<1>6. LocalTyped'
  BY <1>1, <1>2, <1>5, TypedByReader DEF LocalTyped
<1>7. Snapshots' /\ OneVersionEach'
  BY <1>1, <1>3, <1>5 DEF ReadingIInv, Snapshots, OneVersionEach
<1>8. ReadsRegistered'
  BY <1>1, <1>5 DEF ReadingIInv, Snapshots, ReadsRegistered, Reading, Mapped
<1>9. Signed' /\ PublishedIsRegistered'
  BY <1>1, <1>5 DEF ReadingIInv, Signed, PublishedIsRegistered, Reading, Mapped
<1> QED BY <1>6, <1>7, <1>8, <1>9 DEF Reads, ReadingIInv

LEMMA CheckLocationReads ==
    ASSUME LocalTyped, ReadingIInv, CheckLocation PROVE Reads
<1>1. /\ UNCHANGED <<files, stamp, versions, active, runs, published>> /\ Unverified
      /\ job.pc = "validating" /\ verify["worker"].pc = "parsed"
      /\ verify' = [verify EXCEPT !["worker"] = NoVerify]
      /\ \/ Bound("worker") /\ job' = [job EXCEPT !.pc = "validated"]
         \/ job' = NoJob
  BY DEF CheckLocation, Unverified, JobAt, Verifying
<1>2. CASE job' = NoJob
  BY <1>1, <1>2, Dropping
<1>3. CASE Bound("worker") /\ job' = [job EXCEPT !.pc = "validated"]
  <2>1. /\ verify' \in [Users -> Verification] /\ verify'["worker"].pc = "idle"
        /\ verify'["console"] = verify["console"]
    <3>1. "console" \in Users /\ "worker" \in Users /\ "worker" # "console"
      BY DEF Users
    <3> QED BY <1>1, <3>1, NoVerification, OneVerification
  <2>2. /\ job' \in Job /\ job'.pc = "validated" /\ job'.version = job.version
        /\ job'.raced = job.raced
    BY <1>3 DEF LocalTyped, Job, JobPhases, Reading, Mapped
  <2>3. LocalTyped'
    BY <1>1, <2>1, <2>2, TypedByReader DEF LocalTyped
  <2>4. Snapshots' /\ OneVersionEach'
    BY <1>1, <2>1, <2>2 DEF ReadingIInv, Snapshots, OneVersionEach, Users
  <2>5. verify["worker"].read.mapping = Version.registration.mapping
    BY <1>3 DEF Bound, Registration
  <2>6. ~job.raced => IsOfVersion(files.mapping)
    BY <1>1, <2>5, TheVersion DEF ReadingIInv, ReadsRegistered, IsOfVersion
  <2>7. ReadsRegistered'
    BY <1>1, <2>1, <2>2, <2>6 DEF ReadsRegistered, IsOfVersion, Reading, Mapped
  <2>8. Signed' /\ PublishedIsRegistered'
    BY <1>1, <2>2 DEF ReadingIInv, Signed, PublishedIsRegistered, Reading, Mapped
  <2> QED BY <2>3, <2>4, <2>7, <2>8 DEF Reads, ReadingIInv
<1> QED BY <1>1, <1>2, <1>3

\* The worker goes on with its job: what is left is that it reads what was registered.
LEMMA GoingOn ==
    ASSUME LocalTyped, ReadingIInv, Unverified, UNCHANGED <<verify, versions, active, runs>>,
           job.pc \notin {"idle", "validating"}, job' \in Job, job'.version = job.version
    PROVE  /\ LocalTyped' /\ Snapshots' /\ OneVersionEach' /\ PublishedIsRegistered'
           /\ verify'["worker"].pc = "idle"
           /\ published' = published /\ files' = files /\ stamp' = stamp
           /\ \A mapping : IsOfVersion(mapping) => IsOfVersion(mapping)'
<1>1. verify["worker"].pc = "idle" /\ published' = published /\ files' = files /\ stamp' = stamp
  BY DEF ReadingIInv, Snapshots, Unverified
<1>2. LocalTyped'
  BY TypedByReader DEF LocalTyped
<1>3. Snapshots' /\ OneVersionEach' /\ PublishedIsRegistered'
  BY <1>1 DEF ReadingIInv, Snapshots, OneVersionEach, PublishedIsRegistered
<1>4. \A mapping : IsOfVersion(mapping) => IsOfVersion(mapping)'
  BY DEF IsOfVersion
<1> QED BY <1>1, <1>2, <1>3, <1>4

LEMMA OpenInputReads ==
    ASSUME LocalTyped, ReadingIInv, OpenInput PROVE Reads
<1>1. /\ UNCHANGED <<verify, versions, active, runs>> /\ Unverified /\ job.pc = "validated"
      /\ \/ InputMatches /\ job' = [job EXCEPT !.pc = "opened"]
         \/ job' = NoJob
  BY DEF OpenInput, JobAt
<1>2. CASE job' = NoJob
  BY <1>1, <1>2, Dropping
<1>3. CASE InputMatches /\ job' = [job EXCEPT !.pc = "opened"]
  <2>1. /\ job' \in Job /\ job'.pc = "opened" /\ job'.version = job.version /\ job'.raced = job.raced
        /\ files.clean = job.version
    BY <1>3 DEF LocalTyped, Job, JobPhases, Reading, Mapped, InputMatches
  <2>2. ReadsRegistered' /\ Signed'
    BY <1>1, <2>1, GoingOn DEF ReadingIInv, ReadsRegistered, Signed, Reading, Mapped
  <2> QED BY <1>1, <2>1, <2>2, GoingOn DEF Reads, ReadingIInv
<1> QED BY <1>1, <1>2, <1>3

LEMMA SignInputReads ==
    ASSUME LocalTyped, ReadingIInv, SignInput PROVE Reads
<1>1. /\ UNCHANGED <<verify, versions, active, runs>> /\ Unverified /\ job.pc = "opened"
      /\ \/ job' = [job EXCEPT !.pc = "signed", !.signature = stamp]
         \/ job' = NoJob
  BY DEF SignInput, JobAt
<1>2. CASE job' = NoJob
  BY <1>1, <1>2, Dropping
<1>3. CASE job' = [job EXCEPT !.pc = "signed", !.signature = stamp]
  <2>1. stamp \in Nat
    BY DEF LocalTyped
  <2>2. /\ job' \in Job /\ job'.pc = "signed" /\ job'.version = job.version
        /\ job'.raced = job.raced /\ job'.signature = stamp
    BY <1>3, <2>1 DEF LocalTyped, Job, JobPhases, Reading, Mapped
  <2>3. ReadsRegistered' /\ Signed'
    BY <1>1, <2>1, <2>2, GoingOn DEF ReadingIInv, ReadsRegistered, Signed, Reading, Mapped
  <2> QED BY <1>1, <2>2, <2>3, GoingOn DEF Reads, ReadingIInv
<1> QED BY <1>1, <1>2, <1>3

LEMMA ReadMappingReads ==
    ASSUME LocalTyped, ReadingIInv, ReadMapping PROVE Reads
<1>1. /\ UNCHANGED <<verify, versions, active, runs>> /\ Unverified /\ job.pc = "signed"
      /\ \/ job' = [job EXCEPT !.pc = "statistics", !.mapping = files.mapping]
         \/ job' = NoJob
  BY DEF ReadMapping, JobAt
<1>2. CASE job' = NoJob
  BY <1>1, <1>2, Dropping
<1>3. CASE job' = [job EXCEPT !.pc = "statistics", !.mapping = files.mapping]
  <2>1. files.mapping \in Mappings
    BY DEF LocalTyped, FileSystem
  <2>2. /\ job' \in Job /\ job'.pc = "statistics" /\ job'.version = job.version
        /\ job'.raced = job.raced /\ job'.signature = job.signature
        /\ job'.mapping = files.mapping
    BY <1>3, <2>1 DEF LocalTyped, Job, JobPhases, Reading, Mapped
  <2>3. ReadsRegistered' /\ Signed'
    BY <1>1, <2>1, <2>2, GoingOn DEF ReadingIInv, ReadsRegistered, Signed, Reading, Mapped
  <2> QED BY <1>1, <2>2, <2>3, GoingOn DEF Reads, ReadingIInv
<1> QED BY <1>1, <1>2, <1>3

LEMMA StatisticsReads ==
    ASSUME LocalTyped, ReadingIInv, Statistics PROVE Reads
<1>1. /\ UNCHANGED <<verify, versions, active, runs>> /\ Unverified /\ job.pc = "statistics"
      /\ \/ job' = [job EXCEPT !.pc = "text", !.statistics = files.clean]
         \/ job' = NoJob
  BY DEF Statistics, JobAt
<1>2. CASE job' = NoJob
  BY <1>1, <1>2, Dropping
<1>3. CASE job' = [job EXCEPT !.pc = "text", !.statistics = files.clean]
  <2>1. files.clean \in Layer \union Gone
    BY DEF LocalTyped, FileSystem
  <2>2. /\ job' \in Job /\ job'.pc = "text" /\ job'.version = job.version /\ job'.raced = job.raced
        /\ job'.signature = job.signature /\ job'.mapping = job.mapping
        /\ job'.statistics = files.clean
    BY <1>3, <2>1 DEF LocalTyped, Job, JobPhases, Reading, Mapped
  <2>3. ReadsRegistered' /\ Signed'
    BY <1>1, <2>2, GoingOn DEF ReadingIInv, ReadsRegistered, Signed, Reading, Mapped
  <2> QED BY <1>1, <2>2, <2>3, GoingOn DEF Reads, ReadingIInv
<1> QED BY <1>1, <1>2, <1>3

LEMMA TextReads ==
    ASSUME LocalTyped, ReadingIInv, Text PROVE Reads
<1>1. /\ UNCHANGED <<verify, versions, active, runs>> /\ Unverified /\ job.pc = "text"
      /\ \/ job' = [job EXCEPT !.pc = "verify", !.text = files.clean]
         \/ job' = NoJob
  BY DEF Text, JobAt
<1>2. CASE job' = NoJob
  BY <1>1, <1>2, Dropping
<1>3. CASE job' = [job EXCEPT !.pc = "verify", !.text = files.clean]
  <2>1. files.clean \in Layer \union Gone
    BY DEF LocalTyped, FileSystem
  <2>2. /\ job' \in Job /\ job'.pc = "verify" /\ job'.version = job.version /\ job'.raced = job.raced
        /\ job'.signature = job.signature /\ job'.mapping = job.mapping
        /\ job'.statistics = job.statistics /\ job'.text = files.clean
    BY <1>3, <2>1 DEF LocalTyped, Job, JobPhases, Reading, Mapped
  <2>3. ReadsRegistered' /\ Signed'
    BY <1>1, <2>2, GoingOn DEF ReadingIInv, ReadsRegistered, Signed, Reading, Mapped
  <2> QED BY <1>1, <2>2, <2>3, GoingOn DEF Reads, ReadingIInv
<1> QED BY <1>1, <1>2, <1>3

LEMMA VerifyUnchangedReads ==
    ASSUME LocalTyped, ReadingIInv, VerifyUnchanged PROVE Reads
<1>1. /\ UNCHANGED <<verify, versions, active, runs>> /\ Unverified /\ job.pc = "verify"
      /\ \/ stamp = job.signature /\ job' = [job EXCEPT !.pc = "publish"]
         \/ job' = NoJob
  BY DEF VerifyUnchanged, Unchanged, JobAt
<1>2. CASE job' = NoJob
  BY <1>1, <1>2, Dropping
<1>3. CASE stamp = job.signature /\ job' = [job EXCEPT !.pc = "publish"]
  <2>1. /\ job' \in Job /\ job'.pc = "publish" /\ job'.version = job.version /\ job'.raced = job.raced
        /\ job'.mapping = job.mapping /\ job'.statistics = job.statistics /\ job'.text = job.text
    BY <1>3 DEF LocalTyped, Job, JobPhases, Reading, Mapped
  <2>2. ReadsRegistered' /\ Signed'
    BY <1>1, <1>3, <2>1, GoingOn DEF ReadingIInv, ReadsRegistered, Signed, Reading, Mapped
  <2> QED BY <1>1, <2>1, <2>2, GoingOn DEF Reads, ReadingIInv
<1> QED BY <1>1, <1>2, <1>3

\* The result that is published without a race is that of the registered version.
LEMMA PublishStep == ASSUME LocalIInv, Publish PROVE LocalIInv'
<1>1. LocalTyped /\ PreparationIInv /\ ReadingIInv
  BY IInvParts
<1>2. /\ UNCHANGED <<locked, files, stamp, prep, verify, versions, active, runs, hands>>
      /\ job.pc = "publish" /\ job' = NoJob
      /\ published' = [version |-> Version.registration, statistics |-> job.statistics,
                       text |-> job.text, mapping |-> job.mapping, raced |-> job.raced]
  BY DEF Publish, JobAt
<1>3. LocalTyped'
  BY <1>1, <1>2, NoJobIs DEF LocalTyped
<1>4. PreparationIInv'
  BY <1>1, <1>2, PreparationUndisturbed
<1>5. Snapshots' /\ OneVersionEach'
  BY <1>1, <1>2, NoJobIs DEF ReadingIInv, Snapshots, OneVersionEach
<1>6. ReadsRegistered'
  BY <1>1, <1>2, NoJobIs DEF ReadingIInv, Snapshots, ReadsRegistered, Reading, Mapped
<1>7. /\ Version \in versions /\ Version.registration.content = job.version
      /\ \A v \in versions : v.registration.content = job.version => v = Version
  BY <1>1, <1>2, TheVersion DEF ReadingIInv
<1>8. Signed'
  <2>1. Version.registration.mapping \in Mappings
    BY <1>1, <1>7 DEF LocalTyped, Registered
  <2> QED BY <1>2, <2>1, NoJobIs DEF Signed, Reading, Mapped
<1>9. PublishedIsRegistered'
  <2> SUFFICES ASSUME ~job.raced
               PROVE  /\ job.statistics = Version.registration.content
                      /\ job.text = Version.registration.content
                      /\ job.mapping = Version.registration.mapping
    BY <1>2 DEF PublishedIsRegistered
  <2>1. job.statistics = job.version /\ job.text = job.version /\ IsOfVersion(job.mapping)
    BY <1>1, <1>2 DEF ReadingIInv, ReadsRegistered
  <2> QED BY <1>7, <2>1 DEF IsOfVersion
<1> QED BY <1>3, <1>4, <1>5, <1>6, <1>8, <1>9 DEF LocalIInv, PreparationIInv

-----------------------------------------------------------------------------

\* A hand on a file leaves what a preparation has not written yet alone, tells the preparation,
\* and where the worker would not notice, tells the job.
LEMMA TouchStep ==
    ASSUME LocalIInv, NEW f, NEW content, Touch(f, content),
           \/ f \in Prepared /\ content \in Gone
           \/ f = "mapping" /\ content \in Mappings
    PROVE  LocalIInv'
<1>1. LocalTyped /\ PreparationIInv /\ ReadingIInv
  BY IInvParts
<1>2. /\ UNCHANGED <<locked, verify, versions, active, published, runs>>
      /\ files[f] # Missing /\ hands < MaxHands /\ hands' = hands + 1
      /\ files' = [files EXCEPT ![f] = content]
      /\ stamp' = IF f = "clean" THEN stamp + 1 ELSE stamp
      /\ prep' = IF prep.pc = "idle" THEN prep ELSE [prep EXCEPT !.untouched = FALSE]
      /\ job' = IF Unguarded(f) THEN [job EXCEPT !.raced = TRUE] ELSE job
  BY DEF Touch, At
<1>3. f \in {"raw", "clean", "report", "manifest", "mapping"}
  BY DEF Prepared
<1>4. files' \in FileSystem
  <2>1. CASE f \in Prepared /\ content \in Gone
    BY <1>1, <1>2, <2>1 DEF LocalTyped, FileSystem, Prepared
  <2>2. CASE f = "mapping" /\ content \in Mappings
    BY <1>1, <1>2, <2>2 DEF LocalTyped, FileSystem
  <2> QED BY <2>1, <2>2
<1>5. \A g \in {"raw", "clean", "report", "manifest", "mapping"} :
          files'[g] = IF g = f THEN content ELSE files[g]
  BY <1>1, <1>2 DEF LocalTyped, FileSystem
<1>6. /\ prep' \in Preparation /\ prep'.pc = prep.pc /\ prep'.clean = prep.clean
      /\ prep'.report = prep.report /\ (prep'.untouched => prep.pc = "idle" \/ prep.pc \notin Preparing)
  BY <1>1, <1>2, PhasesAre DEF LocalTyped, Preparation
<1>7. /\ job' \in Job /\ job'.pc = job.pc /\ job'.version = job.version /\ job'.mapping = job.mapping
      /\ job'.signature = job.signature /\ job'.statistics = job.statistics /\ job'.text = job.text
      /\ ~job'.raced => ~job.raced /\ ~Unguarded(f)
  <2>1. job \in Job
    BY <1>1 DEF LocalTyped
  <2>2. CASE Unguarded(f)
    BY <1>2, <2>1, <2>2 DEF Job
  <2>3. CASE ~Unguarded(f)
    BY <1>2, <2>1, <2>3
  <2> QED BY <2>2, <2>3
<1>8. LocalTyped'
  <2>1. stamp' \in Nat /\ hands' \in 0 .. MaxHands
    BY <1>1, <1>2, ParametersAre DEF LocalTyped
  <2> QED BY <1>1, <1>2, <1>4, <1>6, <1>7, <2>1 DEF LocalTyped
<1>9. NotYetWritten'
  <2>1. NotYetWritten
    BY <1>1 DEF PreparationIInv
  <2>2. prep.pc \in Preparing => files'.manifest = Missing
    BY <1>2, <1>5, <2>1 DEF NotYetWritten
  <2>3. prep.pc \in Preparing \ {"manifest"} => files'.clean = Missing
    BY <1>2, <1>5, <2>1 DEF NotYetWritten
  <2>4. prep.pc \in Preparing \ {"clean", "manifest"} => files'.report = Missing
    BY <1>2, <1>5, <2>1 DEF NotYetWritten
  <2>5. prep.pc \in {"download", "downloaded"} => files'.raw = Missing
    BY <1>2, <1>5, <2>1 DEF NotYetWritten
  <2> QED BY <1>6, <2>1, <2>2, <2>3, <2>4, <2>5 DEF NotYetWritten
<1>10. WrittenFromLocked'
  BY <1>6, PhasesAre DEF WrittenFromLocked
<1>11. VouchesForLocked'
  <2>1. VouchesForLocked
    BY <1>1 DEF PreparationIInv
  <2>2. f # "manifest" => files'.manifest = files.manifest
    BY <1>5
  <2>3. f = "manifest" => files'.manifest \in Gone
    BY <1>5, ParametersAre DEF Prepared
  <2> QED BY <1>2, <2>1, <2>2, <2>3 DEF VouchesForLocked
<1>12. Snapshots' /\ OneVersionEach' /\ Signed'
  <2>1. Snapshots' /\ OneVersionEach'
    BY <1>1, <1>2, <1>7 DEF ReadingIInv, Snapshots, OneVersionEach
  <2>2. stamp' >= stamp /\ stamp \in Nat /\ stamp' \in Nat /\ job.signature \in Nat
    BY <1>1, <1>2 DEF LocalTyped, Job
  <2>3. Signed'
    BY <1>1, <1>2, <1>7, <2>2 DEF ReadingIInv, Signed
  <2> QED BY <2>1, <2>3
<1>13. ReadsRegistered'
  <2> SUFFICES ASSUME ~job'.raced PROVE ReadsRegistered'
    BY DEF ReadsRegistered
  <2>1. /\ ReadsRegistered /\ ~job.raced /\ job.pc \notin {"validated", "opened"}
        /\ ~(job.pc \in {"validating", "signed"} /\ f = "mapping")
    BY <1>1, <1>7 DEF ReadingIInv, Unguarded
  <2>2. verify["worker"].pc = "parsed" => verify["worker"].read.mapping = files'.mapping
    <3> SUFFICES ASSUME verify["worker"].pc = "parsed"
                 PROVE  verify["worker"].read.mapping = files'.mapping
      OBVIOUS
    <3>1. job.pc = "validating"
      BY <1>1 DEF ReadingIInv, Snapshots
    <3> QED BY <1>5, <2>1, <3>1 DEF ReadsRegistered
  <2>3. IsOfVersion(job.mapping) => IsOfVersion(job.mapping)'
    BY <1>2, <1>7 DEF IsOfVersion
  <2>4. job.pc \in Reading /\ stamp' = job.signature => stamp = job.signature /\ files'.clean = files.clean
    <3>1. job.pc \in Reading => job.signature <= stamp /\ job.signature \in Nat /\ stamp \in Nat
      BY <1>1 DEF ReadingIInv, Signed, LocalTyped, Job
    <3>2. CASE f = "clean"
      BY <1>2, <3>1, <3>2
    <3>3. CASE f # "clean"
      BY <1>2, <1>5, <3>3
    <3> QED BY <3>2, <3>3
  <2>5. job.pc = "signed" => files'.mapping = files.mapping
    BY <1>5, <2>1
  <2>6. job.pc = "signed" => IsOfVersion(files.mapping)'
    BY <1>2, <1>7, <2>1, <2>5 DEF ReadsRegistered, IsOfVersion
  <2> QED BY <1>2, <1>7, <2>1, <2>2, <2>3, <2>4, <2>6 DEF ReadsRegistered
<1>14. PublishedIsRegistered'
  BY <1>1, <1>2 DEF ReadingIInv, PublishedIsRegistered
<1> QED BY <1>8, <1>9, <1>10, <1>11, <1>12, <1>13, <1>14 DEF LocalIInv

LEMMA LocalStep == ASSUME LocalIInv, [LocalNext]_localVars PROVE LocalIInv'
<1>1. LocalTyped /\ PreparationIInv /\ ReadingIInv
  BY IInvParts
<1>2. CASE Prepare
  BY <1>2, PrepareStep
<1>3. ASSUME NEW u \in Users, Hash(u) \/ Parse(u) PROVE LocalIInv'
  <2>1. Reads
    BY <1>1, <1>3, HashReads, ParseReads
  <2>2. Unverified
    BY <1>3 DEF Hash, Parse
  <2> QED BY <2>1, <2>2, ReadsKeepIInv
<1>4. CASE Register
  <2>1. Unverified
    BY <1>4 DEF Register
  <2> QED BY <1>1, <1>4, <2>1, RegisterReads, ReadsKeepIInv
<1>5. CASE Analyse
  <2>1. CASE Publish
    BY <2>1, PublishStep
  <2>2. CASE ~Publish
    <3>1. Reads
      BY <1>1, <1>5, <2>2, ClaimReads, CheckLocationReads, OpenInputReads, SignInputReads, ReadMappingReads,
         StatisticsReads, TextReads, VerifyUnchangedReads
         DEF Analyse
    <3>2. Unverified
      BY <1>5, <2>2 DEF Analyse, Claim, CheckLocation, OpenInput,
                        SignInput, ReadMapping, Statistics, Text, VerifyUnchanged
    <3> QED BY <3>1, <3>2, ReadsKeepIInv
  <2> QED BY <2>1, <2>2
<1>6. CASE Hands
  <2>1. ASSUME NEW f \in Prepared, NEW content \in {Other, Short, Missing}, Touch(f, content)
        PROVE  LocalIInv'
    BY <2>1, TouchStep DEF Gone
  <2>2. ASSUME NEW content \in Mappings, Touch("mapping", content) PROVE LocalIInv'
    BY <2>2, TouchStep
  <2> QED BY <1>6, <2>1, <2>2 DEF Hands
<1>7. CASE UNCHANGED localVars
  <2>1. UNCHANGED <<locked, files, stamp, prep, verify, versions, active, job, published, runs, hands>>
    BY <1>7 DEF localVars
  <2>2. LocalTyped'
    BY <1>1, <2>1 DEF LocalTyped
  <2>3. PreparationIInv'
    BY <1>1, <2>1, PreparationUndisturbed
  <2>4. ReadingIInv'
    BY <1>1, <2>1, ReadingUndisturbed
  <2> QED BY <2>2, <2>3, <2>4 DEF LocalIInv, PreparationIInv, ReadingIInv
<1> QED BY <1>2, <1>3, <1>4, <1>5, <1>6, <1>7 DEF LocalNext

LEMMA LocalInvariance == LocalSpec => []LocalIInv
<1>1. LocalInit => LocalIInv
  BY StartsRight
<1>2. LocalIInv /\ [LocalNext]_localVars => LocalIInv'
  BY LocalStep
<1> QED BY <1>1, <1>2, PTL DEF LocalSpec

\* A version is registered once for each content, says what a survey can use, and the survey and
\* the worker refer to one that is registered; the counters keep their bounds.
THEOREM LocalTypesAreCorrect == LocalSpec => []LocalTypeOK
<1>1. LocalIInv => LocalTypeOK
  <2> SUFFICES ASSUME LocalIInv PROVE LocalTypeOK
    OBVIOUS
  <2>1. LocalTyped /\ OneVersionEach /\ Signed
    BY DEF LocalIInv
  <2>2. \A v \in versions : IsVersion(v)
    BY <2>1 DEF LocalTyped, Registered, IsVersion
  <2>3. active \in Selectable
    BY <2>1 DEF OneVersionEach, Selectable
  <2>4. /\ runs.prepare \in 0 .. MaxPreparations /\ runs.register \in 0 .. MaxJobs /\ runs.job \in 0 .. MaxJobs
        /\ hands \in 0 .. MaxHands
    BY <2>1 DEF LocalTyped
  <2> QED BY <2>1, <2>2, <2>3, <2>4 DEF OneVersionEach, Signed, Reading, Mapped, LocalTypeOK
<1> QED BY <1>1, LocalInvariance, PTL

\* A manifest that a preparation wrote while nobody else changed a file vouches for the exact clean
\* layer of the locked rows and for a report that accounts for each of them: whatever the rows,
\* and whatever failed downloads, crashes, leftovers and changed files came before.
THEOREM ManifestsAreTrue == LocalSpec => []ManifestIsTrue
<1>1. LocalIInv => ManifestIsTrue
  <2> SUFFICES ASSUME LocalIInv, files.manifest \notin {Missing, Other, Short}, files.manifest.untouched
               PROVE  /\ files.manifest.raw = Locked
                      /\ Exact(files.manifest.clean)
                      /\ files.manifest.report.input = Len(locked)
                      /\ files.manifest.report.retained = Cardinality(DOMAIN files.manifest.clean)
                      /\ Reconciled(files.manifest.report)
    BY DEF ManifestIsTrue
  <2>1. /\ files.manifest.raw = Locked /\ files.manifest.clean = Clean(locked)
        /\ files.manifest.report = Report(locked)
    BY DEF LocalIInv, VouchesForLocked, Gone
  <2>2. locked \in Seq(FileRow)
    BY ParametersAre DEF LocalIInv, LocalTyped
  <2> QED BY <2>1, <2>2, ReportReconciles, CleanIsExact
<1> QED BY <1>1, LocalInvariance, PTL

\* Both parts of a published result come from the registered bytes, and its mapping is the
\* registered one, whatever happens to the files between the steps of the worker, unless a hand
\* touched them where the code does not look.
THEOREM ResultsAreOfTheVersion == LocalSpec => []PublishedIsRegistered
<1>1. LocalIInv => PublishedIsRegistered
  BY DEF LocalIInv
<1> QED BY <1>1, LocalInvariance, PTL

\* No step of a preparation replaces or removes a file that is there: each writes only what is
\* missing when it writes, whatever an earlier one left.
THEOREM FilesAreNeverOverwritten == LocalSpec => NothingIsOverwritten
<1> DEFINE Stays == \A f \in Prepared : files[f] # Missing /\ hands' = hands => files'[f] = files[f]
<1>1. LocalIInv /\ [LocalNext]_localVars => [Stays]_localVars
  <2> SUFFICES ASSUME LocalIInv, LocalNext, hands' = hands PROVE Stays
    BY DEF LocalNext
  <2>1. LocalTyped /\ NotYetWritten
    BY DEF LocalIInv
  <2>2. CASE files' = files
    BY <2>2
  <2>3. CASE Stream \/ DropPart
    BY <2>1, <2>3 DEF Stream, DropPart, LocalTyped, FileSystem, Prepared
  <2>4. CASE PublishRaw
    <3>1. files.raw = Missing /\ files' = [files EXCEPT !.raw = files.part, !.part = Missing]
      BY <2>1, <2>4 DEF PublishRaw, At, NotYetWritten
    <3> QED BY <2>1, <3>1 DEF LocalTyped, FileSystem, Prepared
  <2>5. CASE WriteReport
    <3>1. files.report = Missing /\ files' = [files EXCEPT !.report = prep.report]
      BY <2>1, <2>5, PhasesAre DEF WriteReport, At, NotYetWritten
    <3> QED BY <2>1, <3>1 DEF LocalTyped, FileSystem, Prepared
  <2>6. CASE PublishClean
    <3>1. files.clean = Missing /\ files' = [files EXCEPT !.clean = prep.clean]
      BY <2>1, <2>6, PhasesAre DEF PublishClean, At, NotYetWritten
    <3> QED BY <2>1, <3>1 DEF LocalTyped, FileSystem, Prepared
  <2>7. CASE WriteManifest
    <3>1. files.manifest = Missing
      BY <2>1, <2>7, PhasesAre DEF WriteManifest, At, NotYetWritten
    <3>2. CASE files' = [files EXCEPT !.manifest = Manifest]
      BY <2>1, <3>1, <3>2 DEF LocalTyped, FileSystem, Prepared
    <3> QED BY <2>2, <2>7, <3>2 DEF WriteManifest
  <2>8. CASE Hands
    <3>1. hands' = hands + 1
      BY <2>8 DEF Hands, Touch
    <3> QED BY <2>1, <3>1 DEF LocalTyped
  <2>9. CASE Begin \/ FindRaw \/ Build \/ Crash \/ Register \/ Analyse
             \/ \E u \in Users : Hash(u) \/ Parse(u)
    BY <2>2, <2>9
       DEF Begin, FindRaw, Build, Crash, Register, Analyse,
           Hash, Parse, Claim, CheckLocation, OpenInput,
           SignInput, ReadMapping, Statistics, Text, VerifyUnchanged, Publish,
           Unverified
  <2> QED BY <2>3, <2>4, <2>5, <2>6, <2>7, <2>8, <2>9 DEF LocalNext, Prepare
<1> QED BY <1>1, LocalInvariance, PTL DEF LocalSpec, NothingIsOverwritten
=============================================================================
