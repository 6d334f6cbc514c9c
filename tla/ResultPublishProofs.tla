------------------------- MODULE ResultPublishProofs -------------------------
(***************************************************************************)
(* Theorems about ResultPublish for every number of publications, replies, *)
(* definitions and disturbances: one identity has one content, what the    *)
(* node is told of its uploads is true, and without a restored backup only *)
(* superseded publications are stale.                                      *)
(***************************************************************************)
EXTENDS ResultPublish, TLAPS

-----------------------------------------------------------------------------
(* Types *)

LEMMA LargerType ==
    ASSUME NEW m \in Nat, NEW n \in Nat
    PROVE  Larger(m, n) \in Nat /\ Larger(m, n) >= m /\ Larger(m, n) >= n
BY DEF Larger

LEMMA UnpublishedType == Unpublished \in Content
BY DEF Unpublished, Content

LEMMA NewUploadType ==
    ASSUME TypeOK, NEW d \in Database
    PROVE  NextSequence(d) \in Nat /\ NewUpload(d) \in Upload
<1>1. d.cloudSeq \in Nat /\ d.localSeq \in Nat /\ d.shown \in Content /\ drawn \in Nat
  BY DEF TypeOK, Database
<1> DEFINE n == Larger(d.cloudSeq, d.localSeq)
<1>2. NextSequence(d) \in Nat
  <2>1. n \in Nat
    BY <1>1, LargerType
  <2>2. NextSequence(d) = n + 1
    BY DEF NextSequence
  <2> HIDE DEF n
  <2> QED BY <2>1, <2>2
<1>3. NewUpload(d) = [id |-> drawn + 1, seq |-> NextSequence(d), hash |-> d.shown,
                      content |-> d.shown, status |-> "pending"]
  BY DEF NewUpload
<1>4. drawn + 1 \in Nat
  BY <1>1
<1> HIDE DEF NextSequence
<1>5. NewUpload(d) \in Upload
  BY <1>1, <1>2, <1>3, <1>4 DEF Upload
<1> QED BY <1>2, <1>5

LEMMA RecordPublicationType ==
    ASSUME TypeOK, NEW d \in Database
    PROVE  RecordPublication(d) \in Database
<1>1. NextSequence(d) \in Nat /\ NewUpload(d) \in Upload
  BY NewUploadType
<1> QED BY <1>1 DEF RecordPublication, Database

LEMMA MarkType ==
    ASSUME TypeOK, NEW id \in Nat, NEW status \in {"uploaded", "stale", "failed"}, Mark(id, status)
    PROVE  node' \in Database
<1> DEFINE new(u) == IF u.id # id THEN u
                     ELSE [u EXCEPT !.status = status,
                                    !.content = IF status \in {"uploaded", "stale"} THEN None ELSE @]
<1>1. ASSUME NEW u \in Upload PROVE new(u) \in Upload
  BY <1>1 DEF Upload
<1>2. node.uploads \subseteq Upload
  BY DEF TypeOK, Database
<1>3. node' = [node EXCEPT !.uploads = {new(u) : u \in node.uploads}]
  BY DEF Mark
<1>4. {new(u) : u \in node.uploads} \subseteq Upload
  BY <1>1, <1>2
<1> HIDE DEF new
<1> QED BY <1>3, <1>4 DEF TypeOK, Database

LEMMA ApplyType ==
    ASSUME TypeOK, NEW u \in Upload, ApplyUpload(u)
    PROVE  /\ website' \in [id: Nat, seq: Nat, shown: Content]
           /\ records' \subseteq [id: Nat, seq: Nat, hash: Content]
           /\ conflicts' \subseteq Nat
<1>1. website' \in [id: Nat, seq: Nat, shown: Content]
  BY DEF TypeOK, ApplyUpload, Upload
<1>2. records' \subseteq [id: Nat, seq: Nat, hash: Content]
  BY DEF TypeOK, ApplyUpload, Upload, RecordOf
<1>3. conflicts' \subseteq Nat
  BY DEF TypeOK, ApplyUpload, Upload
<1> QED BY <1>1, <1>2, <1>3

LEMMA TypeStep == TypeOK /\ [Next]_vars => TypeOK'
<1> SUFFICES ASSUME TypeOK, [Next]_vars PROVE TypeOK'
  OBVIOUS
<1>1. CASE UNCHANGED vars
  BY <1>1 DEF TypeOK, vars
<1>2. CASE DataNext
  <2>1. survey' \in [replies: Nat, definition: Nat, released: Nat]
    BY <1>2 DEF DataNext, ReplyArrives, ReplyWritten, RepliesConfirmed, DefinitionChanges, DefinitionSynced,
         TypeOK, Database
  <2>2. node' \in Database
    <3>1. CASE ReplyWritten
      BY <3>1 DEF ReplyWritten, TypeOK, Database
    <3>2. CASE DefinitionSynced
      BY <3>2 DEF DefinitionSynced, TypeOK, Database
    <3>3. CASE node' = node
      BY <3>3 DEF TypeOK
    <3> QED BY <1>2, <3>1, <3>2, <3>3 DEF DataNext, ReplyArrives, RepliesConfirmed, DefinitionChanges
  <2>3. UNCHANGED <<website, records, conflicts, backup, cycle, late, drawn, disturbances, restored>>
    BY <1>2 DEF DataNext, ReplyArrives, ReplyWritten, RepliesConfirmed, DefinitionChanges, DefinitionSynced, cloud, counters
  <2> QED BY <2>1, <2>2, <2>3 DEF TypeOK
<1>3. CASE PublishAnalysis
  <2> DEFINE d == [node EXCEPT !.shown =
                     [at |-> drawn + 1, mark |-> node.mark, definition |-> node.definition]]
  <2>1. d \in Database
    BY DEF TypeOK, Database, Content
  <2>2. RecordPublication(d) \in Database
    BY <2>1, RecordPublicationType
  <2>3. node' = RecordPublication(d)
    BY <1>3 DEF PublishAnalysis
  <2> HIDE DEF d
  <2>4. drawn' \in Nat
    BY <1>3 DEF PublishAnalysis, TypeOK
  <2>5. UNCHANGED <<survey, website, records, conflicts, backup, cycle, late, disturbances, restored>>
    BY <1>3 DEF PublishAnalysis, cloud
  <2> QED BY <2>2, <2>3, <2>4, <2>5 DEF TypeOK
<1>4. CASE RetryFailed
  <2> DEFINE new(u) == IF u.status = "failed" THEN [u EXCEPT !.status = "pending"] ELSE u
  <2>1. ASSUME NEW u \in Upload PROVE new(u) \in Upload
    BY <2>1 DEF Upload
  <2>2. node.uploads \subseteq Upload
    BY DEF TypeOK, Database
  <2>3. {new(u) : u \in node.uploads} \subseteq Upload
    BY <2>1, <2>2
  <2>4. node' = [node EXCEPT !.uploads = {new(u) : u \in node.uploads}]
    BY <1>4 DEF RetryFailed
  <2> HIDE DEF new
  <2>5. node' \in Database
    BY <2>3, <2>4 DEF TypeOK, Database
  <2> QED BY <1>4, <2>5 DEF RetryFailed, TypeOK, cloud, counters
<1>5. CASE Backup \/ Restore
  <2>1. CASE Backup
    BY <2>1 DEF Backup, TypeOK, cloud, counters
  <2>2. CASE Restore
    <3>1. node' \in Database /\ disturbances' \in Nat /\ restored' \in BOOLEAN
      BY <2>2 DEF Restore, Disturbance, TypeOK
    <3> QED BY <2>2, <3>1 DEF Restore, TypeOK, cloud
  <2> QED BY <1>5, <2>1, <2>2
<1>6. CASE Heartbeat
  <2>1. Larger(node.cloudSeq, website.seq) \in Nat
    BY LargerType DEF TypeOK, Database
  <2>2. node' \in Database
    BY <1>6, <2>1 DEF Heartbeat, TypeOK, Database
  <2> QED BY <1>6, <2>2 DEF Heartbeat, TypeOK, cloud, counters
<1>7. CASE BackfillPublications
  <2>1. node' \in Database
    BY <1>7, RecordPublicationType DEF BackfillPublications, TypeOK
  <2>2. {u \in node'.uploads : u.status = "pending"} \subseteq Upload
    BY <2>1 DEF Database
  <2>3. drawn' \in Nat
    BY <1>7 DEF BackfillPublications, TypeOK
  <2> QED BY <1>7, <2>1, <2>2, <2>3 DEF BackfillPublications, TypeOK, cloud, counters
<1>8. ASSUME NEW u \in cycle.todo, UploadAnswered(u)
      PROVE  TypeOK'
  <2>1. u \in Upload /\ u.id \in Nat
    BY DEF TypeOK, Upload
  <2>2. StatusAfter(Answer(u)) \in {"uploaded", "stale", "failed"}
    BY DEF StatusAfter
  <2>3. node' \in Database
    BY <1>8, <2>1, <2>2, MarkType DEF UploadAnswered
  <2> QED BY <1>8, <2>1, <2>3, ApplyType DEF UploadAnswered, TypeOK, counters
<1>9. ASSUME NEW u \in cycle.todo, UploadRefused(u)
      PROVE  TypeOK'
  <2>1. u.id \in Nat
    BY DEF TypeOK, Upload
  <2>2. node' \in Database
    BY <1>9, <2>1, MarkType DEF UploadRefused
  <2> QED BY <1>9, <2>2 DEF UploadRefused, Disturbance, TypeOK, cloud, counters
<1>10. ASSUME NEW u \in cycle.todo, UploadLost(u)
       PROVE  TypeOK'
  BY <1>10 DEF UploadLost, Disturbance, TypeOK, cloud, counters
<1>11. CASE CycleEnds
  BY <1>11 DEF CycleEnds, TypeOK, cloud, counters
<1>12. ASSUME NEW u \in late, LateUpload(u)
       PROVE  TypeOK'
  BY <1>12, ApplyType DEF LateUpload, TypeOK, counters
<1> QED BY <1>1, <1>2, <1>3, <1>4, <1>5, <1>6, <1>7, <1>8, <1>9, <1>10, <1>11, <1>12 DEF Next, NodeNext, Progress

\* Rows, databases and the cycle's memory keep their shape: cloudsync/models.py,
\* cloudapi/models.py and the answer of every branch of cloudsync/results.py.
THEOREM TypeCorrect == Spec => []TypeOK
<1>1. Init => TypeOK
  <2> SUFFICES ASSUME Init PROVE TypeOK
    OBVIOUS
  <2>1. node \in Database
    BY UnpublishedType DEF Init, Database
  <2>2. website \in [id: Nat, seq: Nat, shown: Content]
    BY UnpublishedType DEF Init
  <2>3. survey \in [replies: Nat, definition: Nat, released: Nat]
    BY DEF Init
  <2>4. cycle \in [pc: {"idle", "backfill", "upload"}, todo: SUBSET Upload]
    BY DEF Init
  <2> QED BY <2>1, <2>2, <2>3, <2>4 DEF Init, TypeOK
<1> QED BY <1>1, TypeStep, PTL DEF Spec

-----------------------------------------------------------------------------
(* The life of an upload's rows *)

\* Uploads that are rows of a database, and uploads on their way.
Held == node.uploads \union backup.uploads
Sendable == cycle.todo \union late

\* What a row keeps for ever is what the website records of it.
IsSame(u, v) == RecordOf(u) = RecordOf(v)

OneRowEach(rows) == \A u, v \in rows : u.id = v.id => u = v

Unsettled(u) == u.status \in {"pending", "failed"}

LEMMA CopiesAreUploads ==
    ASSUME TypeOK
    PROVE  Held \subseteq Upload /\ Sendable \subseteq Upload /\ Copies = Held \union Sendable
BY DEF TypeOK, Database, Held, Sendable, Copies

LEMMA MarkedRows ==
    ASSUME TypeOK, NEW id \in Nat, NEW status \in {"uploaded", "stale", "failed"}, Mark(id, status),
           NEW u \in node'.uploads
    PROVE  \E v \in node.uploads :
              /\ IsSame(u, v)
              /\ \/ u = v
                 \/ v.id = id /\ u.status = status /\ (status = "failed" => u.content = v.content)
<1> DEFINE new(v) == IF v.id # id THEN v
                     ELSE [v EXCEPT !.status = status,
                                    !.content = IF status \in {"uploaded", "stale"} THEN None ELSE @]
<1>1. node' = [node EXCEPT !.uploads = {new(v) : v \in node.uploads}]
  BY DEF Mark
<1>2. node'.uploads = {new(v) : v \in node.uploads}
  <2> HIDE DEF new
  <2> QED BY <1>1 DEF TypeOK, Database
<1>3. PICK v \in node.uploads : u = new(v)
  BY <1>2
<1>4. v \in Upload
  BY DEF TypeOK, Database
<1>5. CASE v.id # id
  BY <1>3, <1>5 DEF IsSame
<1>6. CASE v.id = id
  <2>1. /\ u.id = v.id /\ u.seq = v.seq /\ u.hash = v.hash /\ u.status = status
        /\ status = "failed" => u.content = v.content
    BY <1>3, <1>4, <1>6 DEF Upload
  <2> QED BY <1>6, <2>1 DEF IsSame, RecordOf
<1> QED BY <1>5, <1>6

LEMMA RetriedRows ==
    ASSUME TypeOK, RetryFailed, NEW u \in node'.uploads
    PROVE  \E v \in node.uploads :
              /\ IsSame(u, v)
              /\ u = v \/ (v.status = "failed" /\ u.status = "pending" /\ u.content = v.content)
<1> DEFINE new(v) == IF v.status = "failed" THEN [v EXCEPT !.status = "pending"] ELSE v
<1>1. node' = [node EXCEPT !.uploads = {new(v) : v \in node.uploads}]
  BY DEF RetryFailed
<1>2. node'.uploads = {new(v) : v \in node.uploads}
  <2> HIDE DEF new
  <2> QED BY <1>1 DEF TypeOK, Database
<1>3. PICK v \in node.uploads : u = new(v)
  BY <1>2
<1>4. v \in Upload
  BY DEF TypeOK, Database
<1>5. CASE v.status # "failed"
  BY <1>3, <1>5 DEF IsSame
<1>6. CASE v.status = "failed"
  <2>1. u.id = v.id /\ u.seq = v.seq /\ u.hash = v.hash /\ u.status = "pending" /\ u.content = v.content
    BY <1>3, <1>4, <1>6 DEF Upload
  <2> QED BY <1>6, <2>1 DEF IsSame, RecordOf
<1> QED BY <1>5, <1>6

\* The upload that a publication gets, if it gets one.
LEMMA RecordedRows ==
    ASSUME TypeOK, NEW d \in Database
    PROVE  \/ RecordPublication(d) = d
           \/ /\ RecordPublication(d).uploads = d.uploads \union {NewUpload(d)}
              /\ RecordPublication(d).localSeq = NextSequence(d)
              /\ RecordPublication(d).shown = d.shown /\ RecordPublication(d).cloudSeq = d.cloudSeq
              /\ RecordPublication(d).mark = d.mark /\ RecordPublication(d).definition = d.definition
              /\ RecordPublication(d) # d
<1>1. CASE Frozen(d) \/ d.origin = "local"
  BY <1>1 DEF RecordPublication
<1>2. CASE ~(Frozen(d) \/ d.origin = "local")
  <2>1. RecordPublication(d) = [d EXCEPT !.localSeq = NextSequence(d), !.uploads = @ \union {NewUpload(d)}]
    BY <1>2 DEF RecordPublication
  <2>2. /\ RecordPublication(d).uploads = d.uploads \union {NewUpload(d)}
        /\ RecordPublication(d).localSeq = NextSequence(d)
        /\ RecordPublication(d).shown = d.shown /\ RecordPublication(d).cloudSeq = d.cloudSeq
        /\ RecordPublication(d).mark = d.mark /\ RecordPublication(d).definition = d.definition
    BY <2>1 DEF Database
  <2>3. NextSequence(d) # d.localSeq
    <3> DEFINE n == Larger(d.cloudSeq, d.localSeq)
    <3>1. n \in Nat /\ n >= d.localSeq /\ d.localSeq \in Nat
      BY LargerType DEF Database
    <3>2. NextSequence(d) = n + 1
      BY DEF NextSequence
    <3> HIDE DEF n
    <3> QED BY <3>1, <3>2
  <2> QED BY <2>2, <2>3
<1> QED BY <1>1, <1>2

\* The rows that Mark leaves alone, and one row per identity.
LEMMA UnmarkedRows ==
    ASSUME TypeOK, NEW id \in Nat, NEW status \in {"uploaded", "stale", "failed"}, Mark(id, status)
    PROVE  /\ \A u \in node.uploads : u.id # id => u \in node'.uploads
           /\ OneRowEach(node.uploads) => OneRowEach(node'.uploads)
<1> DEFINE new(v) == IF v.id # id THEN v
                     ELSE [v EXCEPT !.status = status,
                                    !.content = IF status \in {"uploaded", "stale"} THEN None ELSE @]
<1>1. node' = [node EXCEPT !.uploads = {new(v) : v \in node.uploads}]
  BY DEF Mark
<1>2. node'.uploads = {new(v) : v \in node.uploads}
  <2> HIDE DEF new
  <2> QED BY <1>1 DEF TypeOK, Database
<1>3. \A v \in node.uploads : new(v).id = v.id
  BY DEF TypeOK, Database, Upload
<1>4. \A v \in node.uploads : v.id # id => new(v) = v
  OBVIOUS
<1> HIDE DEF new
<1> QED BY <1>2, <1>3, <1>4 DEF OneRowEach

LEMMA UnfailedRows ==
    ASSUME TypeOK, RetryFailed
    PROVE  /\ \A u \in node.uploads : u.status # "failed" => u \in node'.uploads
           /\ OneRowEach(node.uploads) => OneRowEach(node'.uploads)
<1> DEFINE new(v) == IF v.status = "failed" THEN [v EXCEPT !.status = "pending"] ELSE v
<1>1. node' = [node EXCEPT !.uploads = {new(v) : v \in node.uploads}]
  BY DEF RetryFailed
<1>2. node'.uploads = {new(v) : v \in node.uploads}
  <2> HIDE DEF new
  <2> QED BY <1>1 DEF TypeOK, Database
<1>3. \A v \in node.uploads : new(v).id = v.id
  BY DEF TypeOK, Database, Upload
<1>4. \A v \in node.uploads : v.status # "failed" => new(v) = v
  OBVIOUS
<1> HIDE DEF new
<1> QED BY <1>2, <1>3, <1>4 DEF OneRowEach

-----------------------------------------------------------------------------
(* One identity, one content *)

\* What the cycle will send are pending rows of the database; nobody else settles them.
RowsInv ==
    /\ OneRowEach(node.uploads) /\ OneRowEach(backup.uploads)
    /\ cycle.pc # "upload" => cycle.todo = {}
    /\ cycle.todo \subseteq node.uploads
    /\ \A u \in cycle.todo : u.status = "pending"

\* Identities are drawn once; what is on its way is complete.
IdentityInv ==
    /\ conflicts = {}
    /\ \A u \in Copies : u.id \in 1..drawn
    /\ \A r \in records : r.id \in 1..drawn
    /\ \A u, v \in Copies : u.id = v.id => IsSame(u, v)
    /\ \A u \in Copies : \A r \in records : u.id = r.id => RecordOf(u) = r
    /\ \A u \in Held : Unsettled(u) => u.content = u.hash
    /\ \A u \in Sendable : u.content = u.hash

LEMMA IdentityKept ==
    ASSUME TypeOK, TypeOK', IdentityInv, drawn' >= drawn, conflicts' = {},
           \A u \in Copies' : \E v \in Copies : IsSame(u, v),
           \A r \in records' : r \in records \/ \E v \in Copies : r = RecordOf(v),
           \A u \in Held' : Unsettled(u) => u.content = u.hash,
           \A u \in Sendable' : u.content = u.hash
    PROVE  IdentityInv'
<1>1. \A u, v : IsSame(u, v) => u.id = v.id
  BY DEF IsSame, RecordOf
<1>2. \A u : RecordOf(u).id = u.id
  BY DEF RecordOf
<1>3. drawn \in Nat /\ drawn' \in Nat
  BY DEF TypeOK
<1>4. \A n \in 1..drawn : n \in 1..drawn'
  BY <1>3
<1>5. \A u \in Copies' : u.id \in 1..drawn'
  BY <1>1, <1>4 DEF IdentityInv
<1>6. \A r \in records' : r.id \in 1..drawn'
  BY <1>2, <1>4 DEF IdentityInv
<1>7. \A u, v \in Copies' : u.id = v.id => IsSame(u, v)
  <2> SUFFICES ASSUME NEW u \in Copies', NEW v \in Copies', u.id = v.id PROVE IsSame(u, v)
    OBVIOUS
  <2>1. PICK a \in Copies : IsSame(u, a)
    OBVIOUS
  <2>2. PICK b \in Copies : IsSame(v, b)
    OBVIOUS
  <2>3. a.id = b.id
    BY <1>1, <2>1, <2>2
  <2>4. IsSame(a, b)
    BY <2>3 DEF IdentityInv
  <2> QED BY <2>1, <2>2, <2>4 DEF IsSame
<1>8. \A u \in Copies' : \A r \in records' : u.id = r.id => RecordOf(u) = r
  <2> SUFFICES ASSUME NEW u \in Copies', NEW r \in records', u.id = r.id PROVE RecordOf(u) = r
    OBVIOUS
  <2>1. PICK a \in Copies : IsSame(u, a)
    OBVIOUS
  <2>2. CASE r \in records
    BY <1>1, <2>1, <2>2 DEF IdentityInv, IsSame
  <2>3. ASSUME NEW b \in Copies, r = RecordOf(b)
        PROVE  RecordOf(u) = r
    <3>1. a.id = b.id
      BY <1>1, <1>2, <2>1, <2>3
    <3>2. IsSame(a, b)
      BY <3>1 DEF IdentityInv
    <3> QED BY <2>1, <2>3, <3>2 DEF IsSame
  <2> QED BY <2>2, <2>3
<1> QED BY <1>5, <1>6, <1>7, <1>8 DEF IdentityInv

\* A fresh identity is nobody's yet.
LEMMA IdentityExtended ==
    ASSUME TypeOK, TypeOK', IdentityInv, NEW n, n.id = drawn + 1, n.content = n.hash,
           drawn' = drawn + 1, conflicts' = conflicts, records' = records,
           \A u \in Copies' : u \in Copies \/ u = n,
           \A u \in Held' : u \in Held \/ u = n,
           \A u \in Sendable' : u.content = u.hash
    PROVE  IdentityInv'
<1>1. drawn \in Nat
  BY DEF TypeOK
<1>2. \A u \in Copies : u.id # n.id /\ u.id \in 1..drawn'
  BY <1>1 DEF IdentityInv
<1>3. \A r \in records : r.id # n.id /\ r.id \in 1..drawn'
  BY <1>1 DEF IdentityInv
<1>4. n.id \in 1..drawn'
  BY <1>1
<1>5. \A u, v \in Copies' : u.id = v.id => IsSame(u, v)
  BY <1>2 DEF IdentityInv, IsSame
<1>6. \A u \in Copies' : \A r \in records' : u.id = r.id => RecordOf(u) = r
  BY <1>3 DEF IdentityInv
<1>7. \A u \in Held' : Unsettled(u) => u.content = u.hash
  BY DEF IdentityInv
<1> QED BY <1>2, <1>3, <1>4, <1>5, <1>6, <1>7 DEF IdentityInv

\* The website finds no conflict, and records what it receives.
LEMMA Received ==
    ASSUME TypeOK, IdentityInv, NEW u \in Sendable, ApplyUpload(u)
    PROVE  /\ conflicts' = {}
           /\ Answer(u) # "conflict"
           /\ records' = records \/ records' = records \union {RecordOf(u)}
<1>1. u \in Copies
  BY CopiesAreUploads
<1>2. Known(u) => RecordOf(u) \in records
  BY <1>1 DEF Known, IdentityInv
<1>3. Answer(u) # "conflict"
  BY <1>2 DEF Answer
<1> QED BY <1>3 DEF ApplyUpload, IdentityInv

LEMMA RowsStep == TypeOK /\ IdentityInv /\ RowsInv /\ [Next]_vars => RowsInv'
<1> SUFFICES ASSUME TypeOK, IdentityInv, RowsInv, [Next]_vars PROVE RowsInv'
  OBVIOUS
<1>fresh. \A d : \A u \in node.uploads : u.id # NewUpload(d).id
  <2>1. drawn \in Nat /\ \A u \in node.uploads : u.id \in 1..drawn
    BY DEF TypeOK, IdentityInv, Copies
  <2>2. \A d : NewUpload(d).id = drawn + 1
    BY DEF NewUpload
  <2> QED BY <2>1, <2>2
<1>1. CASE UNCHANGED vars
  BY <1>1 DEF vars, RowsInv
<1>2. CASE DataNext
  <2>1. node'.uploads = node.uploads
    BY <1>2 DEF DataNext, ReplyArrives, ReplyWritten, RepliesConfirmed, DefinitionChanges, DefinitionSynced, TypeOK,
         Database
  <2> QED BY <1>2, <2>1 DEF DataNext, ReplyArrives, ReplyWritten, RepliesConfirmed, DefinitionChanges,
             DefinitionSynced, RowsInv
<1>3. CASE PublishAnalysis
  <2> DEFINE d == [node EXCEPT !.shown = [at |-> drawn + 1, mark |-> node.mark, definition |-> node.definition]]
  <2>1. d \in Database /\ d.uploads = node.uploads
    BY DEF TypeOK, Database, Content
  <2>2. node' = RecordPublication(d) /\ UNCHANGED <<backup, cycle>>
    BY <1>3 DEF PublishAnalysis
  <2> HIDE DEF d
  <2>3. node'.uploads = node.uploads \/ node'.uploads = node.uploads \union {NewUpload(d)}
    BY <2>1, <2>2, RecordedRows
  <2> QED BY <2>2, <2>3, <1>fresh DEF RowsInv, OneRowEach
<1>4. CASE RetryFailed
  BY <1>4, UnfailedRows DEF RetryFailed, RowsInv
<1>5. CASE Backup \/ Restore
  BY <1>5 DEF Backup, Restore, RowsInv
<1>6. CASE Heartbeat
  <2>1. node'.uploads = node.uploads /\ cycle'.todo = cycle.todo /\ cycle.todo = {}
    BY <1>6 DEF Heartbeat, TypeOK, Database, RowsInv
  <2> QED BY <1>6, <2>1 DEF Heartbeat, RowsInv
<1>7. CASE BackfillPublications
  <2>1. node'.uploads = node.uploads \/ node'.uploads = node.uploads \union {NewUpload(node)}
    BY <1>7, RecordedRows DEF BackfillPublications, TypeOK
  <2>2. OneRowEach(node'.uploads)
    BY <2>1, <1>fresh DEF RowsInv, OneRowEach
  <2> QED BY <1>7, <2>2 DEF BackfillPublications, RowsInv
<1>8. ASSUME NEW u \in cycle.todo, NEW status \in {"uploaded", "stale", "failed"}, Mark(u.id, status),
             Sending(u), cycle' = [cycle EXCEPT !.todo = @ \ {u}], backup' = backup
      PROVE  RowsInv'
  <2>1. u.id \in Nat
    BY DEF TypeOK, Upload
  <2>2. cycle'.todo = cycle.todo \ {u} /\ cycle'.pc = cycle.pc /\ cycle.pc = "upload"
    BY <1>8 DEF TypeOK, Sending
  <2>3. \A v \in cycle.todo \ {u} : v.id # u.id
    BY DEF RowsInv, OneRowEach
  <2> QED BY <1>8, <2>1, <2>2, <2>3, UnmarkedRows DEF RowsInv
<1>9. ASSUME NEW u \in cycle.todo, UploadAnswered(u)
      PROVE  RowsInv'
  <2>1. StatusAfter(Answer(u)) \in {"uploaded", "stale", "failed"}
    BY DEF StatusAfter
  <2> QED BY <1>8, <1>9, <2>1 DEF UploadAnswered
<1>10. ASSUME NEW u \in cycle.todo, UploadRefused(u) \/ UploadLost(u)
       PROVE  RowsInv'
  <2>1. CASE UploadRefused(u)
    BY <1>8, <2>1 DEF UploadRefused
  <2>2. CASE UploadLost(u)
    BY <2>2 DEF UploadLost, RowsInv
  <2> QED BY <1>10, <2>1, <2>2
<1>11. CASE CycleEnds
  <2>1. cycle'.todo = {}
    BY <1>11 DEF CycleEnds, TypeOK
  <2> QED BY <1>11, <2>1 DEF CycleEnds, RowsInv
<1>12. ASSUME NEW u \in late, LateUpload(u)
       PROVE  RowsInv'
  BY <1>12 DEF LateUpload, RowsInv
<1> QED BY <1>1, <1>2, <1>3, <1>4, <1>5, <1>6, <1>7, <1>9, <1>10, <1>11, <1>12 DEF Next, NodeNext, Progress

LEMMA IdentityStep == TypeOK /\ TypeOK' /\ IdentityInv /\ RowsInv /\ [Next]_vars => IdentityInv'
<1> SUFFICES ASSUME TypeOK, TypeOK', IdentityInv, RowsInv, [Next]_vars PROVE IdentityInv'
  OBVIOUS
<1> USE DEF Copies, Held, Sendable
<1>same. \A u : IsSame(u, u)
  BY DEF IsSame
<1>nat. drawn \in Nat
  BY DEF TypeOK
<1>held. \A u \in Held : Unsettled(u) => u.content = u.hash
  BY DEF IdentityInv
<1>sent. \A u \in Sendable : u.content = u.hash
  BY DEF IdentityInv
<1>1. ASSUME UNCHANGED <<records, conflicts, drawn>>,
             node'.uploads \subseteq Held, backup'.uploads \subseteq Held, Sendable' \subseteq Sendable
      PROVE  IdentityInv'
  <2>1. conflicts' = {} /\ drawn' >= drawn
    BY <1>1, <1>nat DEF IdentityInv
  <2> QED BY <1>1, <1>same, <1>held, <1>sent, <2>1, IdentityKept
<1>2. CASE UNCHANGED vars
  BY <1>1, <1>2 DEF vars
<1>3. CASE DataNext
  <2>1. node'.uploads = node.uploads
    BY <1>3 DEF DataNext, ReplyArrives, ReplyWritten, RepliesConfirmed, DefinitionChanges, DefinitionSynced, TypeOK,
         Database
  <2> QED BY <1>1, <1>3, <2>1 DEF DataNext, ReplyArrives, ReplyWritten, RepliesConfirmed, DefinitionChanges,
             DefinitionSynced, cloud, counters
<1>4. CASE PublishAnalysis
  <2> DEFINE d == [node EXCEPT !.shown = [at |-> drawn + 1, mark |-> node.mark, definition |-> node.definition]]
  <2>1. d \in Database /\ d.uploads = node.uploads
    BY DEF TypeOK, Database, Content
  <2>2. node' = RecordPublication(d)
    BY <1>4 DEF PublishAnalysis
  <2>3. UNCHANGED <<records, conflicts, backup, cycle, late>> /\ drawn' = drawn + 1
    BY <1>4 DEF PublishAnalysis, cloud
  <2> HIDE DEF d
  <2>4. CASE node' = d
    <3>1. conflicts' = {} /\ drawn' >= drawn
      BY <2>3, <1>nat DEF IdentityInv
    <3> QED BY <2>1, <2>3, <2>4, <3>1, <1>same, <1>held, <1>sent, IdentityKept
  <2>5. CASE node'.uploads = d.uploads \union {NewUpload(d)}
    <3>1. NewUpload(d).id = drawn + 1 /\ NewUpload(d).content = NewUpload(d).hash
      BY DEF NewUpload
    <3> QED BY <2>1, <2>3, <2>5, <3>1, <1>sent, IdentityExtended
  <2> QED BY <2>1, <2>2, <2>4, <2>5, RecordedRows
<1>5. CASE RetryFailed
  <2>1. UNCHANGED <<records, conflicts, backup, cycle, late, drawn>>
    BY <1>5 DEF RetryFailed, cloud, counters
  <2>2. \A u \in node'.uploads : \E v \in node.uploads : IsSame(u, v)
    BY <1>5, RetriedRows
  <2>3. \A u \in node'.uploads : Unsettled(u) => u.content = u.hash
    <3> SUFFICES ASSUME NEW u \in node'.uploads, Unsettled(u) PROVE u.content = u.hash
      OBVIOUS
    <3>1. PICK v \in node.uploads :
             /\ IsSame(u, v)
             /\ u = v \/ (v.status = "failed" /\ u.status = "pending" /\ u.content = v.content)
      BY <1>5, RetriedRows
    <3>2. u.hash = v.hash
      BY <3>1 DEF IsSame, RecordOf
    <3> QED BY <3>1, <3>2, <1>held DEF Unsettled
  <2>4. conflicts' = {} /\ drawn' >= drawn
    BY <2>1, <1>nat DEF IdentityInv
  <2> QED BY <2>1, <2>2, <2>3, <2>4, <1>same, <1>held, <1>sent, IdentityKept
<1>6. CASE Backup \/ Restore
  BY <1>1, <1>6 DEF Backup, Restore, Disturbance, cloud, counters
<1>7. CASE Heartbeat
  <2>1. node'.uploads = node.uploads /\ cycle'.todo = cycle.todo
    BY <1>7 DEF Heartbeat, TypeOK, Database
  <2> QED BY <1>1, <1>7, <2>1 DEF Heartbeat, cloud, counters
<1>8. CASE BackfillPublications
  <2>1. UNCHANGED <<records, conflicts, backup, late>>
    BY <1>8 DEF BackfillPublications, cloud
  <2>2. cycle'.todo = {u \in node'.uploads : u.status = "pending"}
    BY <1>8 DEF BackfillPublications
  <2>3. CASE node' = node
    <3>1. drawn' = drawn
      BY <1>8, <2>3 DEF BackfillPublications
    <3>2. \A u \in Sendable' : u.content = u.hash
      BY <2>1, <2>2, <2>3, <1>held, <1>sent DEF Unsettled
    <3>3. conflicts' = {} /\ drawn' >= drawn
      BY <2>1, <3>1, <1>nat DEF IdentityInv
    <3> QED BY <2>1, <2>2, <2>3, <3>2, <3>3, <1>same, <1>held, IdentityKept
  <2>4. CASE node' # node /\ node'.uploads = node.uploads \union {NewUpload(node)}
    <3>1. drawn' = drawn + 1
      BY <1>8, <2>4 DEF BackfillPublications
    <3>2. NewUpload(node).id = drawn + 1 /\ NewUpload(node).content = NewUpload(node).hash
      BY DEF NewUpload
    <3>3. \A u \in Sendable' : u.content = u.hash
      BY <2>1, <2>2, <2>4, <3>2, <1>held, <1>sent DEF Unsettled
    <3> QED BY <2>1, <2>2, <2>4, <3>1, <3>2, <3>3, IdentityExtended
  <2>5. node \in Database
    BY DEF TypeOK
  <2> QED BY <1>8, <2>3, <2>4, <2>5, RecordedRows DEF BackfillPublications
<1>9. ASSUME NEW u \in cycle.todo, NEW status \in {"uploaded", "stale", "failed"}, Mark(u.id, status)
      PROVE  /\ \A x \in node'.uploads : \E v \in node.uploads : IsSame(x, v)
             /\ \A x \in node'.uploads : Unsettled(x) => x.content = x.hash
  <2>1. u.id \in Nat
    BY DEF TypeOK, Upload
  <2>2. ASSUME NEW x \in node'.uploads, Unsettled(x)
        PROVE  x.content = x.hash
    <3>1. PICK v \in node.uploads :
             /\ IsSame(x, v)
             /\ \/ x = v
                \/ v.id = u.id /\ x.status = status /\ (status = "failed" => x.content = v.content)
      BY <1>9, <2>1, MarkedRows
    <3>2. x.hash = v.hash
      BY <3>1 DEF IsSame, RecordOf
    <3>3. v.id = u.id => v = u /\ Unsettled(v)
      BY DEF RowsInv, OneRowEach, Unsettled
    <3> QED BY <2>2, <3>1, <3>2, <3>3, <1>held DEF Unsettled
  <2> QED BY <1>9, <2>1, <2>2, MarkedRows
<1>10. ASSUME NEW u \in cycle.todo, UploadAnswered(u)
       PROVE  IdentityInv'
  <2>1. StatusAfter(Answer(u)) \in {"uploaded", "stale", "failed"}
    BY DEF StatusAfter
  <2>2. /\ \A x \in node'.uploads : \E v \in node.uploads : IsSame(x, v)
        /\ \A x \in node'.uploads : Unsettled(x) => x.content = x.hash
    BY <1>9, <1>10, <2>1 DEF UploadAnswered
  <2>3. u \in Sendable /\ ApplyUpload(u)
    BY <1>10 DEF UploadAnswered
  <2>4. UNCHANGED <<backup, late, drawn>> /\ cycle'.todo \subseteq cycle.todo
    BY <1>10 DEF UploadAnswered, counters, TypeOK
  <2>5. conflicts' = {} /\ (records' = records \/ records' = records \union {RecordOf(u)})
    BY <2>3, Received
  <2>6. drawn' >= drawn
    BY <2>4, <1>nat
  <2> QED BY <2>2, <2>3, <2>4, <2>5, <2>6, <1>same, <1>held, <1>sent, IdentityKept
<1>11. ASSUME NEW u \in cycle.todo, UploadRefused(u)
       PROVE  IdentityInv'
  <2>1. /\ \A x \in node'.uploads : \E v \in node.uploads : IsSame(x, v)
        /\ \A x \in node'.uploads : Unsettled(x) => x.content = x.hash
    BY <1>9, <1>11 DEF UploadRefused
  <2>2. UNCHANGED <<backup, late, drawn, records, conflicts>> /\ cycle'.todo \subseteq cycle.todo
    BY <1>11 DEF UploadRefused, cloud, TypeOK
  <2>3. conflicts' = {} /\ drawn' >= drawn
    BY <2>2, <1>nat DEF IdentityInv
  <2> QED BY <2>1, <2>2, <2>3, <1>same, <1>held, <1>sent, IdentityKept
<1>12. ASSUME NEW u \in cycle.todo, UploadLost(u)
       PROVE  IdentityInv'
  BY <1>1, <1>12 DEF UploadLost, cloud
<1>13. CASE CycleEnds
  <2>1. cycle'.todo = cycle.todo
    BY <1>13 DEF CycleEnds, TypeOK
  <2> QED BY <1>1, <1>13, <2>1 DEF CycleEnds, cloud, counters
<1>14. ASSUME NEW u \in late, LateUpload(u)
       PROVE  IdentityInv'
  <2>1. u \in Sendable /\ ApplyUpload(u)
    BY <1>14 DEF LateUpload
  <2>2. UNCHANGED <<node, backup, cycle, drawn>> /\ late' \subseteq late
    BY <1>14 DEF LateUpload, counters
  <2>3. conflicts' = {} /\ (records' = records \/ records' = records \union {RecordOf(u)})
    BY <2>1, Received
  <2>4. drawn' >= drawn
    BY <2>2, <1>nat
  <2> QED BY <2>1, <2>2, <2>3, <2>4, <1>same, <1>held, <1>sent, IdentityKept
<1> QED BY <1>2, <1>3, <1>4, <1>5, <1>6, <1>7, <1>8, <1>10, <1>11, <1>12, <1>13, <1>14 DEF Next, NodeNext, Progress

LEMMA IdentityAtFirst == Init => IdentityInv /\ RowsInv
<1> SUFFICES ASSUME Init PROVE IdentityInv /\ RowsInv
  OBVIOUS
<1>1. node.uploads = {} /\ backup.uploads = {} /\ cycle.todo = {} /\ late = {} /\ records = {} /\ conflicts = {}
  BY DEF Init
<1> QED BY <1>1 DEF IdentityInv, RowsInv, OneRowEach, Copies, Held, Sendable

LEMMA IdentityHolds == Spec => [](IdentityInv /\ RowsInv)
<1>1. TypeOK /\ TypeOK' /\ (IdentityInv /\ RowsInv) /\ [Next]_vars => (IdentityInv /\ RowsInv)'
  BY IdentityStep, RowsStep
<1> QED BY <1>1, IdentityAtFirst, TypeCorrect, PTL DEF Spec

\* An upload's number and content are decided once (cloudsync/results.py:3): no resend,
\* retry or restored backup makes the website see an identity used for two things.
THEOREM IdentityCorrect == Spec => []IdentityIsFrozen
<1>1. IdentityInv => IdentityIsFrozen
  BY DEF IdentityInv, IdentityIsFrozen, IsSame, Unsettled, Held, Sendable, Copies
<1> QED BY <1>1, IdentityHolds, PTL

-----------------------------------------------------------------------------
(* What the website shows *)

\* What the website shows has the number of u or a later one, and is not of older data.
Covered(u) ==
    /\ website.seq >= u.seq /\ website.shown.mark >= u.hash.mark
    /\ website.shown.definition >= u.hash.definition

DisplayInv ==
    /\ \/ website = [id |-> 0, seq |-> 0, shown |-> Unpublished]
       \/ [id |-> website.id, seq |-> website.seq, hash |-> website.shown] \in records
    /\ \A u \in Held : u.status = "uploaded" => Covered(u)
    /\ \A u \in Held : u.status = "stale" => RecordOf(u) \in records /\ website.id # u.id

Numbered == records \union {RecordOf(u) : u \in node.uploads \union late}

\* Without a restored backup a later number stands for data at least as new.
NumbersInv ==
    /\ \A r \in Numbered :
          /\ r.seq \in 1..node.localSeq
          /\ r.hash.mark <= node.shown.mark /\ r.hash.definition <= node.shown.definition
    /\ \A r, s \in Numbered :
          /\ r.seq = s.seq => r.id = s.id
          /\ r.seq < s.seq => r.hash.mark <= s.hash.mark /\ r.hash.definition <= s.hash.definition
    /\ node.shown.mark <= node.mark
    /\ node.shown.definition <= node.definition /\ node.definition <= survey.definition

SupersededInv ==
    /\ \A r \in records : r.seq <= website.seq
    /\ \A u \in node.uploads : u.status = "stale" => website.seq > u.seq

OrderInv == ~restored => NumbersInv /\ SupersededInv

\* The website's numbers only grow, what it answers is what it shows, and it remembers.
LEMMA Displayed ==
    ASSUME TypeOK, IdentityInv, DisplayInv, NEW u \in Sendable, ApplyUpload(u)
    PROVE  /\ records \subseteq records'
           /\ \/ website' = website
              \/ website' = [id |-> u.id, seq |-> u.seq, shown |-> u.hash] /\ Newer(u) /\ ~Known(u)
           /\ \/ website' = [id |-> 0, seq |-> 0, shown |-> Unpublished]
              \/ [id |-> website'.id, seq |-> website'.seq, hash |-> website'.shown] \in records'
           /\ Answer(u) \in {"applied", "stale"} => RecordOf(u) \in records'
           /\ Answer(u) = "applied" => website' = [id |-> u.id, seq |-> u.seq, shown |-> u.hash]
           /\ Answer(u) = "stale" => website'.id # u.id
<1> DEFINE w == [id |-> website.id, seq |-> website.seq, hash |-> website.shown]
<1>1. u \in Upload /\ u \in Copies
  BY CopiesAreUploads
<1>2. u.id # 0
  <2>1. u.id \in 1..drawn
    BY <1>1 DEF IdentityInv
  <2> QED BY <2>1 DEF TypeOK
<1>3. RecordOf(u) = [id |-> u.id, seq |-> u.seq, hash |-> u.hash]
  BY DEF RecordOf
<1>4. website = [id |-> website.id, seq |-> website.seq, shown |-> website.shown]
  BY DEF TypeOK
<1>5. website.id # 0 => w \in records
  BY DEF DisplayInv
<1>6. CASE Valid(u) /\ ~Known(u)
  <2>1. records' = records \union {RecordOf(u)}
    BY <1>6 DEF ApplyUpload
  <2>2. website.id # u.id
    BY <1>2, <1>5, <1>6 DEF Known
  <2>unseen. RecordOf(u) \notin records
    BY <1>3, <1>6 DEF Known
  <2>3. CASE Newer(u)
    <3>1. website' = [id |-> u.id, seq |-> u.seq, shown |-> u.hash]
      BY <1>6, <2>3 DEF ApplyUpload
    <3>2. Answer(u) = "applied"
      BY <1>6, <2>3, <2>unseen DEF Answer
    <3> QED BY <1>3, <1>6, <2>1, <2>3, <3>1, <3>2
  <2>4. CASE ~Newer(u)
    <3>1. website' = website
      BY <1>6, <2>4 DEF ApplyUpload
    <3>2. Answer(u) = "stale"
      BY <1>6, <2>4, <2>unseen DEF Answer
    <3> QED BY <2>1, <2>2, <3>1, <3>2 DEF DisplayInv
  <2> QED BY <2>3, <2>4
<1>7. CASE ~(Valid(u) /\ ~Known(u))
  <2>1. records' = records /\ website' = website
    BY <1>7 DEF ApplyUpload
  <2>2. Answer(u) \in {"applied", "stale"} => RecordOf(u) \in records
    BY <1>7 DEF Answer
  <2>3. Answer(u) = "stale" => website.id # u.id
    BY <1>7 DEF Answer
  <2>4. ASSUME Answer(u) = "applied"
        PROVE  website = [id |-> u.id, seq |-> u.seq, shown |-> u.hash]
    <3>1. website.id = u.id
      BY <1>7, <2>4 DEF Answer
    <3>2. w \in records /\ u.id = w.id
      BY <1>2, <1>5, <3>1
    <3>3. RecordOf(u) = w
      BY <1>1, <3>2 DEF IdentityInv
    <3>4. u.seq = website.seq /\ u.hash = website.shown
      BY <1>3, <3>3
    <3> QED BY <1>4, <3>1, <3>4
  <2> QED BY <2>1, <2>2, <2>3, <2>4 DEF DisplayInv
<1> QED BY <1>6, <1>7

\* What is covered stays covered.
LEMMA CoveredStays ==
    ASSUME TypeOK, IdentityInv, DisplayInv, NEW u \in Sendable, ApplyUpload(u), NEW v \in Upload, Covered(v)
    PROVE  Covered(v)'
<1>1. CASE website' = website
  BY <1>1 DEF Covered
<1>2. CASE website' = [id |-> u.id, seq |-> u.seq, shown |-> u.hash] /\ Newer(u)
  <2>1. u \in Upload
    BY CopiesAreUploads
  <2> QED BY <1>2, <2>1 DEF Covered, Newer, TypeOK, Upload, Content
<1> QED BY <1>1, <1>2, Displayed

\* A step that receives nothing keeps the display's invariant if no row is settled by it.
LEMMA DisplayKept ==
    ASSUME DisplayInv, website' = website, records' = records,
           \A u \in Held' : u.status \in {"uploaded", "stale"} => u \in Held
    PROVE  DisplayInv'
BY DEF DisplayInv, Covered

LEMMA DisplayReceived ==
    ASSUME TypeOK, IdentityInv, DisplayInv, NEW u \in Sendable, ApplyUpload(u),
           NEW x \in Held, x.status \in {"uploaded", "stale"}
    PROVE  /\ x.status = "uploaded" => Covered(x)'
           /\ x.status = "stale" => RecordOf(x) \in records' /\ website'.id # x.id
<1>1. x \in Upload
  BY CopiesAreUploads
<1>2. x.status = "uploaded" => Covered(x)'
  BY <1>1, CoveredStays DEF DisplayInv
<1>3. ASSUME x.status = "stale" PROVE RecordOf(x) \in records' /\ website'.id # x.id
  <2>1. RecordOf(x) \in records /\ website.id # x.id
    BY <1>3 DEF DisplayInv
  <2>2. RecordOf(x).id = x.id
    BY DEF RecordOf
  <2>3. ~Known(u) => x.id # u.id
    BY <2>1, <2>2 DEF Known
  <2>4. RecordOf(x) \in records'
    BY <2>1, Displayed
  <2>5. website' = website \/ (website'.id = u.id /\ ~Known(u))
    BY Displayed
  <2> QED BY <2>1, <2>3, <2>4, <2>5
<1> QED BY <1>2, <1>3

\* Marking the upload that was answered with what the website now shows.
LEMMA DisplayMarked ==
    ASSUME TypeOK, IdentityInv, DisplayInv, NEW u \in cycle.todo, UploadAnswered(u), NEW x \in node'.uploads
    PROVE  /\ x.status = "uploaded" => Covered(x)'
           /\ x.status = "stale" => RecordOf(x) \in records' /\ website'.id # x.id
<1> DEFINE status == StatusAfter(Answer(u))
<1>1. u \in Sendable /\ u \in Upload /\ u.id \in Nat /\ ApplyUpload(u) /\ Mark(u.id, status)
  BY CopiesAreUploads DEF UploadAnswered, Sendable, Upload
<1>2. /\ status \in {"uploaded", "stale", "failed"}
      /\ status = "uploaded" => Answer(u) = "applied"
      /\ status = "stale" => Answer(u) = "stale"
  BY DEF StatusAfter
<1> HIDE DEF status
<1>3. PICK v \in node.uploads :
         /\ IsSame(x, v)
         /\ \/ x = v
            \/ v.id = u.id /\ x.status = status /\ (status = "failed" => x.content = v.content)
  BY <1>1, <1>2, MarkedRows
<1>4. CASE x = v
  <2>1. x \in Held
    BY <1>4 DEF Held
  <2> QED BY <1>1, <2>1, DisplayReceived
<1>5. CASE v.id = u.id /\ x.status = status
  <2>1. IsSame(v, u)
    BY <1>1, <1>5 DEF IdentityInv, Copies, Sendable
  <2>2. RecordOf(x) = RecordOf(u)
    BY <1>3, <2>1 DEF IsSame
  <2>3. x.id = u.id /\ x.seq = u.seq /\ x.hash = u.hash
    BY <2>2 DEF RecordOf
  <2>4. ASSUME x.status = "uploaded" PROVE Covered(x)'
    <3>1. website' = [id |-> u.id, seq |-> u.seq, shown |-> u.hash]
      BY <1>1, <1>2, <1>5, <2>4, Displayed
    <3>2. Covered(x)' <=> /\ website'.seq >= x.seq /\ website'.shown.mark >= x.hash.mark
                          /\ website'.shown.definition >= x.hash.definition
      BY DEF Covered
    <3> QED BY <1>1, <2>3, <3>1, <3>2 DEF Upload, Content
  <2>5. ASSUME x.status = "stale" PROVE RecordOf(x) \in records' /\ website'.id # x.id
    BY <1>1, <1>2, <1>5, <2>2, <2>3, <2>5, Displayed
  <2> QED BY <2>4, <2>5
<1> QED BY <1>3, <1>4, <1>5

LEMMA DisplayStep == TypeOK /\ IdentityInv /\ RowsInv /\ DisplayInv /\ [Next]_vars => DisplayInv'
<1> SUFFICES ASSUME TypeOK, IdentityInv, RowsInv, DisplayInv, [Next]_vars PROVE DisplayInv'
  OBVIOUS
<1> DEFINE settled == {"uploaded", "stale"}
<1>1. ASSUME UNCHANGED <<website, records>>, backup'.uploads \subseteq Held,
             \A x \in node'.uploads : x.status \in settled => x \in Held
      PROVE  DisplayInv'
  <2>1. \A x \in Held' : x.status \in settled => x \in Held
    BY <1>1 DEF Held
  <2> QED BY <1>1, <2>1, DisplayKept
<1>2. CASE UNCHANGED vars
  BY <1>1, <1>2 DEF vars, Held
<1>3. CASE DataNext
  <2>1. node'.uploads = node.uploads
    BY <1>3 DEF DataNext, ReplyArrives, ReplyWritten, RepliesConfirmed, DefinitionChanges, DefinitionSynced, TypeOK,
         Database
  <2>2. UNCHANGED <<website, records, backup>>
    BY <1>3 DEF DataNext, ReplyArrives, ReplyWritten, RepliesConfirmed, DefinitionChanges, DefinitionSynced, cloud
  <2> QED BY <1>1, <2>1, <2>2 DEF Held
<1>4. ASSUME NEW d \in Database, d.uploads = node.uploads, node' \in {d, RecordPublication(d)},
             UNCHANGED <<website, records, backup>>
      PROVE  DisplayInv'
  <2>1. node'.uploads = node.uploads \/ node'.uploads = node.uploads \union {NewUpload(d)}
    BY <1>4, RecordedRows
  <2>2. NewUpload(d).status = "pending"
    BY DEF NewUpload
  <2> QED BY <1>1, <1>4, <2>1, <2>2 DEF Held
<1>5. CASE PublishAnalysis
  <2> DEFINE d == [node EXCEPT !.shown = [at |-> drawn + 1, mark |-> node.mark, definition |-> node.definition]]
  <2>1. d \in Database /\ d.uploads = node.uploads
    BY DEF TypeOK, Database, Content
  <2>2. node' = RecordPublication(d) /\ UNCHANGED <<website, records, backup>>
    BY <1>5 DEF PublishAnalysis, cloud
  <2> HIDE DEF d
  <2> QED BY <1>4, <2>1, <2>2
<1>6. CASE RetryFailed
  <2>1. \A x \in node'.uploads : x.status \in settled => x \in node.uploads
    BY <1>6, RetriedRows
  <2> QED BY <1>1, <1>6, <2>1 DEF RetryFailed, cloud, Held
<1>7. CASE Backup \/ Restore
  BY <1>1, <1>7 DEF Backup, Restore, cloud, Held
<1>8. CASE Heartbeat
  <2>1. node'.uploads = node.uploads
    BY <1>8 DEF Heartbeat, TypeOK, Database
  <2> QED BY <1>1, <1>8, <2>1 DEF Heartbeat, cloud, Held
<1>9. CASE BackfillPublications
  BY <1>4, <1>9 DEF BackfillPublications, cloud, TypeOK
<1>10. ASSUME NEW u \in cycle.todo, UploadAnswered(u)
       PROVE  DisplayInv'
  <2>1. u \in Sendable /\ ApplyUpload(u) /\ backup' = backup
    BY <1>10 DEF UploadAnswered, Sendable
  <2>2. \A x \in Held' : /\ x.status = "uploaded" => Covered(x)'
                         /\ x.status = "stale" => RecordOf(x) \in records' /\ website'.id # x.id
    BY <1>10, <2>1, DisplayMarked, DisplayReceived DEF Held
  <2> QED BY <2>1, <2>2, Displayed DEF DisplayInv
<1>11. ASSUME NEW u \in cycle.todo, UploadRefused(u) \/ UploadLost(u)
       PROVE  DisplayInv'
  <2>1. CASE UploadRefused(u)
    <3>1. u.id \in Nat
      BY DEF TypeOK, Upload
    <3>2. \A x \in node'.uploads : x.status \in settled => x \in node.uploads
      BY <2>1, <3>1, MarkedRows DEF UploadRefused
    <3> QED BY <1>1, <2>1, <3>2 DEF UploadRefused, cloud, Held
  <2>2. CASE UploadLost(u)
    BY <1>1, <2>2 DEF UploadLost, cloud, Held
  <2> QED BY <1>11, <2>1, <2>2
<1>12. CASE CycleEnds
  BY <1>1, <1>12 DEF CycleEnds, cloud, Held
<1>13. ASSUME NEW u \in late, LateUpload(u)
       PROVE  DisplayInv'
  <2>1. u \in Sendable /\ ApplyUpload(u) /\ UNCHANGED <<node, backup>>
    BY <1>13 DEF LateUpload, Sendable
  <2>2. \A x \in Held' : /\ x.status = "uploaded" => Covered(x)'
                         /\ x.status = "stale" => RecordOf(x) \in records' /\ website'.id # x.id
    BY <2>1, DisplayReceived DEF Held
  <2> QED BY <2>1, <2>2, Displayed DEF DisplayInv
<1> QED BY <1>2, <1>3, <1>5, <1>6, <1>7, <1>8, <1>9, <1>10, <1>11, <1>12, <1>13 DEF Next, NodeNext, Progress

LEMMA DisplayHolds == Spec => [](IdentityInv /\ RowsInv /\ DisplayInv)
<1>1. Init => DisplayInv
  BY DEF Init, DisplayInv, Held
<1> QED BY <1>1, DisplayStep, IdentityHolds, TypeCorrect, PTL DEF Spec

\* The node is told the truth about its uploads (cloudapi/results.py:116-189): what is
\* acknowledged was shown and only gave way to newer data, what is stale is not shown.
THEOREM AcknowledgementCorrect == Spec => []AcknowledgementIsTrue
<1>1. DisplayInv => AcknowledgementIsTrue
  BY DEF DisplayInv, AcknowledgementIsTrue, Covered, Held
<1> QED BY <1>1, DisplayHolds, PTL

-----------------------------------------------------------------------------
(* The order of the numbers *)

Numbering == [id: Nat, seq: Nat, hash: Content]

LEMMA NumberedType ==
    ASSUME TypeOK
    PROVE  Numbered \subseteq Numbering
BY DEF TypeOK, Numbered, Numbering, RecordOf, Upload, Database

LEMMA NumbersKept ==
    ASSUME TypeOK, NumbersInv, Numbered' \subseteq Numbered, node' \in Database,
           node'.localSeq = node.localSeq, node'.shown = node.shown, node'.mark >= node.mark,
           survey' \in [replies: Nat, definition: Nat, released: Nat],
           node'.definition >= node.definition, survey'.definition >= node'.definition
    PROVE  NumbersInv'
<1>1. \A r \in Numbered' :
         /\ r.seq \in 1..node'.localSeq
         /\ r.hash.mark <= node'.shown.mark /\ r.hash.definition <= node'.shown.definition
  BY DEF NumbersInv
<1>2. \A r, s \in Numbered' :
         /\ r.seq = s.seq => r.id = s.id
         /\ r.seq < s.seq => r.hash.mark <= s.hash.mark /\ r.hash.definition <= s.hash.definition
  BY DEF NumbersInv
<1>3. /\ node'.shown.mark <= node'.mark
      /\ node'.shown.definition <= node'.definition /\ node'.definition <= survey'.definition
  BY DEF NumbersInv, TypeOK, Database, Content
<1> QED BY <1>1, <1>2, <1>3 DEF NumbersInv

\* A publication is of data at least as new as what was published before, and its number
\* is the largest there is.
LEMMA NumbersExtended ==
    ASSUME TypeOK, NumbersInv, NEW d \in Database, d.uploads = node.uploads,
           d.localSeq = node.localSeq, d.mark = node.mark, d.definition = node.definition,
           d.shown.mark \in node.shown.mark..node.mark,
           d.shown.definition \in node.shown.definition..node.definition,
           node' = RecordPublication(d), UNCHANGED <<records, late, survey>>
    PROVE  NumbersInv'
<1> DEFINE n == RecordOf(NewUpload(d))
<1>1. n.seq = NextSequence(d) /\ n.hash = d.shown /\ n.id = drawn + 1
  BY DEF RecordOf, NewUpload
<1>2. NextSequence(d) \in Nat /\ NextSequence(d) > node.localSeq
  <2> DEFINE m == Larger(d.cloudSeq, d.localSeq)
  <2>1. m \in Nat /\ m >= node.localSeq /\ node.localSeq \in Nat
    BY LargerType DEF Database
  <2>2. NextSequence(d) = m + 1
    BY DEF NextSequence
  <2> HIDE DEF m
  <2> QED BY <2>1, <2>2
<1>3. Numbered \subseteq Numbering
  BY NumberedType
<1>4. /\ d.shown.mark \in Nat /\ d.shown.definition \in Nat /\ node.localSeq \in Nat
      /\ node.shown.mark \in Nat /\ node.shown.definition \in Nat
      /\ node.mark \in Nat /\ node.definition \in Nat
  BY DEF TypeOK, Database, Content
<1>5. CASE node' = d
  <2>1. Numbered' = Numbered
    BY <1>5 DEF Numbered
  <2>2. \A r \in Numbered : r.hash.mark \in Nat /\ r.hash.definition \in Nat
    BY <1>3 DEF Numbering, Content
  <2>3. \A r \in Numbered' : /\ r.seq \in 1..node'.localSeq
                             /\ r.hash.mark <= node'.shown.mark
                             /\ r.hash.definition <= node'.shown.definition
    BY <1>4, <1>5, <2>1, <2>2 DEF NumbersInv
  <2> QED BY <1>4, <1>5, <2>1, <2>3 DEF NumbersInv
<1>6. CASE /\ node'.uploads = d.uploads \union {NewUpload(d)}
           /\ node'.localSeq = NextSequence(d) /\ node'.shown = d.shown
           /\ node'.mark = d.mark /\ node'.definition = d.definition
  <2>1. Numbered' \subseteq Numbered \union {n}
    BY <1>6 DEF Numbered
  <2>2. \A r \in Numbered : /\ r.seq \in Nat /\ r.hash.mark \in Nat /\ r.hash.definition \in Nat
                            /\ r.seq >= 1 /\ r.seq <= node.localSeq
                            /\ r.hash.mark <= node.shown.mark
                            /\ r.hash.definition <= node.shown.definition
    BY <1>3, <1>4 DEF NumbersInv, Numbering, Content
  <2>3. \A r \in Numbered : /\ r.seq < n.seq /\ r.hash.mark <= n.hash.mark
                            /\ r.hash.definition <= n.hash.definition
    BY <1>1, <1>2, <1>4, <2>2
  <2>4. n.seq \in Nat /\ n.seq >= 1 /\ n.hash.mark \in Nat /\ n.hash.definition \in Nat
    BY <1>1, <1>2, <1>4
  <2> HIDE DEF n
  <2>5. \A r \in Numbered' : /\ r.seq \in 1..node'.localSeq
                             /\ r.hash.mark <= node'.shown.mark
                             /\ r.hash.definition <= node'.shown.definition
    BY <1>1, <1>6, <2>1, <2>2, <2>3, <2>4
  <2>6. \A r, s \in Numbered' :
           /\ r.seq = s.seq => r.id = s.id
           /\ r.seq < s.seq => r.hash.mark <= s.hash.mark /\ r.hash.definition <= s.hash.definition
    <3> SUFFICES ASSUME NEW r \in Numbered', NEW s \in Numbered'
                 PROVE  /\ r.seq = s.seq => r.id = s.id
                        /\ r.seq < s.seq => r.hash.mark <= s.hash.mark /\ r.hash.definition <= s.hash.definition
      OBVIOUS
    <3>1. CASE r \in Numbered /\ s \in Numbered
      BY <3>1 DEF NumbersInv
    <3>2. CASE r \in Numbered /\ s = n
      BY <2>2, <2>3, <2>4, <3>2
    <3>3. CASE r = n /\ s \in Numbered
      BY <2>2, <2>3, <2>4, <3>3
    <3>4. CASE r = n /\ s = n
      BY <2>4, <3>4
    <3> QED BY <2>1, <3>1, <3>2, <3>3, <3>4
  <2> QED BY <1>4, <1>6, <2>5, <2>6 DEF NumbersInv
<1> QED BY <1>5, <1>6, RecordedRows

\* What the website receives in the order of its numbers is stale only if a later number
\* is shown.
LEMMA SupersededReceived ==
    ASSUME TypeOK, TypeOK', IdentityInv, DisplayInv, NumbersInv, SupersededInv,
           NEW u \in Sendable, RecordOf(u) \in Numbered, ApplyUpload(u)
    PROVE  /\ \A r \in records' : r.seq <= website'.seq
           /\ website'.seq >= website.seq
           /\ Answer(u) = "stale" => website'.seq > u.seq
<1> DEFINE w == [id |-> website.id, seq |-> website.seq, hash |-> website.shown]
<1>1. u \in Upload /\ u \in Copies
  BY CopiesAreUploads
<1>2. /\ u.id \in Nat /\ u.seq \in Nat /\ u.hash.mark \in Nat /\ u.hash.definition \in Nat
      /\ website.seq \in Nat /\ website.id \in Nat
      /\ website.shown.mark \in Nat /\ website.shown.definition \in Nat
  BY <1>1 DEF TypeOK, Upload, Content
<1>3. RecordOf(u) = [id |-> u.id, seq |-> u.seq, hash |-> u.hash]
  BY DEF RecordOf
<1>4. u.seq >= 1
  <2>1. RecordOf(u).seq \in 1..node.localSeq
    BY DEF NumbersInv
  <2> QED BY <1>2, <1>3, <2>1 DEF TypeOK, Database
<1>5. website = [id |-> 0, seq |-> 0, shown |-> Unpublished] \/ w \in records
  BY DEF DisplayInv
<1>6. w \in records => /\ u.seq = website.seq => u.id = website.id
                       /\ website.seq < u.seq =>
                             website.shown.mark <= u.hash.mark /\ website.shown.definition <= u.hash.definition
  <2> SUFFICES ASSUME w \in records
               PROVE  /\ u.seq = website.seq => u.id = website.id
                      /\ website.seq < u.seq =>
                            website.shown.mark <= u.hash.mark /\ website.shown.definition <= u.hash.definition
    OBVIOUS
  <2>1. w \in Numbered /\ w.seq = website.seq /\ w.id = website.id /\ w.hash = website.shown
    BY DEF Numbered
  <2>2. /\ RecordOf(u).seq = w.seq => RecordOf(u).id = w.id
        /\ w.seq < RecordOf(u).seq => /\ w.hash.mark <= RecordOf(u).hash.mark
                                      /\ w.hash.definition <= RecordOf(u).hash.definition
    BY <2>1 DEF NumbersInv
  <2> QED BY <1>3, <2>1, <2>2
<1>7. website.seq < u.seq => Newer(u)
  BY <1>2, <1>5, <1>6 DEF Newer, Unpublished
<1>8. CASE Valid(u) /\ ~Known(u)
  <2>1. records' = records \union {RecordOf(u)}
    BY <1>8 DEF ApplyUpload
  <2>2. w \in records => website.id # u.id
    BY <1>8 DEF Known
  <2>3. CASE Newer(u)
    <3>1. website' = [id |-> u.id, seq |-> u.seq, shown |-> u.hash]
      BY <1>8, <2>3 DEF ApplyUpload
    <3>2. website'.seq = u.seq /\ website.seq < u.seq
      BY <2>3, <3>1 DEF Newer, TypeOK, Upload
    <3>3. Answer(u) # "stale"
      <4>1. RecordOf(u) \notin records
        BY <1>3, <1>8 DEF Known
      <4> QED BY <1>8, <2>3, <4>1 DEF Answer
    <3>4. \A r \in records : r.seq \in Nat /\ r.seq <= website.seq
      BY DEF SupersededInv, TypeOK
    <3>5. RecordOf(u).seq = u.seq
      BY <1>3
    <3> QED BY <1>2, <2>1, <3>2, <3>3, <3>4, <3>5
  <2>4. CASE ~Newer(u)
    <3>1. website' = website
      BY <1>8, <2>4 DEF ApplyUpload
    <3>2. website.seq > u.seq
      BY <1>2, <1>4, <1>5, <1>6, <1>7, <2>2, <2>4
    <3>3. RecordOf(u).seq = u.seq
      BY <1>3
    <3> QED BY <1>2, <2>1, <3>1, <3>2, <3>3 DEF SupersededInv
  <2> QED BY <2>3, <2>4
<1>9. CASE ~(Valid(u) /\ ~Known(u))
  <2>1. records' = records /\ website' = website
    BY <1>9 DEF ApplyUpload
  <2>2. ASSUME Answer(u) = "stale" PROVE website.seq > u.seq
    <3>1. RecordOf(u) \in records /\ website.id # u.id
      BY <1>9, <2>2 DEF Answer
    <3>2. u.seq <= website.seq
      BY <1>3, <3>1 DEF SupersededInv
    <3> QED BY <1>2, <1>4, <1>5, <1>6, <3>1, <3>2
  <2> QED BY <1>2, <2>1, <2>2 DEF SupersededInv
<1> QED BY <1>8, <1>9

\* A step that receives nothing and settles nothing.
LEMMA SupersededKept ==
    ASSUME SupersededInv, UNCHANGED <<website, records>>,
           \A x \in node'.uploads : x.status = "stale" => x \in node.uploads
    PROVE  SupersededInv'
BY DEF SupersededInv

\* Marking a row changes nothing of what is numbered.
LEMMA MarkedNumbers ==
    ASSUME TypeOK, RowsInv, NEW u \in cycle.todo, NEW status \in {"uploaded", "stale", "failed"},
           Mark(u.id, status), late' = late, records' \subseteq records \union {RecordOf(u)}
    PROVE  /\ RecordOf(u) \in Numbered /\ Numbered' \subseteq Numbered
           /\ UNCHANGED <<node.localSeq, node.shown, node.mark, node.definition>>
<1>1. u.id \in Nat
  BY DEF TypeOK, Upload
<1>2. RecordOf(u) \in Numbered
  BY DEF RowsInv, Numbered
<1>3. \A x \in node'.uploads : \E v \in node.uploads : RecordOf(x) = RecordOf(v)
  BY <1>1, MarkedRows DEF IsSame
<1>4. \A x \in node'.uploads \union late' : RecordOf(x) \in Numbered
  BY <1>3 DEF Numbered
<1>5. Numbered' \subseteq Numbered
  <2>1. Numbered' = records' \union {RecordOf(x) : x \in node'.uploads \union late'}
    BY DEF Numbered, RecordOf
  <2>2. records \subseteq Numbered
    BY DEF Numbered
  <2> QED BY <1>2, <1>4, <2>1, <2>2
<1>6. UNCHANGED <<node.localSeq, node.shown, node.mark, node.definition>>
  BY DEF Mark, TypeOK, Database
<1> QED BY <1>2, <1>5, <1>6

LEMMA OrderStep ==
    TypeOK /\ TypeOK' /\ IdentityInv /\ RowsInv /\ DisplayInv /\ OrderInv /\ [Next]_vars => OrderInv'
<1> SUFFICES ASSUME TypeOK, TypeOK', IdentityInv, RowsInv, DisplayInv, OrderInv, [Next]_vars, ~restored'
             PROVE  NumbersInv' /\ SupersededInv'
  BY DEF OrderInv
<1>old. ~restored /\ NumbersInv /\ SupersededInv
  <2>1. restored => restored'
    BY DEF vars, Next, DataNext, ReplyArrives, ReplyWritten, RepliesConfirmed, DefinitionChanges, DefinitionSynced,
         NodeNext, PublishAnalysis, RetryFailed, Backup, Restore, Progress, Heartbeat, BackfillPublications, CycleEnds,
         UploadAnswered, UploadRefused, UploadLost, LateUpload, counters
  <2> QED BY <2>1 DEF OrderInv
<1>type. node' \in Database /\ survey' \in [replies: Nat, definition: Nat, released: Nat]
  BY DEF TypeOK
<1>nat. node.mark \in Nat /\ node.definition \in Nat /\ survey.definition \in Nat
  BY DEF TypeOK, Database
<1>same. ASSUME Numbered' \subseteq Numbered, UNCHANGED <<node.localSeq, node.shown, node.mark, node.definition>>,
                survey'.definition = survey.definition
         PROVE  NumbersInv'
  <2>1. node'.mark >= node.mark /\ node'.definition >= node.definition /\ survey'.definition >= node'.definition
    BY <1>nat, <1>old, <1>same DEF NumbersInv
  <2> QED BY <1>old, <1>type, <1>same, <2>1, NumbersKept
<1>1. ASSUME UNCHANGED <<survey, website, records, late, node>> PROVE NumbersInv' /\ SupersededInv'
  <2>1. Numbered' = Numbered
    BY <1>1 DEF Numbered
  <2> QED BY <1>1, <1>old, <1>same, <2>1, SupersededKept
<1>2. CASE DataNext
  <2>1. node'.uploads = node.uploads /\ node'.localSeq = node.localSeq /\ node'.shown = node.shown
    BY <1>2 DEF DataNext, ReplyArrives, ReplyWritten, RepliesConfirmed, DefinitionChanges, DefinitionSynced, TypeOK,
         Database
  <2>2. UNCHANGED <<website, records, late>>
    BY <1>2 DEF DataNext, ReplyArrives, ReplyWritten, RepliesConfirmed, DefinitionChanges, DefinitionSynced, cloud
  <2>3. node'.mark >= node.mark
    <3>1. CASE ReplyWritten
      BY <3>1, <1>nat DEF ReplyWritten, TypeOK, Database
    <3>2. CASE DefinitionSynced
      BY <3>2, <1>nat DEF DefinitionSynced, TypeOK, Database
    <3>3. CASE node' = node
      BY <3>3, <1>nat
    <3> QED BY <1>2, <3>1, <3>2, <3>3 DEF DataNext, ReplyArrives, RepliesConfirmed, DefinitionChanges
  <2>4. node.definition <= survey.definition
    BY <1>old DEF NumbersInv
  <2>5. node'.definition >= node.definition /\ survey'.definition >= node'.definition
    <3>1. CASE DefinitionSynced
      BY <3>1, <1>nat, <2>4 DEF DefinitionSynced, TypeOK, Database
    <3>2. CASE DefinitionChanges
      BY <3>2, <1>nat, <2>4 DEF DefinitionChanges, TypeOK
    <3>3. CASE ReplyWritten
      BY <3>3, <1>nat, <2>4 DEF ReplyWritten, TypeOK, Database
    <3>4. CASE ReplyArrives \/ RepliesConfirmed
      BY <3>4, <1>nat, <2>4 DEF ReplyArrives, RepliesConfirmed, TypeOK
    <3> QED BY <1>2, <3>1, <3>2, <3>3, <3>4 DEF DataNext
  <2>6. Numbered' = Numbered
    BY <2>1, <2>2 DEF Numbered
  <2>7. NumbersInv'
    BY <1>old, <1>type, <2>1, <2>3, <2>5, <2>6, NumbersKept
  <2> QED BY <1>old, <2>1, <2>2, <2>7, SupersededKept
<1>3. ASSUME NEW d \in Database, d.uploads = node.uploads, d.localSeq = node.localSeq,
             d.mark = node.mark, d.definition = node.definition,
             d.shown.mark \in node.shown.mark..node.mark,
             d.shown.definition \in node.shown.definition..node.definition,
             node' = RecordPublication(d), UNCHANGED <<records, late, survey, website>>
      PROVE  NumbersInv' /\ SupersededInv'
  <2>1. NumbersInv'
    BY <1>3, <1>old, NumbersExtended
  <2>2. node'.uploads = d.uploads \/ node'.uploads = d.uploads \union {NewUpload(d)}
    BY <1>3, RecordedRows
  <2>3. NewUpload(d).status = "pending"
    BY DEF NewUpload
  <2> QED BY <1>3, <1>old, <2>1, <2>2, <2>3, SupersededKept
<1>shown. /\ node.shown.mark \in node.shown.mark..node.mark
          /\ node.shown.definition \in node.shown.definition..node.definition
          /\ node.mark \in node.shown.mark..node.mark
          /\ node.definition \in node.shown.definition..node.definition
  BY <1>old DEF NumbersInv, TypeOK, Database, Content
<1>4. CASE PublishAnalysis
  <2> DEFINE d == [node EXCEPT !.shown = [at |-> drawn + 1, mark |-> node.mark, definition |-> node.definition]]
  <2>1. /\ d \in Database /\ d.uploads = node.uploads /\ d.localSeq = node.localSeq
        /\ d.mark = node.mark /\ d.definition = node.definition
        /\ d.shown.mark = node.mark /\ d.shown.definition = node.definition
    BY DEF TypeOK, Database, Content
  <2>2. node' = RecordPublication(d) /\ UNCHANGED <<records, late, survey, website>>
    BY <1>4 DEF PublishAnalysis, cloud
  <2> HIDE DEF d
  <2> QED BY <1>3, <1>shown, <2>1, <2>2
<1>5. CASE RetryFailed
  <2>1. \A x \in node'.uploads : \E v \in node.uploads : RecordOf(x) = RecordOf(v)
    BY <1>5, RetriedRows DEF IsSame
  <2>2. UNCHANGED <<survey, website, records, late>>
    BY <1>5 DEF RetryFailed, cloud
  <2>3. Numbered' \subseteq Numbered
    <3>1. Numbered' = records' \union {RecordOf(x) : x \in node'.uploads \union late'}
      BY DEF Numbered, RecordOf
    <3>2. \A x \in node'.uploads \union late' : RecordOf(x) \in Numbered
      BY <2>1, <2>2 DEF Numbered
    <3>3. records' \subseteq Numbered
      BY <2>2 DEF Numbered
    <3> QED BY <3>1, <3>2, <3>3
  <2>4. UNCHANGED <<node.localSeq, node.shown, node.mark, node.definition>>
    BY <1>5 DEF RetryFailed, TypeOK, Database
  <2>5. \A x \in node'.uploads : x.status = "stale" => x \in node.uploads
    BY <1>5, RetriedRows
  <2> QED BY <1>old, <1>same, <2>2, <2>3, <2>4, <2>5, SupersededKept
<1>6. CASE Heartbeat
  <2>1. node'.uploads = node.uploads
        /\ UNCHANGED <<node.localSeq, node.shown, node.mark, node.definition>>
    BY <1>6 DEF Heartbeat, TypeOK, Database
  <2>2. UNCHANGED <<survey, website, records, late>>
    BY <1>6 DEF Heartbeat, cloud
  <2>3. Numbered' = Numbered
    BY <2>1, <2>2 DEF Numbered
  <2> QED BY <1>old, <1>same, <2>1, <2>2, <2>3, SupersededKept
<1>7. CASE BackfillPublications
  <2>1. UNCHANGED <<survey, website, records, late>> /\ node \in Database
    BY <1>7 DEF BackfillPublications, cloud, TypeOK
  <2>2. CASE node' = RecordPublication(node)
    BY <1>3, <1>shown, <2>1, <2>2
  <2>3. CASE node' = node
    BY <1>1, <2>1, <2>3
  <2> QED BY <1>7, <2>2, <2>3 DEF BackfillPublications
<1>8. ASSUME NEW u \in cycle.todo, UploadAnswered(u)
      PROVE  NumbersInv' /\ SupersededInv'
  <2> DEFINE status == StatusAfter(Answer(u))
  <2>1. /\ status \in {"uploaded", "stale", "failed"}
        /\ status = "stale" => Answer(u) = "stale"
    BY DEF StatusAfter
  <2>2. u \in Sendable /\ u \in Upload /\ u.id \in Nat /\ ApplyUpload(u) /\ Mark(u.id, status)
    BY <1>8, CopiesAreUploads DEF UploadAnswered, Sendable, Upload
  <2> HIDE DEF status
  <2>3. UNCHANGED <<survey, late>> /\ records' \subseteq records \union {RecordOf(u)}
    BY <1>8, <2>2, Received DEF UploadAnswered
  <2>4. /\ RecordOf(u) \in Numbered /\ Numbered' \subseteq Numbered
        /\ UNCHANGED <<node.localSeq, node.shown, node.mark, node.definition>>
    BY <2>1, <2>2, <2>3, MarkedNumbers
  <2>5. /\ \A r \in records' : r.seq <= website'.seq
        /\ website'.seq >= website.seq
        /\ Answer(u) = "stale" => website'.seq > u.seq
    BY <1>old, <2>2, <2>4, SupersededReceived
  <2>6. ASSUME NEW x \in node'.uploads, x.status = "stale" PROVE website'.seq > x.seq
    <3>1. PICK v \in node.uploads :
             /\ IsSame(x, v)
             /\ \/ x = v
                \/ v.id = u.id /\ x.status = status /\ (status = "failed" => x.content = v.content)
      BY <2>1, <2>2, MarkedRows
    <3>2. CASE x = v
      <4>1. website.seq > x.seq /\ x \in Upload
        BY <1>old, <2>6, <3>2 DEF SupersededInv, TypeOK, Database
      <4> QED BY <2>5, <4>1 DEF TypeOK, Upload
    <3>3. CASE v.id = u.id /\ x.status = status
      <4>1. v = u
        BY <3>3 DEF RowsInv, OneRowEach
      <4>2. x.seq = u.seq
        BY <3>1, <4>1 DEF IsSame, RecordOf
      <4> QED BY <2>1, <2>5, <2>6, <3>3, <4>2
    <3> QED BY <3>1, <3>2, <3>3
  <2>7. SupersededInv'
    BY <2>5, <2>6 DEF SupersededInv
  <2> QED BY <1>same, <2>3, <2>4, <2>7
<1>9. ASSUME NEW u \in cycle.todo, UploadRefused(u)
      PROVE  NumbersInv' /\ SupersededInv'
  <2>1. Mark(u.id, "failed") /\ UNCHANGED <<survey, late, records, website>> /\ u.id \in Nat
    BY <1>9 DEF UploadRefused, cloud, TypeOK, Upload
  <2>2. /\ Numbered' \subseteq Numbered
        /\ UNCHANGED <<node.localSeq, node.shown, node.mark, node.definition>>
    BY <2>1, MarkedNumbers
  <2>3. \A x \in node'.uploads : x.status = "stale" => x \in node.uploads
    BY <2>1, MarkedRows
  <2> QED BY <1>old, <1>same, <2>1, <2>2, <2>3, SupersededKept
<1>10. ASSUME NEW u \in cycle.todo, UploadLost(u)
       PROVE  NumbersInv' /\ SupersededInv'
  <2>1. UNCHANGED <<survey, website, records, node>> /\ late' = late \union {u}
    BY <1>10 DEF UploadLost, cloud
  <2>2. Numbered' \subseteq Numbered
    BY <2>1 DEF Numbered, RowsInv
  <2> QED BY <1>old, <1>same, <2>1, <2>2, SupersededKept
<1>11. ASSUME NEW u \in late, LateUpload(u)
       PROVE  NumbersInv' /\ SupersededInv'
  <2>1. u \in Sendable /\ ApplyUpload(u) /\ UNCHANGED <<survey, node>> /\ late' \subseteq late
    BY <1>11 DEF LateUpload, Sendable
  <2>2. RecordOf(u) \in Numbered
    BY DEF Numbered
  <2>3. records' \subseteq records \union {RecordOf(u)}
    BY <2>1, Received
  <2>4. Numbered' \subseteq Numbered
    BY <2>1, <2>2, <2>3 DEF Numbered
  <2>5. /\ \A r \in records' : r.seq <= website'.seq
        /\ website'.seq >= website.seq
    BY <1>old, <2>1, <2>2, SupersededReceived
  <2>6. \A x \in node.uploads : x.seq \in Nat /\ (x.status = "stale" => website.seq > x.seq)
    BY <1>old DEF SupersededInv, TypeOK, Database, Upload
  <2>7. SupersededInv'
    BY <2>1, <2>5, <2>6 DEF SupersededInv, TypeOK
  <2> QED BY <1>same, <2>1, <2>4, <2>7
<1>12. CASE UNCHANGED vars
  BY <1>1, <1>12 DEF vars
<1>13. CASE Backup \/ CycleEnds
  BY <1>1, <1>13 DEF Backup, CycleEnds, cloud
<1>14. CASE Restore
  BY <1>14 DEF Restore
<1> QED BY <1>2, <1>4, <1>5, <1>6, <1>7, <1>8, <1>9, <1>10, <1>11, <1>12, <1>13, <1>14 DEF Next, NodeNext, Progress

LEMMA OrderHolds == Spec => []OrderInv
<1>1. Init => OrderInv
  <2> SUFFICES ASSUME Init PROVE NumbersInv /\ SupersededInv
    BY DEF OrderInv
  <2>1. Numbered = {} /\ records = {} /\ node.uploads = {}
    BY DEF Init, Numbered
  <2>2. /\ node.shown.mark <= node.mark
        /\ node.shown.definition <= node.definition /\ node.definition <= survey.definition
    BY DEF Init, Unpublished
  <2> QED BY <2>1, <2>2 DEF NumbersInv, SupersededInv
<1> QED BY <1>1, OrderStep, DisplayHolds, TypeCorrect, PTL DEF Spec

\* A later number never stands for older data: until a backup is restored the website
\* answers stale only to what a later number replaced (cloudapi/results.py:150-153).
THEOREM SupersededCorrect == Spec => []OnlySupersededIsStale
<1>1. OrderInv => OnlySupersededIsStale
  BY DEF OrderInv, SupersededInv, OnlySupersededIsStale
<1> QED BY <1>1, OrderHolds, PTL

=============================================================================
