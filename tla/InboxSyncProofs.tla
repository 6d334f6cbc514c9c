--------------------------- MODULE InboxSyncProofs ---------------------------
(***************************************************************************)
(* Theorems about InboxSync for every set of replies, every limit and page *)
(* size and every number of disturbances: no accepted reply is lost, the   *)
(* capacity counter is exact, the watermark skips nothing, and the hand-   *)
(* over implements ReplyCustody.                                           *)
(***************************************************************************)
EXTENDS InboxSync, FiniteSetTheorems, TLAPS

-----------------------------------------------------------------------------
(* The life of one reply on the website *)

Accepted(u) == receipt[u].status # "none"

Same(u) == receipt'[u] = receipt[u] /\ body'[u] = body[u]

Stored(u) ==
    /\ ~Accepted(u)
    /\ \E content \in Contents :
          receipt'[u] = [status |-> "received", payload |-> content, seq |-> survey.seq + 1]
    /\ body'[u] = "pending"

Moves(u, from, status, to) ==
    /\ body[u] = from
    /\ receipt'[u] = [receipt[u] EXCEPT !.status = status]
    /\ body'[u] = to

CloudStep(u) ==
    \/ Same(u)
    \/ Moves(u, "pending", "synced", "none") /\ disk.source[u] # None
    \/ Moves(u, "pending", "quarantined", "quarantined")
    \/ Moves(u, "quarantined", "received", "pending")

GivenUp(u) == Moves(u, "quarantined", "abandoned", "none")

OnlyOne(u) == \A v \in Replies \ {u} : Same(v)

\* At most one reply is accepted at a time, under a sequence of its own, or given up.
CloudSteps ==
    \/ survey'.seq = survey.seq /\ \A u \in Replies : CloudStep(u)
    \/ survey'.seq = survey.seq + 1 /\ \E u \in Replies : Stored(u) /\ OnlyOne(u)
    \/ survey'.seq = survey.seq /\ \E u \in Replies : GivenUp(u) /\ OnlyOne(u)

\* From the point of view of one reply.
LEMMA StepOfOne ==
    ASSUME CloudSteps, NEW u \in Replies
    PROVE  \/ CloudStep(u) \/ GivenUp(u)
           \/ Stored(u) /\ survey'.seq = survey.seq + 1 /\ OnlyOne(u)
BY DEF CloudSteps, CloudStep, OnlyOne

-----------------------------------------------------------------------------
(* The inductive invariant *)

\* Status, body and sequence of a receipt agree.
AcceptedOK ==
    /\ \A u \in Replies :
          /\ Accepted(u) <=> receipt[u].payload # None
          /\ Accepted(u) => receipt[u].seq >= 1 /\ receipt[u].seq <= survey.seq
          /\ body[u] = "pending" <=> receipt[u].status = "received"
          /\ body[u] = "quarantined" <=> receipt[u].status = "quarantined"
    /\ \A u, v \in Replies : Accepted(u) /\ Accepted(v) /\ receipt[u].seq = receipt[v].seq => u = v

\* What a database of the node says of the replies is true, now and after a rollback to it.
Truthful(d, rows, last) ==
    /\ d.mark <= last
    /\ \A s \in d.abandoned : s <= last
    /\ \A u \in d.acks : d.source[u] # None
    /\ \A u \in Replies :
          /\ d.source[u] # None => d.source[u] = rows[u].payload
          /\ rows[u].status # "none" /\ rows[u].seq <= d.mark
                => d.source[u] # None \/ rows[u].status = "abandoned"
          /\ rows[u].status # "none" /\ rows[u].seq \in d.abandoned => rows[u].status = "abandoned"

\* What has been acknowledged, or may be by a late request, is on the disk; a cycle with
\* durable commits has nothing that is not there.
DiskOK ==
    /\ \A u \in Replies : disk.source[u] # None => db.source[u] # None
    /\ \A u \in Replies : receipt[u].status = "synced" => disk.source[u] # None
    /\ durable /\ cycle.pc # "idle" => disk = db
    /\ \A r \in late : r.kind = "ack" => disk.source[r.reply] # None

\* Only written replies are acknowledged, and a fetched reply that is not written yet
\* lies above the watermark whatever became of it in the cloud since.
CycleOK ==
    /\ cycle.pc \in {"resend", "ack"} => cycle.todo \subseteq db.acks
    /\ cycle.pc = "intake" =>
          \A u \in cycle.todo :
             /\ Accepted(u)
             /\ db.source[u] = None => receipt[u].seq > db.mark /\ receipt[u].seq \notin db.abandoned

Inv ==
    /\ AcceptedOK /\ DiskOK /\ CycleOK
    /\ Truthful(db, receipt, survey.seq) /\ Truthful(disk, receipt, survey.seq)

-----------------------------------------------------------------------------
(* Types; the counter is left to the section on capacity *)

RowTypes ==
    /\ survey \in [phase: {"draft", "open", "closed"}, seq: Nat]
    /\ receipt \in [Replies -> Receipt]
    /\ body \in [Replies -> {"none", "pending", "quarantined"}]
    /\ shown \in [Replies -> {"nothing", "accepted", "rejected", "closed", "full"}]

NodeTypes ==
    /\ db \in Database /\ disk \in Database /\ durable \in BOOLEAN
    /\ cycle \in Cycle /\ late \subseteq Request /\ events \in Nat

Types == RowTypes /\ NodeTypes

LEMMA VerdictType ==
    ASSUME NEW u, NEW content
    PROVE  Verdict(u, content) \in {"accepted", "rejected", "closed", "full"}
BY DEF Verdict

LEMMA AckRows ==
    ASSUME RowTypes, NEW requests, AckItems(requests)
    PROVE  /\ receipt' \in [Replies -> Receipt]
           /\ body' \in [Replies -> {"none", "pending", "quarantined"}]
BY DEF RowTypes, AckItems, Receipt

LEMMA QuarantineRows ==
    ASSUME RowTypes, NEW replies, QuarantineItems(replies)
    PROVE  /\ receipt' \in [Replies -> Receipt]
           /\ body' \in [Replies -> {"none", "pending", "quarantined"}]
BY DEF RowTypes, QuarantineItems, Receipt

LEMMA RowTypesStep ==
    ASSUME Types, Next
    PROVE  RowTypes'
<1> USE DEF Types
<1>1. CASE Publish \/ Toggle
  BY <1>1 DEF RowTypes, Publish, Toggle
<1>2. ASSUME NEW u \in Replies, NEW content \in Contents, Submit(u, content)
      PROVE  RowTypes'
  <2>1. shown' \in [Replies -> {"nothing", "accepted", "rejected", "closed", "full"}]
    BY <1>2, VerdictType DEF RowTypes, Submit
  <2>2. CASE Store(u, content)
    <3>1. [status |-> "received", payload |-> content, seq |-> survey.seq + 1] \in Receipt
      BY DEF RowTypes, Receipt, Maybe
    <3> QED BY <2>1, <2>2, <3>1 DEF RowTypes, Store
  <2>3. CASE UNCHANGED <<survey, receipt, body, occupied>>
    BY <2>1, <2>3 DEF RowTypes
  <2> QED BY <1>2, <2>2, <2>3 DEF Submit
<1>3. ASSUME NEW r \in late, LateRequest(r)
      PROVE  RowTypes'
  BY <1>3, AckRows, QuarantineRows DEF RowTypes, LateRequest
<1>4. ASSUME NEW u \in Replies, Requeue(u) \/ Abandon(u)
      PROVE  RowTypes'
  BY <1>4 DEF RowTypes, Requeue, Abandon, Receipt
<1>5. CASE CycleStep
  BY <1>5, AckRows, QuarantineRows DEF CycleStep, StartCycle, SendAcks, WithholdAcks, Fetch, SendQuarantine,
       Heartbeat, Duplicate, WriteReply, Refuse, RowTypes, cloud
<1>6. CASE CallLost \/ Crash \/ PowerFails \/ Flush \/ \E u \in Replies : DefinitionUnavailable(u)
  BY <1>6 DEF CallLost, Crash, PowerFails, Flush, DefinitionUnavailable, RowTypes, cloud
<1> QED BY <1>1, <1>2, <1>3, <1>4, <1>5, <1>6 DEF Next

LEMMA AfterIntakeType ==
    ASSUME NEW c \in Cycle, NEW acks
    PROVE  AfterIntake(c, acks) \in Cycle
BY DEF AfterIntake, Cycle

LEMMA NoCycleType == NoCycle \in Cycle
BY DEF NoCycle, Cycle

LEMMA CommitTypes ==
    ASSUME NodeTypes, NEW new \in Database, Commit(new)
    PROVE  db' \in Database /\ disk' \in Database
BY DEF NodeTypes, Commit

LEMMA AdvancedTypes ==
    ASSUME Types, NEW d \in Database, CommitAdvanced(d)
    PROVE  db' \in Database /\ disk' \in Database
<1>1. PICK n \in d.mark..survey.seq : Commit([d EXCEPT !.mark = n, !.abandoned = {s \in @ : s > n}])
  BY DEF CommitAdvanced
<1>2. n \in Nat
  BY DEF Database, Types, RowTypes
<1>3. [d EXCEPT !.mark = n, !.abandoned = {s \in @ : s > n}] \in Database
  BY <1>2 DEF Database
<1> QED BY <1>1, <1>3, CommitTypes DEF Types

LEMMA WrittenReplyType ==
    ASSUME Types, NEW u \in Replies
    PROVE  /\ [db EXCEPT !.defined = TRUE, !.source[u] = receipt[u].payload, !.acks = @ \union {u}] \in Database
           /\ [db EXCEPT !.acks = @ \union {u}] \in Database
<1>1. receipt[u].payload \in Maybe(Contents)
  BY DEF Types, RowTypes, Receipt
<1>2. db \in Database
  BY DEF Types, NodeTypes
<1>3. [db.source EXCEPT ![u] = receipt[u].payload] \in [Replies -> Maybe(Contents)]
  BY <1>1, <1>2 DEF Database
<1>4. db.acks \union {u} \in SUBSET Replies
  BY <1>2 DEF Database
<1> QED BY <1>2, <1>3, <1>4 DEF Database

LEMMA RequestTypes ==
    ASSUME Types, NEW replies \in SUBSET Replies
    PROVE  /\ AcksFor(replies) \subseteq Request
           /\ {[kind |-> "quarantine", reply |-> u, payload |-> None] : u \in replies} \subseteq Request
BY DEF AcksFor, Request, Types, NodeTypes, Database, Maybe

LEMMA NodeTypesStep ==
    ASSUME Types, Next
    PROVE  NodeTypes'
<1>1. CASE Publish \/ Toggle \/ \E u \in Replies : Requeue(u) \/ Abandon(u) \/ \E content \in Contents : Submit(u, content)
  BY <1>1 DEF Publish, Toggle, Requeue, Abandon, Submit, Disturbance, node, NodeTypes, Types
<1>2. CASE \E r \in late : LateRequest(r)
  BY <1>2 DEF LateRequest, node, NodeTypes, Types
<1>3. CASE StartCycle
  <2>1. [db EXCEPT !.defined = survey.phase # "draft"] \in Database
    BY DEF Types, NodeTypes, Database
  <2>2. [NoCycle EXCEPT !.pc = "resend", !.todo = db.acks] \in Cycle
    BY NoCycleType DEF Types, NodeTypes, Database, Cycle
  <2> QED BY <1>3, <2>1, <2>2, CommitTypes DEF StartCycle, NodeTypes, Types
<1>4. CASE SendAcks
  <2>1. PICK batch \in Batches :
           LET confirmed == Confirmed(AcksFor(batch)) IN
           /\ AckItems(AcksFor(batch))
           /\ Commit([db EXCEPT !.acks = @ \ confirmed])
           /\ cycle' = [cycle EXCEPT !.todo = @ \ batch, !.progress = @ \/ confirmed # {}]
    BY <1>4 DEF SendAcks
  <2> DEFINE confirmed == Confirmed(AcksFor(batch))
  <2>2. db' \in Database /\ disk' \in Database
    <3>1. [db EXCEPT !.acks = @ \ confirmed] \in Database
      BY DEF Types, NodeTypes, Database
    <3> QED BY <2>1, <3>1, CommitTypes DEF Types
  <2>3. cycle' \in Cycle
    <3>1. (cycle.progress \/ confirmed # {}) \in BOOLEAN
      OBVIOUS
    <3> HIDE DEF confirmed
    <3>2. cycle' = [cycle EXCEPT !.todo = @ \ batch, !.progress = @ \/ confirmed # {}]
      BY <2>1 DEF confirmed
    <3> QED BY <3>1, <3>2 DEF Types, NodeTypes, Cycle
  <2> QED BY <1>4, <2>2, <2>3 DEF SendAcks, NodeTypes, Types
<1>5. CASE WithholdAcks
  BY <1>5, CommitTypes DEF WithholdAcks, NodeTypes, Types, Cycle
<1>6. CASE Fetch
  <2>1. [NoCycle EXCEPT !.pc = "intake", !.todo = OldestPending, !.page = OldestPending,
                        !.more = PendingBodies # OldestPending] \in Cycle
    BY NoCycleType DEF Cycle, OldestPending, PendingBodies
  <2> QED BY <1>6, <2>1, AfterIntakeType DEF Fetch, NodeTypes, Types
<1>7. ASSUME NEW u \in Replies, Duplicate(u) \/ WriteReply(u) \/ Refuse(u)
      PROVE  NodeTypes'
  <2>1. [cycle EXCEPT !.todo = @ \ {u}] \in Cycle /\ [cycle EXCEPT !.todo = @ \ {u}, !.refused = @ \union {u}] \in Cycle
    BY DEF Types, NodeTypes, Cycle
  <2>2. CASE Duplicate(u)
    BY <2>1, <2>2, WrittenReplyType, CommitTypes, AfterIntakeType DEF Duplicate, NodeTypes, Types
  <2>3. CASE WriteReply(u)
    BY <2>1, <2>3, WrittenReplyType, AdvancedTypes, AfterIntakeType DEF WriteReply, NodeTypes, Types
  <2>4. CASE Refuse(u)
    BY <2>1, <2>4 DEF Refuse, Refusal, NodeTypes, Types
  <2> QED BY <1>7, <2>2, <2>3, <2>4
<1>8. CASE SendQuarantine
  BY <1>8 DEF SendQuarantine, NodeTypes, Types, Cycle
<1>9. CASE Heartbeat
  <2>1. AbandonedReplies \subseteq Replies /\ \A u \in Replies : receipt[u].seq \in Nat
    BY DEF AbandonedReplies, Types, RowTypes, Receipt
  <2> DEFINE given == {receipt[u].seq : u \in AbandonedReplies}
  <2>2. [db EXCEPT !.abandoned = @ \union {s \in given : s > db.mark}] \in Database
    BY <2>1 DEF Types, NodeTypes, Database
  <2>3. db' \in Database /\ disk' \in Database
    <3>1. \/ UNCHANGED <<db, disk>>
          \/ CommitAdvanced([db EXCEPT !.abandoned = @ \union {s \in given : s > db.mark}])
      BY <1>9 DEF Heartbeat
    <3> HIDE DEF given
    <3> QED BY <2>2, <3>1, AdvancedTypes DEF Types, NodeTypes
  <2> QED BY <1>9, <2>3, NoCycleType DEF Heartbeat, NodeTypes, Types
<1>10. CASE CallLost
  <2>1. late' \subseteq Request
    <3>1. cycle.todo \subseteq Replies /\ cycle.refused \subseteq Replies
      BY DEF Types, NodeTypes, Cycle
    <3>2. late \subseteq Request
      BY DEF Types, NodeTypes
    <3>3. CASE \E batch \in Batches : late' = late \union AcksFor(batch)
      BY <3>1, <3>2, <3>3, RequestTypes DEF Batches
    <3>4. CASE late' = late \union {[kind |-> "quarantine", reply |-> u, payload |-> None] : u \in cycle.refused}
      BY <3>1, <3>2, <3>4, RequestTypes
    <3> QED BY <1>10, <3>2, <3>3, <3>4 DEF CallLost
  <2> QED BY <1>10, <2>1, NoCycleType DEF CallLost, Disturbance, NodeTypes, Types
<1>11. CASE Crash \/ PowerFails \/ Flush
  BY <1>11, NoCycleType DEF Crash, PowerFails, Flush, Disturbance, NodeTypes, Types
<1>12. ASSUME NEW u \in Replies, DefinitionUnavailable(u)
       PROVE  NodeTypes'
  <2>1. [cycle EXCEPT !.todo = @ \ {u}, !.refused = @ \union {u}] \in Cycle
    BY DEF Types, NodeTypes, Cycle
  <2> QED BY <1>12, <2>1 DEF DefinitionUnavailable, Refusal, Disturbance, NodeTypes, Types
<1> QED BY <1>1, <1>2, <1>3, <1>4, <1>5, <1>6, <1>7, <1>8, <1>9, <1>10, <1>11, <1>12 DEF Next, CycleStep

LEMMA InitTypes == Init => Types
<1>1. EmptyDatabase \in Database
  BY DEF EmptyDatabase, Database, Maybe
<1> QED BY <1>1, NoCycleType DEF Init, Types, RowTypes, NodeTypes, Receipt, Maybe

LEMMA TypesStep == Types /\ [Next]_vars => Types'
<1>1. ASSUME Types, UNCHANGED vars
      PROVE  Types'
  BY <1>1 DEF Types, RowTypes, NodeTypes, vars
<1> QED BY <1>1, RowTypesStep, NodeTypesStep DEF Types

LEMMA TypesCorrect == Spec => []Types
BY InitTypes, TypesStep, PTL DEF Spec

-----------------------------------------------------------------------------
(* Every step of the website is a step in the life of its replies *)

LEMMA NothingMoves ==
    ASSUME Types, UNCHANGED <<survey, receipt, body>>
    PROVE  CloudSteps
BY DEF CloudSteps, CloudStep, Same

LEMMA AckMoves ==
    ASSUME Types, NEW requests, AckItems(requests), UNCHANGED survey,
           \A r \in requests : disk.source[r.reply] # None
    PROVE  CloudSteps
<1>1. ASSUME NEW u \in Replies
      PROVE  CloudStep(u)
  <2> DEFINE acked == {r.reply : r \in {q \in requests : Ackable(q)}}
  <2>1. /\ receipt'[u] = IF u \in acked THEN [receipt[u] EXCEPT !.status = "synced"] ELSE receipt[u]
        /\ body'[u] = IF u \in acked THEN "none" ELSE body[u]
    BY DEF AckItems
  <2>2. u \in acked => body[u] = "pending" /\ disk.source[u] # None
    BY DEF Ackable
  <2> QED BY <2>1, <2>2 DEF CloudStep, Same, Moves
<1> QED BY <1>1 DEF CloudSteps

LEMMA QuarantineMoves ==
    ASSUME Types, NEW replies, QuarantineItems(replies), UNCHANGED survey
    PROVE  CloudSteps
<1>1. ASSUME NEW u \in Replies
      PROVE  CloudStep(u)
  BY DEF QuarantineItems, CloudStep, Same, Moves
<1> QED BY <1>1 DEF CloudSteps

LEMMA MayAckOnDisk ==
    ASSUME Types, Inv, cycle.pc \in {"resend", "ack"}, MayAck, NEW batch \in SUBSET cycle.todo
    PROVE  /\ disk = db
           /\ \A r \in AcksFor(batch) : r.kind = "ack" /\ r.reply \in Replies /\ disk.source[r.reply] # None
<1>1. disk = db /\ cycle.todo \subseteq db.acks
  BY DEF Inv, DiskOK, CycleOK, MayAck
<1>2. \A u \in batch : u \in Replies /\ disk.source[u] # None
  BY <1>1 DEF Inv, Truthful, Types, NodeTypes, Database
<1> QED BY <1>1, <1>2 DEF AcksFor

LEMMA CloudMoves ==
    ASSUME Types, Inv, Next
    PROVE  CloudSteps
<1>1. CASE Publish \/ Toggle
  BY <1>1 DEF Publish, Toggle, CloudSteps, CloudStep, Same, Types, RowTypes
<1>2. ASSUME NEW u \in Replies, NEW content \in Contents, Submit(u, content)
      PROVE  CloudSteps
  <2>1. CASE Store(u, content) /\ receipt[u].status = "none"
    <3>1. survey'.seq = survey.seq + 1
      BY <2>1 DEF Store, Types, RowTypes
    <3>2. Stored(u) /\ OnlyOne(u)
      BY <2>1 DEF Store, Types, RowTypes, Stored, OnlyOne, Same, Accepted
    <3> QED BY <3>1, <3>2 DEF CloudSteps
  <2>2. CASE UNCHANGED <<survey, receipt, body, occupied>>
    BY <2>2, NothingMoves
  <2> QED BY <1>2, <2>1, <2>2 DEF Submit
<1>3. ASSUME NEW r \in late, LateRequest(r)
      PROVE  CloudSteps
  <2>1. r.kind = "ack" => \A q \in {r} : disk.source[q.reply] # None
    BY DEF Inv, DiskOK
  <2> QED BY <1>3, <2>1, AckMoves, QuarantineMoves DEF LateRequest
<1>4. ASSUME NEW u \in Replies, Requeue(u) \/ Abandon(u)
      PROVE  CloudSteps
  <2>1. body[u] = "quarantined" /\ UNCHANGED survey
    BY <1>4 DEF Requeue, Abandon, Inv, AcceptedOK
  <2>2. OnlyOne(u)
    BY <1>4, <2>1 DEF Requeue, Abandon, OnlyOne, Same, Types, RowTypes
  <2>3. CloudStep(u) \/ GivenUp(u)
    BY <1>4, <2>1 DEF Requeue, Abandon, CloudStep, GivenUp, Moves, Types, RowTypes
  <2> QED BY <2>1, <2>2, <2>3 DEF CloudSteps, CloudStep, OnlyOne
<1>5. CASE SendAcks
  <2>1. PICK batch \in Batches : AckItems(AcksFor(batch))
    BY <1>5 DEF SendAcks
  <2>2. \A r \in AcksFor(batch) : disk.source[r.reply] # None
    BY <1>5, MayAckOnDisk DEF SendAcks, Batches
  <2> QED BY <1>5, <2>1, <2>2, AckMoves DEF SendAcks
<1>6. CASE SendQuarantine
  BY <1>6, QuarantineMoves DEF SendQuarantine
<1>7. CASE \/ StartCycle \/ WithholdAcks \/ Fetch \/ Heartbeat \/ CallLost \/ Crash \/ PowerFails \/ Flush
           \/ \E u \in Replies : Duplicate(u) \/ WriteReply(u) \/ Refuse(u) \/ DefinitionUnavailable(u)
  BY <1>7, NothingMoves DEF StartCycle, WithholdAcks, Fetch, Heartbeat, CallLost, Crash, PowerFails, Flush,
       Duplicate, WriteReply, Refuse, DefinitionUnavailable, cloud
<1> QED BY <1>1, <1>2, <1>3, <1>4, <1>5, <1>6, <1>7 DEF Next, CycleStep

-----------------------------------------------------------------------------
(* The website's part of the invariant *)

\* A receipt keeps its payload and its sequence, and an abandoned one stays abandoned.
LEMMA ReceiptKeeps ==
    ASSUME Types, AcceptedOK, CloudSteps, NEW u \in Replies, Accepted(u)
    PROVE  /\ Accepted(u)' /\ receipt'[u].payload = receipt[u].payload /\ receipt'[u].seq = receipt[u].seq
           /\ receipt[u].status = "abandoned" => receipt'[u].status = "abandoned"
<1>1. receipt[u] \in Receipt
  BY DEF Types, RowTypes
<1>2. ~Stored(u)
  BY DEF Stored
<1>3. CASE CloudStep(u) \/ GivenUp(u)
  BY <1>1, <1>3 DEF CloudStep, GivenUp, Same, Moves, Accepted, AcceptedOK, Receipt
<1> QED BY <1>2, <1>3, StepOfOne

\* A reply that is accepted now has the newest sequence.
LEMMA NewReceipt ==
    ASSUME Types, CloudSteps, NEW u \in Replies, ~Accepted(u), Accepted(u)', AcceptedOK
    PROVE  /\ receipt'[u].seq = survey.seq + 1 /\ survey'.seq = survey.seq + 1
           /\ receipt'[u].status = "received" /\ receipt[u].payload = None
           /\ \A v \in Replies \ {u} : Same(v)
<1>1. ~CloudStep(u) /\ ~GivenUp(u)
  BY DEF CloudStep, GivenUp, Moves, Same, AcceptedOK, Accepted
<1>2. Stored(u) /\ survey'.seq = survey.seq + 1 /\ OnlyOne(u)
  BY <1>1, StepOfOne
<1> QED BY <1>2 DEF Stored, OnlyOne, AcceptedOK

LEMMA AcceptedStep ==
    ASSUME Types, Types', AcceptedOK, CloudSteps
    PROVE  AcceptedOK'
<1>1. survey.seq \in Nat /\ survey'.seq \in Nat /\ survey.seq <= survey'.seq
  BY DEF Types, RowTypes, CloudSteps
<1>2. ASSUME NEW u \in Replies
      PROVE  /\ Accepted(u)' <=> receipt'[u].payload # None
             /\ Accepted(u)' => receipt'[u].seq >= 1 /\ receipt'[u].seq <= survey'.seq
             /\ body'[u] = "pending" <=> receipt'[u].status = "received"
             /\ body'[u] = "quarantined" <=> receipt'[u].status = "quarantined"
  <2>1. receipt[u] \in Receipt
    BY DEF Types, RowTypes
  <2>2. CASE Stored(u) /\ survey'.seq = survey.seq + 1
    BY <1>1, <2>1, <2>2, InboxAssumption DEF Stored, Accepted
  <2>3. CASE CloudStep(u) \/ GivenUp(u)
    BY <1>1, <2>1, <2>3 DEF CloudStep, GivenUp, Same, Moves, Accepted, AcceptedOK, Receipt
  <2> QED BY <2>2, <2>3, StepOfOne
<1>3. ASSUME NEW u \in Replies, NEW v \in Replies, Accepted(u)', Accepted(v)',
             receipt'[u].seq = receipt'[v].seq
      PROVE  u = v
  <2>1. CASE Accepted(u) /\ Accepted(v)
    BY <1>3, <2>1, ReceiptKeeps DEF AcceptedOK
  <2>2. CASE Accepted(u) /\ ~Accepted(v)
    BY <1>1, <1>3, <2>2, ReceiptKeeps, NewReceipt DEF AcceptedOK, Types, RowTypes, Receipt
  <2>3. CASE ~Accepted(u) /\ Accepted(v)
    BY <1>1, <1>3, <2>3, ReceiptKeeps, NewReceipt DEF AcceptedOK, Types, RowTypes, Receipt
  <2>4. CASE ~Accepted(u) /\ ~Accepted(v)
    BY <1>3, <2>4, NewReceipt DEF Same, Accepted
  <2> QED BY <2>1, <2>2, <2>3, <2>4
<1> QED BY <1>2, <1>3 DEF AcceptedOK

\* What is true of a database stays true whatever the website does.
LEMMA TruthStays ==
    ASSUME Types, Types', AcceptedOK, CloudSteps,
           NEW d \in Database, Truthful(d, receipt, survey.seq)
    PROVE  Truthful(d, receipt', survey'.seq)
<1>1. survey.seq \in Nat /\ survey'.seq \in Nat /\ survey.seq <= survey'.seq
  BY DEF Types, RowTypes, CloudSteps
<1>2. d.mark \in Nat /\ d.abandoned \subseteq Nat
  BY DEF Database
<1>3. ASSUME NEW u \in Replies
      PROVE  /\ d.source[u] # None => d.source[u] = receipt'[u].payload
             /\ receipt'[u].status # "none" /\ receipt'[u].seq <= d.mark
                   => d.source[u] # None \/ receipt'[u].status = "abandoned"
             /\ receipt'[u].status # "none" /\ receipt'[u].seq \in d.abandoned
                   => receipt'[u].status = "abandoned"
  <2>1. CASE Accepted(u)
    BY <2>1, ReceiptKeeps DEF Truthful, Accepted
  <2>2. CASE ~Accepted(u)
    <3>1. d.source[u] = None
      BY <2>2 DEF Truthful, AcceptedOK
    <3>2. CASE Accepted(u)'
      BY <1>1, <1>2, <2>2, <3>1, <3>2, NewReceipt DEF Truthful
    <3> QED BY <3>1, <3>2 DEF Accepted
  <2> QED BY <2>1, <2>2
<1> QED BY <1>1, <1>2, <1>3 DEF Truthful

-----------------------------------------------------------------------------
(* The node's part of the invariant *)

\* What a commit needs: it forgets no reply and says only what is true.
Extends(new) ==
    /\ Truthful(new, receipt, survey.seq)
    /\ \A u \in Replies : db.source[u] # None => new.source[u] # None

DiskGrows ==
    /\ Truthful(db', receipt, survey.seq) /\ Truthful(disk', receipt, survey.seq)
    /\ \A u \in Replies : disk.source[u] # None => disk'.source[u] # None
    /\ \A u \in Replies : disk'.source[u] # None => db'.source[u] # None

LEMMA CommitGrows ==
    ASSUME Inv, NEW new, Extends(new), Commit(new)
    PROVE  DiskGrows
BY DEF Inv, DiskOK, Extends, Commit, DiskGrows

Sequences == \A u \in Replies : receipt[u].seq \in Nat

LEMMA SequenceTypes == Types => Sequences /\ survey.seq \in Nat
BY DEF Types, RowTypes, Receipt, Sequences

\* What the watermark passes over is written or was given up.
LEMMA PassedOver ==
    ASSUME Types, AcceptedOK, NEW d \in Database, Truthful(d, receipt, survey.seq),
           NEW n \in d.mark..survey.seq, DoneThrough(d, n),
           NEW u \in Replies, Accepted(u), receipt[u].seq <= n
    PROVE  \/ receipt[u].seq <= d.mark
           \/ d.source[u] # None
           \/ receipt[u].seq \in d.abandoned
<1>1. d.mark \in Nat /\ n \in Nat /\ receipt[u].seq \in Nat
  BY SequenceTypes DEF Sequences, Database
<1>2. SUFFICES ASSUME receipt[u].seq \in Done(d)
               PROVE  d.source[u] # None \/ receipt[u].seq \in d.abandoned
  BY <1>1 DEF DoneThrough
<1>3. ASSUME NEW v \in Written(d), receipt[u].seq = receipt[v].seq
      PROVE  d.source[u] # None
  <2>1. v \in Replies /\ d.source[v] # None /\ Accepted(v)
    BY DEF Written, Truthful, AcceptedOK
  <2> QED BY <1>3, <2>1 DEF AcceptedOK
<1> QED BY <1>2, <1>3 DEF Done

LEMMA AdvanceIsTrue ==
    ASSUME Types, AcceptedOK, NEW d \in Database, Truthful(d, receipt, survey.seq),
           NEW n \in d.mark..survey.seq, DoneThrough(d, n)
    PROVE  Truthful([d EXCEPT !.mark = n, !.abandoned = {s \in @ : s > n}], receipt, survey.seq)
<1> DEFINE new == [d EXCEPT !.mark = n, !.abandoned = {s \in @ : s > n}]
<1>1. new.mark = n /\ new.source = d.source /\ new.acks = d.acks /\ new.abandoned \subseteq d.abandoned
  BY DEF Database
<1>2. n <= survey.seq
  BY SequenceTypes DEF Database
<1>3. ASSUME NEW u \in Replies, Accepted(u), receipt[u].seq <= n
      PROVE  d.source[u] # None \/ receipt[u].status = "abandoned"
  BY <1>3, PassedOver DEF Truthful, Accepted
<1> HIDE DEF new
<1>4. Truthful(new, receipt, survey.seq)
  BY <1>1, <1>2, <1>3 DEF Truthful, Accepted
<1> QED BY <1>4 DEF new

LEMMA AdvancedGrows ==
    ASSUME Types, Inv, NEW d \in Database, Extends(d), CommitAdvanced(d)
    PROVE  DiskGrows
<1>1. PICK n \in d.mark..survey.seq :
          DoneThrough(d, n) /\ Commit([d EXCEPT !.mark = n, !.abandoned = {s \in @ : s > n}])
  BY DEF CommitAdvanced
<1>2. Extends([d EXCEPT !.mark = n, !.abandoned = {s \in @ : s > n}])
  BY <1>1, AdvanceIsTrue DEF Inv, Extends, Database
<1> QED BY <1>1, <1>2, CommitGrows

LEMMA WrittenIsTrue ==
    ASSUME Types, Inv, NEW u \in Replies, Accepted(u), db.source[u] = None
    PROVE  Extends([db EXCEPT !.defined = TRUE, !.source[u] = receipt[u].payload, !.acks = @ \union {u}])
<1> DEFINE new == [db EXCEPT !.defined = TRUE, !.source[u] = receipt[u].payload, !.acks = @ \union {u}]
<1>1. /\ new.mark = db.mark /\ new.abandoned = db.abandoned /\ new.acks = db.acks \union {u}
      /\ new.source = [db.source EXCEPT ![u] = receipt[u].payload]
  BY DEF Types, NodeTypes, Database
<1>2. receipt[u].payload # None /\ db.source \in [Replies -> Maybe(Contents)] /\ db.acks \subseteq Replies
  BY DEF Inv, AcceptedOK, Types, NodeTypes, Database
<1>3. \A v \in Replies : new.source[v] = IF v = u THEN receipt[u].payload ELSE db.source[v]
  BY <1>1, <1>2
<1> HIDE DEF new
<1>4. Extends(new)
  BY <1>1, <1>2, <1>3 DEF Inv, Truthful, Extends
<1> QED BY <1>4 DEF new

LEMMA GivenUpIsTrue ==
    ASSUME Types, Inv,
           NEW given, given = {receipt[u].seq : u \in AbandonedReplies}
    PROVE  /\ [db EXCEPT !.abandoned = @ \union {s \in given : s > db.mark}] \in Database
           /\ Extends([db EXCEPT !.abandoned = @ \union {s \in given : s > db.mark}])
<1> DEFINE new == [db EXCEPT !.abandoned = @ \union {s \in given : s > db.mark}]
<1>1. AbandonedReplies \subseteq Replies /\ db \in Database /\ Sequences
  BY SequenceTypes DEF AbandonedReplies, Types, NodeTypes
<1>2. given \subseteq Nat
  BY <1>1 DEF Sequences
<1>3. new \in Database
  BY <1>1, <1>2 DEF Database
<1>4. /\ new.mark = db.mark /\ new.source = db.source /\ new.acks = db.acks
      /\ new.abandoned = db.abandoned \union {s \in given : s > db.mark}
  BY <1>1 DEF Database
<1>5. \A s \in given : s <= survey.seq
  BY <1>1 DEF Inv, AcceptedOK, Accepted, AbandonedReplies
<1>6. ASSUME NEW u \in Replies, Accepted(u), receipt[u].seq \in given
      PROVE  receipt[u].status = "abandoned"
  BY <1>6 DEF Inv, AcceptedOK, Accepted, AbandonedReplies
<1> HIDE DEF new
<1>7. Extends(new)
  BY <1>4, <1>5, <1>6 DEF Inv, Truthful, Extends, Accepted
<1> QED BY <1>3, <1>7 DEF new

LEMMA DiskMoves ==
    ASSUME Types, Inv, Next
    PROVE  DiskGrows
<1>1. ASSUME UNCHANGED <<db, disk>>
      PROVE  DiskGrows
  BY <1>1 DEF Inv, DiskOK, DiskGrows
<1>2. CASE \/ Publish \/ Toggle \/ \E r \in late : LateRequest(r)
           \/ \E u \in Replies : \/ Requeue(u) \/ Abandon(u) \/ DefinitionUnavailable(u) \/ Refuse(u)
                                 \/ \E content \in Contents : Submit(u, content)
           \/ Fetch \/ SendQuarantine \/ CallLost \/ Crash
  BY <1>1, <1>2 DEF Publish, Toggle, LateRequest, Requeue, Abandon, DefinitionUnavailable, Refuse, Submit,
       Fetch, SendQuarantine, CallLost, Crash, node
<1>3. db \in Database
  BY DEF Types, NodeTypes
<1>4. CASE StartCycle
  <2>1. Extends([db EXCEPT !.defined = survey.phase # "draft"])
    BY <1>3 DEF Inv, Truthful, Extends, Database
  <2> QED BY <1>4, <2>1, CommitGrows DEF StartCycle
<1>5. CASE SendAcks
  <2>1. PICK batch : Commit([db EXCEPT !.acks = @ \ Confirmed(AcksFor(batch))])
    BY <1>5 DEF SendAcks
  <2>2. Extends([db EXCEPT !.acks = @ \ Confirmed(AcksFor(batch))])
    BY <1>3 DEF Inv, Truthful, Extends, Database
  <2> QED BY <2>1, <2>2, CommitGrows
<1>6. CASE WithholdAcks
  BY <1>6, CommitGrows DEF WithholdAcks, Inv, Extends
<1>7. ASSUME NEW u \in Replies, Duplicate(u)
      PROVE  DiskGrows
  <2>1. u \in cycle.todo /\ db.source[u] # None
    BY <1>7 DEF Duplicate, NextEnvelope, At, Inv, CycleOK, AcceptedOK
  <2>2. Extends([db EXCEPT !.acks = @ \union {u}])
    BY <1>3, <2>1 DEF Inv, Truthful, Extends, Database
  <2> QED BY <1>7, <2>2, CommitGrows DEF Duplicate
<1>8. ASSUME NEW u \in Replies, WriteReply(u)
      PROVE  DiskGrows
  <2>1. Accepted(u) /\ db.source[u] = None
    BY <1>8 DEF WriteReply, NextEnvelope, At, IsNew, Inv, CycleOK
  <2> QED BY <1>8, <2>1, WrittenIsTrue, WrittenReplyType, AdvancedGrows DEF WriteReply
<1>9. CASE Heartbeat
  <2> DEFINE given == {receipt[u].seq : u \in AbandonedReplies}
  <2>1. \/ UNCHANGED <<db, disk>>
        \/ CommitAdvanced([db EXCEPT !.abandoned = @ \union {s \in given : s > db.mark}])
    BY <1>9 DEF Heartbeat
  <2>2. /\ [db EXCEPT !.abandoned = @ \union {s \in given : s > db.mark}] \in Database
        /\ Extends([db EXCEPT !.abandoned = @ \union {s \in given : s > db.mark}])
    BY GivenUpIsTrue
  <2> HIDE DEF given
  <2> QED BY <1>1, <2>1, <2>2, AdvancedGrows
<1>10. CASE PowerFails \/ Flush
  BY <1>10 DEF PowerFails, Flush, node, Inv, DiskOK, DiskGrows
<1> QED BY <1>2, <1>4, <1>5, <1>6, <1>7, <1>8, <1>9, <1>10 DEF Next, CycleStep

LEMMA LateRequestsOnDisk ==
    ASSUME Types, Inv, Next
    PROVE  \A r \in late' : r.kind = "ack" => disk.source[r.reply] # None
<1>1. \A r \in late : r.kind = "ack" => disk.source[r.reply] # None
  BY DEF Inv, DiskOK
<1>2. late' \subseteq late \/ CallLost
  BY DEF Next, CycleStep, Publish, Toggle, Submit, LateRequest, Requeue, Abandon, DefinitionUnavailable,
         StartCycle, SendAcks, WithholdAcks, Fetch, SendQuarantine, Heartbeat, Duplicate, WriteReply, Refuse,
         Crash, PowerFails, Flush
<1>3. ASSUME NEW batch \in Batches, late' = late \union AcksFor(batch),
             cycle.pc \in {"resend", "ack"}, MayAck
      PROVE  \A r \in late' : r.kind = "ack" => disk.source[r.reply] # None
  BY <1>1, <1>3, MayAckOnDisk DEF Batches
<1>4. ASSUME late' = late \union {[kind |-> "quarantine", reply |-> u, payload |-> None] : u \in cycle.refused}
      PROVE  \A r \in late' : r.kind = "ack" => disk.source[r.reply] # None
  BY <1>1, <1>4
<1>5. CASE CallLost
  BY <1>1, <1>3, <1>4, <1>5 DEF CallLost
<1> QED BY <1>1, <1>2, <1>5

LEMMA SyncedOnDisk ==
    ASSUME Types, Inv, CloudSteps, NEW u \in Replies, receipt'[u].status = "synced"
    PROVE  disk.source[u] # None
<1>1. receipt[u] \in Receipt
  BY DEF Types, RowTypes
<1>2. CASE Stored(u)
  BY <1>2 DEF Stored
<1>3. CASE CloudStep(u) \/ GivenUp(u)
  BY <1>1, <1>3 DEF CloudStep, GivenUp, Same, Moves, Inv, DiskOK, Receipt
<1> QED BY <1>2, <1>3, StepOfOne

\* Every commit of a durable cycle is on the disk at once.
LEMMA DurableCycle ==
    ASSUME Types, Inv, Next, durable', cycle'.pc # "idle"
    PROVE  disk' = db'
<1>1. ASSUME durable, cycle.pc # "idle"
      PROVE  disk = db
  BY <1>1 DEF Inv, DiskOK
<1>2. ASSUME NEW new, Commit(new), durable
      PROVE  disk' = db'
  BY <1>2 DEF Commit
<1>3. CASE \/ Publish \/ Toggle \/ \E r \in late : LateRequest(r)
           \/ \E u \in Replies : Requeue(u) \/ Abandon(u) \/ \E content \in Contents : Submit(u, content)
  BY <1>1, <1>3 DEF Publish, Toggle, LateRequest, Requeue, Abandon, Submit, node
<1>4. CASE \/ \E u \in Replies : Refuse(u) \/ DefinitionUnavailable(u)
           \/ Fetch \/ SendQuarantine
  BY <1>1, <1>4 DEF Refuse, DefinitionUnavailable, NextEnvelope, Fetch, SendQuarantine, At, AcksDone
<1>5. CASE StartCycle \/ SendAcks \/ WithholdAcks \/ \E u \in Replies : Duplicate(u)
  BY <1>2, <1>5 DEF StartCycle, SendAcks, WithholdAcks, Duplicate
<1>6. ASSUME NEW u \in Replies, WriteReply(u)
      PROVE  disk' = db'
  BY <1>2, <1>6 DEF WriteReply, CommitAdvanced
<1>7. CASE Heartbeat \/ CallLost \/ Crash \/ PowerFails
  <2>1. cycle' = NoCycle
    BY <1>7 DEF Heartbeat, CallLost, Crash, PowerFails
  <2> QED BY <2>1 DEF NoCycle
<1>8. CASE Flush
  BY <1>8 DEF Flush
<1> QED BY <1>3, <1>4, <1>5, <1>6, <1>7, <1>8 DEF Next, CycleStep

-----------------------------------------------------------------------------
(* The cycle's part of the invariant *)

\* What is still to be done in a page is accepted and ahead of the watermark.
Ahead(d, u) ==
    /\ Accepted(u)
    /\ d.source[u] = None => receipt[u].seq > d.mark /\ receipt[u].seq \notin d.abandoned

CyclePlan(c, d) ==
    /\ c.pc \in {"resend", "ack"} => c.todo \subseteq d.acks
    /\ c.pc = "intake" => \A u \in c.todo : Ahead(d, u)

LEMMA AfterIntakePlan ==
    ASSUME NEW c \in Cycle, NEW d, c.pc = "intake", \A u \in c.todo : Ahead(d, u)
    PROVE  CyclePlan(AfterIntake(c, d.acks), d)
BY DEF AfterIntake, CyclePlan, Cycle

LEMMA PendingIsAhead ==
    ASSUME Types, Inv, NEW u \in PendingBodies
    PROVE  u \in Replies /\ Ahead(db, u)
<1>1. u \in Replies /\ receipt[u].status = "received"
  BY DEF PendingBodies, Inv, AcceptedOK
<1> QED BY <1>1, SequenceTypes DEF Inv, Truthful, Ahead, Accepted, Sequences, Types, NodeTypes, Database

\* Writing a reply advances the watermark past none of the others in the page.
LEMMA WrittenPlan ==
    ASSUME Types, Inv, NEW u \in Replies, WriteReply(u)
    PROVE  CyclePlan(cycle', db')
<1> DEFINE d == [db EXCEPT !.defined = TRUE, !.source[u] = receipt[u].payload, !.acks = @ \union {u}]
           c == [cycle EXCEPT !.todo = @ \ {u}]
<1>1. /\ At("intake") /\ u \in cycle.todo /\ db.source[u] = None /\ CommitAdvanced(d)
      /\ cycle' = AfterIntake(c, db.acks \union {u})
  BY DEF WriteReply, NextEnvelope, IsNew
<1>2. \A v \in cycle.todo : Ahead(db, v)
  BY <1>1 DEF Inv, CycleOK, Ahead, At
<1>3. c \in Cycle /\ c.pc = "intake" /\ c.todo = cycle.todo \ {u} /\ cycle.todo \subseteq Replies
  BY <1>1 DEF Types, NodeTypes, Cycle, At
<1>4. /\ d.mark = db.mark /\ d.abandoned = db.abandoned /\ d.acks = db.acks \union {u}
      /\ \A v \in Replies \ {u} : d.source[v] = db.source[v]
  BY DEF Types, NodeTypes, Database
<1>5. d \in Database /\ Truthful(d, receipt, survey.seq)
  BY <1>1, <1>2, WrittenReplyType, WrittenIsTrue DEF Ahead, Extends
<1> HIDE DEF d, c
<1>6. PICK n \in d.mark..survey.seq :
          DoneThrough(d, n) /\ db' = [d EXCEPT !.mark = n, !.abandoned = {s \in @ : s > n}]
  BY <1>1 DEF CommitAdvanced, Commit
<1>7. db'.mark = n /\ db'.source = d.source /\ db'.acks = d.acks /\ db'.abandoned \subseteq d.abandoned
  BY <1>5, <1>6 DEF Database
<1>8. ASSUME NEW v \in c.todo
      PROVE  Ahead(db', v)
  <2>1. v \in Replies \ {u} /\ Accepted(v)
    BY <1>2, <1>3, <1>8 DEF Ahead
  <2>2. SUFFICES ASSUME d.source[v] = None
                 PROVE  receipt[v].seq > n /\ receipt[v].seq \notin db'.abandoned
    BY <1>7, <2>1 DEF Ahead
  <2>3. receipt[v].seq > db.mark /\ receipt[v].seq \notin db.abandoned
    BY <1>2, <1>3, <1>4, <1>8, <2>1, <2>2 DEF Ahead
  <2>4. ~(receipt[v].seq <= n)
    BY <1>4, <1>5, <1>6, <2>1, <2>2, <2>3, PassedOver, SequenceTypes DEF Inv, Sequences, Database
  <2> QED BY <1>4, <1>5, <1>7, <2>1, <2>3, <2>4, SequenceTypes DEF Sequences, Database
<1> QED BY <1>1, <1>3, <1>4, <1>7, <1>8, AfterIntakePlan

LEMMA PlanMoves ==
    ASSUME Types, Inv, Next
    PROVE  CyclePlan(cycle', db')
<1>1. CyclePlan(cycle, db)
  BY DEF Inv, CycleOK, CyclePlan, Ahead
<1>2. db \in Database /\ cycle \in Cycle
  BY DEF Types, NodeTypes
<1>3. CASE \/ Publish \/ Toggle \/ Flush \/ \E r \in late : LateRequest(r)
           \/ \E u \in Replies : Requeue(u) \/ Abandon(u) \/ \E content \in Contents : Submit(u, content)
  BY <1>1, <1>3 DEF Publish, Toggle, Flush, LateRequest, Requeue, Abandon, Submit, node
<1>4. CASE StartCycle
  BY <1>2, <1>4 DEF StartCycle, Commit, NoCycle, CyclePlan, Database
<1>5. CASE SendAcks
  <2>1. PICK batch \in Batches :
           LET confirmed == Confirmed(AcksFor(batch)) IN
           /\ Commit([db EXCEPT !.acks = @ \ confirmed])
           /\ cycle' = [cycle EXCEPT !.todo = @ \ batch, !.progress = @ \/ confirmed # {}]
    BY <1>5 DEF SendAcks
  <2>2. db'.acks = db.acks \ Confirmed(AcksFor(batch))
    BY <1>2, <2>1 DEF Commit, Database
  <2>3. cycle'.pc = cycle.pc /\ cycle'.todo = cycle.todo \ batch
    BY <1>2, <2>1 DEF Cycle
  <2>4. Confirmed(AcksFor(batch)) \subseteq batch
    BY DEF Confirmed, AcksFor
  <2> QED BY <1>1, <1>5, <2>2, <2>3, <2>4 DEF SendAcks, CyclePlan
<1>6. CASE WithholdAcks
  BY <1>2, <1>6 DEF WithholdAcks, CyclePlan, Cycle
<1>7. CASE Fetch
  <2> DEFINE c == [NoCycle EXCEPT !.pc = "intake", !.todo = OldestPending, !.page = OldestPending,
                                  !.more = PendingBodies # OldestPending]
  <2>1. c \in Cycle /\ c.pc = "intake" /\ c.todo = OldestPending
    BY NoCycleType DEF Cycle, OldestPending, PendingBodies
  <2>2. \A u \in OldestPending : Ahead(db, u)
    BY PendingIsAhead DEF OldestPending
  <2> HIDE DEF c
  <2>3. cycle' = AfterIntake(c, db.acks) /\ db' = db
    BY <1>7 DEF Fetch, c
  <2> QED BY <2>1, <2>2, <2>3, AfterIntakePlan
<1>8. ASSUME NEW u \in Replies, Duplicate(u)
      PROVE  CyclePlan(cycle', db')
  <2> DEFINE c == [cycle EXCEPT !.todo = @ \ {u}]
  <2>1. db' = [db EXCEPT !.acks = @ \union {u}] /\ cycle' = AfterIntake(c, db.acks \union {u})
    BY <1>8 DEF Duplicate, Commit
  <2>2. c \in Cycle /\ c.pc = "intake" /\ c.todo \subseteq cycle.todo
    BY <1>2, <1>8 DEF Duplicate, NextEnvelope, At, Cycle
  <2>3. /\ db'.acks = db.acks \union {u} /\ db'.source = db.source
        /\ db'.mark = db.mark /\ db'.abandoned = db.abandoned
    BY <1>2, <2>1 DEF Database
  <2>4. \A v \in c.todo : Ahead(db', v)
    BY <1>1, <1>8, <2>2, <2>3 DEF Duplicate, NextEnvelope, At, CyclePlan, Ahead
  <2> HIDE DEF c
  <2> QED BY <2>1, <2>2, <2>3, <2>4, AfterIntakePlan
<1>9. ASSUME NEW u \in Replies, Refuse(u) \/ DefinitionUnavailable(u)
      PROVE  CyclePlan(cycle', db')
  <2>1. db' = db /\ Refusal(u) /\ cycle.pc = "intake"
    BY <1>9 DEF Refuse, DefinitionUnavailable, NextEnvelope, At
  <2>2. cycle'.pc = "intake" /\ cycle'.todo \subseteq cycle.todo
    BY <1>2, <2>1 DEF Refusal, Cycle
  <2> QED BY <1>1, <2>1, <2>2 DEF CyclePlan, Ahead
<1>10. CASE SendQuarantine
  BY <1>2, <1>10 DEF SendQuarantine, CyclePlan, Cycle
<1>11. CASE Heartbeat \/ CallLost \/ Crash \/ PowerFails
  BY <1>11 DEF Heartbeat, CallLost, Crash, PowerFails, NoCycle, CyclePlan
<1> QED BY <1>3, <1>4, <1>5, <1>6, <1>7, <1>8, <1>9, <1>10, <1>11, WrittenPlan DEF Next, CycleStep

LEMMA InvStep == Types /\ Inv /\ [Next]_vars => Inv'
<1>1. ASSUME Types, Inv, UNCHANGED vars
      PROVE  Inv'
  BY <1>1 DEF Inv, AcceptedOK, Accepted, DiskOK, CycleOK, vars
<1>2. ASSUME Types, Inv, Next
      PROVE  Inv'
  <2>1. Types' /\ CloudSteps /\ DiskGrows
    BY <1>2, TypesStep, CloudMoves, DiskMoves
  <2>2. AcceptedOK'
    BY <1>2, <2>1, AcceptedStep DEF Inv
  <2>3. Truthful(db', receipt', survey'.seq) /\ Truthful(disk', receipt', survey'.seq)
    <3>1. db' \in Database /\ disk' \in Database
      BY <2>1 DEF Types, NodeTypes
    <3> QED BY <1>2, <2>1, <3>1, TruthStays DEF Inv, DiskGrows
  <2>4. DiskOK'
    <3>1. \A r \in late' : r.reply \in Replies
      BY <2>1 DEF Types, NodeTypes, Request
    <3>2. \A r \in late' : r.kind = "ack" => disk'.source[r.reply] # None
      BY <1>2, <2>1, <3>1, LateRequestsOnDisk DEF DiskGrows
    <3>3. \A u \in Replies : receipt'[u].status = "synced" => disk'.source[u] # None
      BY <1>2, <2>1, SyncedOnDisk DEF DiskGrows
    <3> QED BY <1>2, <2>1, <3>2, <3>3, DurableCycle DEF DiskOK, DiskGrows
  <2>5. CycleOK'
    <3>1. CyclePlan(cycle', db') /\ cycle'.todo \subseteq Replies
      BY <1>2, <2>1, PlanMoves DEF Types, NodeTypes, Cycle
    <3>2. \A u \in Replies : Accepted(u) => Accepted(u)' /\ receipt'[u].seq = receipt[u].seq
      BY <1>2, <2>1, ReceiptKeeps DEF Inv
    <3> QED BY <3>1, <3>2 DEF CycleOK, CyclePlan, Ahead
  <2> QED BY <2>2, <2>3, <2>4, <2>5 DEF Inv
<1> QED BY <1>1, <1>2

LEMMA InitInv == Init => Inv
BY DEF Init, EmptyDatabase, NoCycle, Inv, AcceptedOK, Accepted, Truthful, DiskOK, CycleOK

LEMMA InvCorrect == Spec => []Inv
BY InitTypes, TypesStep, InitInv, InvStep, PTL DEF Spec

\* The website keeps the body of every reply it has accepted until that very reply is on
\* the node's disk, whatever calls are lost or late and whenever power fails.
THEOREM NoReplyLost == Spec => []NothingIsLost
<1>1. Inv => NothingIsLost
  BY DEF Inv, AcceptedOK, DiskOK, Truthful, NothingIsLost
<1> QED BY <1>1, InvCorrect, PTL

\* Nothing at or below the node's watermark is missing there unless it was given up.
THEOREM WatermarkCorrect == Spec => []WatermarkIsSound
<1>1. Inv => WatermarkIsSound
  BY DEF Inv, Truthful, WatermarkIsSound
<1> QED BY <1>1, InvCorrect, PTL

\* What an analysis has read up to the watermark is never written to afterwards.
THEOREM AnalysedRepliesFrozen == Spec => AnalysedRepliesAreFrozen
<1>1. ASSUME Types, Inv, Next, NEW u \in Replies, db.source[u] = None, db'.source[u] # None
      PROVE  receipt[u].seq > db.mark
  <2>1. db \in Database /\ Sequences
    BY <1>1, SequenceTypes DEF Types, NodeTypes
  <2>2. ASSUME NEW d \in Database, CommitAdvanced(d)
        PROVE  db'.source = d.source
    BY <2>2 DEF CommitAdvanced, Commit, Database
  <2>3. CASE WriteReply(u)
    BY <1>1, <2>1, <2>3 DEF WriteReply, NextEnvelope, At, Inv, CycleOK, Sequences, Database
  <2>4. ASSUME NEW v \in Replies \ {u}, WriteReply(v)
        PROVE  FALSE
    <3> DEFINE d == [db EXCEPT !.defined = TRUE, !.source[v] = receipt[v].payload, !.acks = @ \union {v}]
    <3>1. d \in Database /\ CommitAdvanced(d)
      BY <1>1, <2>4, WrittenReplyType DEF WriteReply
    <3>2. d.source[u] = db.source[u]
      BY <2>1 DEF Database
    <3> HIDE DEF d
    <3> QED BY <1>1, <2>2, <3>1, <3>2
  <2>5. CASE Heartbeat
    <3> DEFINE given == {receipt[v].seq : v \in AbandonedReplies}
               d == [db EXCEPT !.abandoned = @ \union {s \in given : s > db.mark}]
    <3>1. UNCHANGED <<db, disk>> \/ CommitAdvanced(d)
      BY <2>5 DEF Heartbeat
    <3>2. d \in Database /\ d.source = db.source
      BY <1>1, <2>1, GivenUpIsTrue DEF Database
    <3> HIDE DEF d
    <3> QED BY <1>1, <2>2, <3>1, <3>2
  <2>6. CASE StartCycle \/ SendAcks \/ WithholdAcks \/ \E v \in Replies : Duplicate(v)
    <3>1. db'.source = db.source
      BY <2>1, <2>6 DEF StartCycle, SendAcks, WithholdAcks, Duplicate, Commit, Database
    <3> QED BY <1>1, <3>1
  <2>7. CASE PowerFails
    BY <1>1, <2>7 DEF PowerFails, Inv, DiskOK
  <2>8. CASE UNCHANGED db
    BY <1>1, <2>8
  <2>9. CASE \/ Publish \/ Toggle \/ \E r \in late : LateRequest(r)
             \/ \E v \in Replies : \/ Requeue(v) \/ Abandon(v) \/ DefinitionUnavailable(v) \/ Refuse(v)
                                   \/ \E content \in Contents : Submit(v, content)
             \/ Fetch \/ SendQuarantine \/ CallLost \/ Crash \/ Flush
    BY <2>8, <2>9 DEF Publish, Toggle, LateRequest, Requeue, Abandon, DefinitionUnavailable, Refuse, Submit,
         Fetch, SendQuarantine, CallLost, Crash, Flush, node
  <2> QED BY <1>1, <2>3, <2>4, <2>5, <2>6, <2>7, <2>9 DEF Next, CycleStep
<1>2. Types /\ Inv /\ [Next]_vars =>
         [\A u \in Replies : db.source[u] = None /\ db'.source[u] # None => receipt[u].seq > db.mark]_db
  BY <1>1 DEF vars
<1> QED BY <1>2, TypesCorrect, InvCorrect, PTL DEF Spec, AnalysedRepliesAreFrozen

-----------------------------------------------------------------------------
(* The capacity of the inbox *)

Bodies == {u \in Replies : body[u] # "none"}

LEMMA BodiesAreFinite == IsFiniteSet(Bodies) /\ Cardinality(Bodies) \in Nat
BY InboxAssumption, FS_Subset, FS_CardinalityType DEF Bodies

\* The rows an ACK deletes are as many as the counter goes down by.
LEMMA AckCounts ==
    ASSUME CapacityIsExact, NEW requests, AckItems(requests), \A r \in requests : r.reply \in Replies
    PROVE  CapacityIsExact'
<1> DEFINE acked == {r.reply : r \in {q \in requests : Ackable(q)}}
<1>1. occupied' = occupied - Cardinality(acked)
  BY DEF AckItems
<1>2. Bodies' = Bodies \ acked /\ acked \subseteq Bodies
  BY DEF AckItems, Bodies, Ackable
<1> HIDE DEF acked
<1>3. /\ IsFiniteSet(acked) /\ Cardinality(acked) \in Nat
      /\ IsFiniteSet(Bodies \ acked) /\ Cardinality(Bodies \ acked) \in Nat
  BY <1>2, BodiesAreFinite, FS_Subset, FS_CardinalityType
<1>4. Bodies = (Bodies \ acked) \union acked /\ (Bodies \ acked) \intersect acked = {}
  BY <1>2
<1>5. Cardinality(Bodies) = Cardinality(Bodies \ acked) + Cardinality(acked)
  <2>1. Cardinality((Bodies \ acked) \union acked)
           = Cardinality(Bodies \ acked) + Cardinality(acked) - Cardinality((Bodies \ acked) \intersect acked)
    BY <1>3, FS_Union
  <2>2. Cardinality((Bodies \ acked) \intersect acked) = 0
    BY <1>4, FS_EmptySet
  <2>3. Cardinality((Bodies \ acked) \union acked) = Cardinality(Bodies)
    BY <1>4
  <2> QED BY <1>3, <2>1, <2>2, <2>3
<1>6. occupied = Cardinality(Bodies) /\ occupied <= MaxCount
  BY DEF CapacityIsExact, Bodies
<1>7. occupied' = Cardinality(Bodies') /\ occupied' <= MaxCount
  BY <1>1, <1>2, <1>3, <1>5, <1>6, BodiesAreFinite, InboxAssumption
<1> QED BY <1>7 DEF CapacityIsExact, Bodies

LEMMA CapacityStep == Types /\ Inv /\ CapacityIsExact /\ [Next]_vars => CapacityIsExact'
<1> SUFFICES ASSUME Types, Inv, CapacityIsExact, [Next]_vars
             PROVE  CapacityIsExact'
  OBVIOUS
<1>1. occupied = Cardinality(Bodies) /\ occupied \in Nat /\ occupied <= MaxCount /\ MaxCount \in Nat
  BY BodiesAreFinite, InboxAssumption DEF CapacityIsExact, Bodies
<1>2. ASSUME Bodies' = Bodies, occupied' = occupied
      PROVE  CapacityIsExact'
  BY <1>1, <1>2 DEF CapacityIsExact, Bodies
<1>3. ASSUME NEW replies, QuarantineItems(replies)
      PROVE  CapacityIsExact'
  <2>1. Bodies' = Bodies
    BY <1>3 DEF QuarantineItems, Bodies
  <2> QED BY <1>2, <1>3, <2>1 DEF QuarantineItems
<1>4. ASSUME NEW u \in Replies, NEW content \in Contents, Store(u, content), receipt[u].status = "none",
             occupied < MaxCount
      PROVE  CapacityIsExact'
  <2>1. u \notin Bodies /\ Bodies' = Bodies \union {u} /\ occupied' = occupied + 1
    BY <1>4 DEF Store, Bodies, Inv, AcceptedOK, Types, RowTypes
  <2>2. Cardinality(Bodies') = occupied'
    BY <1>1, <2>1, BodiesAreFinite, FS_AddElement
  <2> QED BY <1>1, <1>4, <2>1, <2>2 DEF CapacityIsExact, Bodies
<1>5. ASSUME NEW u \in Replies, NEW content \in Contents, Submit(u, content)
      PROVE  CapacityIsExact'
  <2>1. CASE Verdict(u, content) = "accepted" /\ receipt[u].status = "none"
    <3>1. Store(u, content)
      BY <1>5, <2>1 DEF Submit
    <3>2. ~(occupied >= MaxCount)
      BY <2>1 DEF Verdict
    <3> QED BY <1>1, <1>4, <2>1, <3>1, <3>2
  <2>2. CASE UNCHANGED <<survey, receipt, body, occupied>>
    BY <1>2, <2>2 DEF Bodies
  <2> QED BY <1>5, <2>1, <2>2 DEF Submit
<1>6. ASSUME NEW r \in late, LateRequest(r)
      PROVE  CapacityIsExact'
  <2>1. r.reply \in Replies
    BY DEF Types, NodeTypes, Request
  <2> QED BY <1>3, <1>6, <2>1, AckCounts DEF LateRequest
<1>7. ASSUME NEW u \in Replies, Requeue(u)
      PROVE  CapacityIsExact'
  <2>1. Bodies' = Bodies
    BY <1>7 DEF Requeue, Bodies, Inv, AcceptedOK, Types, RowTypes
  <2> QED BY <1>2, <1>7, <2>1 DEF Requeue
<1>8. ASSUME NEW u \in Replies, Abandon(u)
      PROVE  CapacityIsExact'
  <2>1. u \in Bodies /\ Bodies' = Bodies \ {u} /\ occupied' = occupied - 1
    BY <1>8 DEF Abandon, Bodies, Inv, AcceptedOK, Types, RowTypes
  <2>2. Cardinality(Bodies') = occupied'
    BY <1>1, <2>1, BodiesAreFinite, FS_RemoveElement
  <2> QED BY <1>1, <2>1, <2>2 DEF CapacityIsExact, Bodies
<1>9. CASE SendAcks
  <2>1. PICK batch \in Batches : AckItems(AcksFor(batch))
    BY <1>9 DEF SendAcks
  <2>2. \A r \in AcksFor(batch) : r.reply \in Replies
    BY DEF AcksFor, Batches, Types, NodeTypes, Cycle
  <2> QED BY <2>1, <2>2, AckCounts
<1>10. CASE SendQuarantine
  BY <1>3, <1>10 DEF SendQuarantine
<1>11. CASE \/ Publish \/ Toggle \/ StartCycle \/ WithholdAcks \/ Fetch \/ Heartbeat \/ CallLost \/ Crash
            \/ PowerFails \/ Flush \/ UNCHANGED vars
            \/ \E u \in Replies : Duplicate(u) \/ WriteReply(u) \/ Refuse(u) \/ DefinitionUnavailable(u)
  <2>1. UNCHANGED <<body, occupied>>
    BY <1>11 DEF Publish, Toggle, StartCycle, WithholdAcks, Fetch, Heartbeat, CallLost, Crash, PowerFails,
         Flush, Duplicate, WriteReply, Refuse, DefinitionUnavailable, cloud, vars
  <2> QED BY <1>2, <2>1 DEF Bodies
<1> QED BY <1>5, <1>6, <1>7, <1>8, <1>9, <1>10, <1>11 DEF Next, CycleStep

LEMMA InitCapacity == Init => CapacityIsExact
<1> SUFFICES ASSUME Init
             PROVE  CapacityIsExact
  OBVIOUS
<1>1. {u \in Replies : body[u] # "none"} = {}
  BY DEF Init
<1> QED BY <1>1, FS_EmptySet, InboxAssumption DEF Init, CapacityIsExact

\* The capacity counter equals the number of bodies the inbox holds and stays within the
\* limit, whichever repeated, late or manual call released a body.
THEOREM CapacityCorrect == Spec => []CapacityIsExact
BY InitTypes, TypesStep, InitInv, InvStep, InitCapacity, CapacityStep, PTL DEF Spec

\* Rows, databases and the cycle's memory keep their shape; that the counter is a number
\* needs that it is exact.
THEOREM TypeCorrect == Spec => []TypeOK
<1>1. Types /\ CapacityIsExact => TypeOK
  BY BodiesAreFinite DEF Types, RowTypes, NodeTypes, CapacityIsExact, Bodies, TypeOK
<1> QED BY <1>1, TypesCorrect, CapacityCorrect, PTL

\* No one is told "closed" or "full" of a reply that the website has.
THEOREM RefusalCorrect == Spec => RefusedIsNotKept
<1>1. ASSUME Types, Next, NEW u \in Replies, shown'[u] # shown[u], shown'[u] \in {"closed", "full"}
      PROVE  receipt[u].status = "none"
  <2>1. PICK v \in Replies, content \in Contents : Submit(v, content) /\ shown' # shown
    BY <1>1 DEF Next, CycleStep, Publish, Toggle, LateRequest, Requeue, Abandon, DefinitionUnavailable,
         StartCycle, SendAcks, WithholdAcks, Fetch, SendQuarantine, Heartbeat, Duplicate, WriteReply, Refuse,
         CallLost, Crash, PowerFails, Flush, cloud
  <2>2. v = u /\ shown'[u] = Verdict(u, content)
    BY <1>1, <2>1 DEF Submit, Types, RowTypes
  <2> QED BY <1>1, <2>2 DEF Verdict
<1>2. Types /\ [Next]_vars =>
         [\A u \in Replies : shown'[u] # shown[u] /\ shown'[u] \in {"closed", "full"}
                                => receipt[u].status = "none"]_shown
  BY <1>1 DEF vars
<1> QED BY <1>2, TypesCorrect, PTL DEF Spec, RefusedIsNotKept

-----------------------------------------------------------------------------
(* The refinement of ReplyCustody *)

LEMMA CustodyCases ==
    ASSUME NEW u \in Replies
    PROVE  /\ disk.source[u] # None => CustodyOf(u) = "node"
           /\ disk.source[u] = None /\ body[u] # "none" => CustodyOf(u) = "cloud"
           /\ disk.source[u] = None /\ body[u] = "none" /\ receipt[u].status = "abandoned"
                 => CustodyOf(u) = "given up"
           /\ disk.source[u] = None /\ body[u] = "none" /\ receipt[u].status # "abandoned"
                 => CustodyOf(u) = "respondent"
<1>1. CASE disk.source[u] # None
  BY <1>1 DEF CustodyOf
<1>2. CASE disk.source[u] = None /\ body[u] # "none"
  BY <1>2 DEF CustodyOf
<1>3. CASE disk.source[u] = None /\ body[u] = "none" /\ receipt[u].status = "abandoned"
  BY <1>3 DEF CustodyOf
<1>4. CASE disk.source[u] = None /\ body[u] = "none" /\ receipt[u].status # "abandoned"
  BY <1>4 DEF CustodyOf
<1> QED BY <1>1, <1>2, <1>3, <1>4

LEMMA CustodyCasesLater ==
    ASSUME NEW u \in Replies
    PROVE  /\ disk'.source[u] # None => CustodyOf(u)' = "node"
           /\ disk'.source[u] = None /\ body'[u] # "none" => CustodyOf(u)' = "cloud"
           /\ disk'.source[u] = None /\ body'[u] = "none" /\ receipt'[u].status = "abandoned"
                 => CustodyOf(u)' = "given up"
           /\ disk'.source[u] = None /\ body'[u] = "none" /\ receipt'[u].status # "abandoned"
                 => CustodyOf(u)' = "respondent"
<1>1. CASE disk'.source[u] # None
  BY <1>1 DEF CustodyOf
<1>2. CASE disk'.source[u] = None /\ body'[u] # "none"
  BY <1>2 DEF CustodyOf
<1>3. CASE disk'.source[u] = None /\ body'[u] = "none" /\ receipt'[u].status = "abandoned"
  BY <1>3 DEF CustodyOf
<1>4. CASE disk'.source[u] = None /\ body'[u] = "none" /\ receipt'[u].status # "abandoned"
  BY <1>4 DEF CustodyOf
<1> QED BY <1>1, <1>2, <1>3, <1>4

\* A step moves replies on the website or to the disk, never both.
LEMMA OneSideAtATime ==
    ASSUME Types, Inv, Next
    PROVE  UNCHANGED <<receipt, body>> \/ \A u \in Replies : disk'.source[u] = disk.source[u]
<1>1. CASE \/ Publish \/ Toggle \/ SendQuarantine \/ \E r \in late : LateRequest(r)
           \/ \E u \in Replies : \/ Requeue(u) \/ Abandon(u)
                                 \/ \E content \in Contents : Submit(u, content)
  BY <1>1 DEF Publish, Toggle, SendQuarantine, LateRequest, Requeue, Abandon, Submit, node
<1>2. CASE \/ StartCycle \/ WithholdAcks \/ Fetch \/ Heartbeat \/ CallLost \/ Crash \/ PowerFails \/ Flush
           \/ \E u \in Replies : Duplicate(u) \/ WriteReply(u) \/ Refuse(u) \/ DefinitionUnavailable(u)
  BY <1>2 DEF StartCycle, WithholdAcks, Fetch, Heartbeat, CallLost, Crash, PowerFails, Flush,
       Duplicate, WriteReply, Refuse, DefinitionUnavailable, cloud
<1>3. CASE SendAcks
  <2>1. PICK batch \in Batches : Commit([db EXCEPT !.acks = @ \ Confirmed(AcksFor(batch))])
    BY <1>3 DEF SendAcks
  <2>2. disk = db /\ durable
    BY <1>3 DEF SendAcks, MayAck, Inv, DiskOK
  <2> QED BY <2>1, <2>2 DEF Commit, Types, NodeTypes, Database
<1> QED BY <1>1, <1>2, <1>3 DEF Next, CycleStep

\* What reaches the disk was in the cloud, or an operator had given it up.
LEMMA HandsOver ==
    ASSUME Types, Inv, DiskGrows, UNCHANGED <<receipt, body>>
    PROVE  Custody!Next
<1> DEFINE gained == {u \in Replies : disk.source[u] = None /\ disk'.source[u] # None}
<1>1. ASSUME NEW u \in gained
      PROVE  CustodyOf(u) \in {"cloud", "given up"}
  <2>1. Accepted(u)
    BY DEF DiskGrows, Truthful, Inv, AcceptedOK
  <2>2. receipt[u].status # "synced"
    BY DEF Inv, DiskOK
  <2>3. body[u] # "none" \/ (body[u] = "none" /\ receipt[u].status = "abandoned")
    BY <2>1, <2>2 DEF Accepted, Inv, AcceptedOK, Types, RowTypes, Receipt
  <2> QED BY <2>3, CustodyCases
<1>2. ASSUME NEW u \in Replies
      PROVE  CustodyOf(u)' = IF u \in gained THEN "node" ELSE CustodyOf(u)
  BY CustodyCases, CustodyCasesLater DEF DiskGrows
<1>3. [u \in Replies |-> CustodyOf(u)]' = [u \in Replies |-> IF u \in gained THEN "node" ELSE CustodyOf(u)]
  BY <1>2
<1>4. gained \in SUBSET Replies
  OBVIOUS
<1> HIDE DEF gained
<1>5. Custody!HandOver(gained)
  BY <1>1, <1>3, <1>4 DEF Custody!HandOver
<1> QED BY <1>4, <1>5 DEF Custody!Next

LEMMA SameCustody ==
    ASSUME NEW u \in Replies, disk'.source[u] = disk.source[u], Same(u)
    PROVE  CustodyOf(u)' = CustodyOf(u)
BY DEF Same, CustodyOf

LEMMA KeptOnDisk ==
    ASSUME NEW u \in Replies, disk'.source[u] = disk.source[u], disk.source[u] # None
    PROVE  CustodyOf(u)' = CustodyOf(u)
<1>1. CustodyOf(u) = "node"
  BY CustodyCases
<1>2. CustodyOf(u)' = "node"
  BY CustodyCasesLater
<1> QED BY <1>1, <1>2

LEMMA KeptInCloud ==
    ASSUME NEW u \in Replies, disk'.source[u] = disk.source[u], disk.source[u] = None,
           body[u] # "none", body'[u] # "none"
    PROVE  CustodyOf(u)' = CustodyOf(u)
<1>1. CustodyOf(u) = "cloud"
  BY CustodyCases
<1>2. CustodyOf(u)' = "cloud"
  BY CustodyCasesLater
<1> QED BY <1>1, <1>2

LEMMA WebsiteRefines ==
    ASSUME Types, Inv, CloudSteps, \A u \in Replies : disk'.source[u] = disk.source[u]
    PROVE  Custody!Next \/ UNCHANGED [u \in Replies |-> CustodyOf(u)]
<1> DEFINE Holder == [u \in Replies |-> CustodyOf(u)]
<1>1. CASE \A u \in Replies : CloudStep(u)
  <2>1. ASSUME NEW u \in Replies
        PROVE  CustodyOf(u)' = CustodyOf(u)
    <3>1. receipt[u] \in Receipt
      BY DEF Types, RowTypes
    <3>2. CASE Same(u)
      BY <3>2, SameCustody
    <3>3. CASE disk.source[u] # None
      BY <3>3, KeptOnDisk
    <3>4. CASE ~Same(u) /\ disk.source[u] = None
      <4>1. body[u] # "none" /\ body'[u] # "none"
        BY <1>1, <3>4 DEF CloudStep, Moves
      <4> QED BY <3>4, <4>1, KeptInCloud
    <3> QED BY <3>2, <3>3, <3>4
  <2> QED BY <2>1
<1>2. ASSUME NEW u \in Replies, Stored(u), OnlyOne(u)
      PROVE  Custody!Next
  <2>1. disk.source[u] = None /\ body[u] = "none" /\ receipt[u].status # "abandoned"
    BY <1>2 DEF Stored, Accepted, Inv, AcceptedOK, Truthful, Types, RowTypes
  <2>2. CustodyOf(u) = "respondent" /\ CustodyOf(u)' = "cloud"
    BY <1>2, <2>1, CustodyCases, CustodyCasesLater DEF Stored
  <2>3. \A v \in Replies \ {u} : CustodyOf(v)' = CustodyOf(v)
    BY <1>2, SameCustody DEF OnlyOne
  <2>4. Custody!Accept(u)
    BY <2>2, <2>3 DEF Custody!Accept
  <2> QED BY <2>4 DEF Custody!Next
<1>3. ASSUME NEW u \in Replies, GivenUp(u), OnlyOne(u)
      PROVE  Custody!Next \/ UNCHANGED Holder
  <2>1. \A v \in Replies \ {u} : CustodyOf(v)' = CustodyOf(v)
    BY <1>3, SameCustody DEF OnlyOne
  <2>2. CASE disk.source[u] # None
    <3>1. CustodyOf(u)' = CustodyOf(u)
      BY <2>2, KeptOnDisk
    <3> QED BY <2>1, <3>1
  <2>3. CASE disk.source[u] = None
    <3>1. body[u] # "none" /\ body'[u] = "none" /\ receipt'[u].status = "abandoned"
      BY <1>3 DEF GivenUp, Moves, Types, RowTypes, Receipt
    <3>2. CustodyOf(u) = "cloud" /\ CustodyOf(u)' = "given up"
      BY <2>3, <3>1, CustodyCases, CustodyCasesLater
    <3>3. Custody!GiveUp(u)
      BY <2>1, <3>2 DEF Custody!GiveUp
    <3> QED BY <3>3 DEF Custody!Next
  <2> QED BY <2>2, <2>3
<1> QED BY <1>1, <1>2, <1>3 DEF CloudSteps

\* The hand-over of replies implements ReplyCustody: a reply is always in someone's custody,
\* and the cloud lets go of it only to the node's disk or by an operator's decision.
THEOREM CustodyCorrect == Spec => CustodyIsKept
<1>1. Init => Custody!Init
  BY DEF Init, EmptyDatabase, CustodyOf, Custody!Init
<1>2. Types /\ Inv /\ [Next]_vars => [Custody!Next]_([u \in Replies |-> CustodyOf(u)])
  <2>1. ASSUME Types, Inv, Next
        PROVE  Custody!Next \/ UNCHANGED [u \in Replies |-> CustodyOf(u)]
    BY <2>1, CloudMoves, DiskMoves, OneSideAtATime, HandsOver, WebsiteRefines
  <2>2. UNCHANGED vars => UNCHANGED [u \in Replies |-> CustodyOf(u)]
    BY DEF vars, CustodyOf
  <2> QED BY <2>1, <2>2
<1> QED BY <1>1, <1>2, TypesCorrect, InvCorrect, PTL DEF Spec, CustodyIsKept, Custody!Spec
=============================================================================
