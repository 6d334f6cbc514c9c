------------------------------ MODULE InboxSync ------------------------------
(***************************************************************************)
(* The way of a reply from the browser to the node that owns its survey:   *)
(* the cloud inbox (cloudapi/inbox.py: intake, ACK, quarantine, requeue,   *)
(* abandon), the node's intake (cloudsync/inbox.py), its reply watermark   *)
(* (cloudsync/models.py) and the part of the sync cycle that runs them     *)
(* (cloudsync/runner.py).  One node, one published survey.                 *)
(*                                                                         *)
(* A call of the node either succeeds, one step on both sides, or the node *)
(* gives up and the request is still on its way: it is carried out later,  *)
(* item by item, or never.                                                 *)
(***************************************************************************)
EXTENDS Naturals, FiniteSets

CONSTANTS
    Replies,      \* submission_uuid of every form that is filled in
    Contents,     \* what the forms can say: the answers and the consent
    Unreadable,   \* replies whose envelope the node cannot decode
    Conflicting,  \* replies whose uuid a reply of the node's own already has
    MaxCount,     \* settings.CLOUD_INBOX_MAX_COUNT
    PageSize,     \* items of one inbox page
    AckBatch,     \* items of one ACK call
    Disturbances, \* the kinds of disturbance of an instance: a subset of DisturbanceKinds
    MaxEvents,    \* bound on the number of disturbances
    None

DisturbanceKinds == {"lost", "crash", "power", "toggle", "requeue"}

ASSUME InboxAssumption ==
    /\ MaxCount \in Nat /\ MaxEvents \in Nat
    /\ PageSize \in Nat \ {0} /\ AckBatch \in Nat \ {0}
    /\ Unreadable \subseteq Replies /\ Conflicting \subseteq Replies
    /\ Disturbances \subseteq DisturbanceKinds
    /\ IsFiniteSet(Replies) /\ None \notin Contents

VARIABLES
    survey,    \* the cloud's survey row: its phase and response_sequence
    receipt,   \* the rows of SubmissionReceipt
    body,      \* the state of each reply's InboxSubmission row
    occupied,  \* InboxCounter.occupied_count
    shown,     \* what the respondent's browser was told last
    db,        \* the node's database as its processes see it
    disk,      \* what of it survives a power failure
    durable,   \* commits_are_durable()
    cycle,     \* the sync cycle in progress
    late,      \* requests the node gave up on and the cloud may still carry out
    events     \* the disturbances so far

vars == <<survey, receipt, body, occupied, shown, db, disk, durable, cycle, late, events>>
cloud == <<survey, receipt, body, occupied, shown>>
node == <<db, disk, durable, cycle>>

Maybe(S) == S \union {None}

Receipt == [status: {"none", "received", "synced", "quarantined", "abandoned"},
            payload: Maybe(Contents), seq: Nat]
Database == [defined: BOOLEAN,                    \* the published definition is here
             source: [Replies -> Maybe(Contents)],\* replies written, with their payload_hash
             acks: SUBSET Replies,                \* the rows of PendingAck
             mark: Nat,                           \* synced_through_sequence
             abandoned: SUBSET Nat]               \* abandoned_sequences
Request == [kind: {"ack", "quarantine"}, reply: Replies, payload: Maybe(Contents)]
Cycle == [pc: {"idle", "resend", "intake", "ack"}, todo: SUBSET Replies, page: SUBSET Replies,
          refused: SUBSET Replies, more: BOOLEAN, progress: BOOLEAN]

NoCycle == [pc |-> "idle", todo |-> {}, page |-> {}, refused |-> {}, more |-> FALSE, progress |-> FALSE]

Disturbance(kind) ==
    kind \in Disturbances /\ events < MaxEvents /\ events' = events + 1

-----------------------------------------------------------------------------
(* The respondent and the survey *)

Publish ==
    /\ survey.phase = "draft"
    /\ survey' = [survey EXCEPT !.phase = "open"]
    /\ UNCHANGED <<receipt, body, occupied, shown, node, late, events>>

\* Closed or opened again, archived or restored; the published form never changes.
Toggle ==
    /\ Disturbance("toggle")
    /\ survey.phase # "draft"
    /\ survey' = [survey EXCEPT !.phase = IF @ = "open" THEN "closed" ELSE "open"]
    /\ UNCHANGED <<receipt, body, occupied, shown, node, late>>

SameReply(u, content) == receipt[u].payload = content /\ receipt[u].status # "abandoned"

Verdict(u, content) ==
    IF receipt[u].status # "none"
    THEN IF SameReply(u, content) THEN "accepted" ELSE "rejected"
    ELSE IF survey.phase # "open" THEN "closed"
    ELSE IF occupied >= MaxCount THEN "full"
    ELSE "accepted"

Store(u, content) ==
    /\ survey' = [survey EXCEPT !.seq = @ + 1]
    /\ receipt' = [receipt EXCEPT ![u] =
          [status |-> "received", payload |-> content, seq |-> survey.seq + 1]]
    /\ body' = [body EXCEPT ![u] = "pending"]
    /\ occupied' = occupied + 1

\* accept_submission and its answer, which may be lost on the way to the browser.
Submit(u, content) ==
    /\ survey.phase # "draft"
    /\ IF Verdict(u, content) = "accepted" /\ receipt[u].status = "none"
       THEN Store(u, content)
       ELSE UNCHANGED <<survey, receipt, body, occupied>>
    /\ \/ shown' = [shown EXCEPT ![u] = Verdict(u, content)] /\ UNCHANGED events
       \/ Disturbance("lost") /\ UNCHANGED shown
    /\ UNCHANGED <<node, late>>

-----------------------------------------------------------------------------
(* The cloud's side of the node's calls *)

\* Mutant: the condition on the state of the body is missing.
AckableByReceipt(r) ==
    receipt[r.reply].payload = r.payload /\ receipt[r.reply].status \in {"received", "synced"}
Ackable(r) == body[r.reply] = "pending" /\ receipt[r.reply].payload = r.payload

AlreadyAcked(r) == receipt[r.reply].status = "synced" /\ receipt[r.reply].payload = r.payload

AckItems(requests) ==
    LET acked == {r.reply : r \in {q \in requests : Ackable(q)}} IN
    /\ receipt' = [u \in Replies |->
                      IF u \in acked THEN [receipt[u] EXCEPT !.status = "synced"] ELSE receipt[u]]
    /\ body' = [u \in Replies |-> IF u \in acked THEN "none" ELSE body[u]]
    /\ occupied' = occupied - Cardinality(acked)

QuarantineItems(replies) ==
    LET moved == {u \in replies : body[u] = "pending"} IN
    /\ receipt' = [u \in Replies |->
                      IF u \in moved THEN [receipt[u] EXCEPT !.status = "quarantined"] ELSE receipt[u]]
    /\ body' = [u \in Replies |-> IF u \in moved THEN "quarantined" ELSE body[u]]
    /\ UNCHANGED occupied

\* A request the node gave up on reaches the cloud after all.
LateRequest(r) ==
    /\ r \in late
    /\ late' = late \ {r}
    /\ \/ r.kind = "ack" /\ AckItems({r})
       \/ r.kind = "quarantine" /\ QuarantineItems({r.reply})
    /\ UNCHANGED <<survey, shown, node, events>>

\* The operator's two ways out of quarantine.
Requeue(u) ==
    /\ Disturbance("requeue")
    /\ receipt[u].status = "quarantined"
    /\ receipt' = [receipt EXCEPT ![u].status = "received"]
    /\ body' = [body EXCEPT ![u] = "pending"]
    /\ UNCHANGED <<survey, occupied, shown, node, late>>

Abandon(u) ==
    /\ receipt[u].status = "quarantined"
    /\ receipt' = [receipt EXCEPT ![u].status = "abandoned"]
    /\ body' = [body EXCEPT ![u] = "none"]
    /\ occupied' = IF body[u] = "none" THEN occupied ELSE occupied - 1
    /\ UNCHANGED <<survey, shown, node, late, events>>

-----------------------------------------------------------------------------
(* The node's database *)

\* A commit reaches the disk at once when commits are durable, together with all before it.
Commit(new) ==
    /\ db' = new
    /\ disk' = IF durable THEN new ELSE disk

Written(d) == {u \in Replies : d.source[u] # None}
Done(d) == {receipt[u].seq : u \in Written(d)} \union d.abandoned

\* Mutant: the watermark jumps to a finished sequence over a gap.
LandsOnDone(d, n) == n \in Done(d) \union {d.mark} /\ n + 1 \notin Done(d)
DoneThrough(d, n) == (d.mark + 1)..n \subseteq Done(d) /\ n + 1 \notin Done(d)

\* SurveySyncState.advance; no sequence is beyond the cloud's counter.
CommitAdvanced(d) ==
    \E n \in d.mark..survey.seq :
        /\ DoneThrough(d, n)
        /\ Commit([d EXCEPT !.mark = n, !.abandoned = {s \in @ : s > n}])

-----------------------------------------------------------------------------
(* The sync cycle: one at a time, under _cycle_lock in the node's launcher process *)

At(pc) == cycle.pc = pc

\* sync_definitions saves its cursor, so it commits, whether or not something changed.
StartCycle ==
    /\ At("idle")
    /\ Commit([db EXCEPT !.defined = survey.phase # "draft"])
    /\ cycle' = [NoCycle EXCEPT !.pc = "resend", !.todo = db.acks]
    /\ UNCHANGED <<cloud, durable, late, events>>

AcksFor(replies) == {[kind |-> "ack", reply |-> u, payload |-> db.source[u]] : u \in replies}
Batches == {b \in (SUBSET cycle.todo) \ {{}} : Cardinality(b) <= AckBatch}

Confirmed(requests) == {r.reply : r \in {q \in requests : Ackable(q) \/ AlreadyAcked(q)}}

\* Mutant: ACKs go out whatever the durability of commits.
MayAckAlways == TRUE
MayAck == durable

\* One batch of _send_acks, at the start of the cycle and after each page.
SendAcks ==
    /\ cycle.pc \in {"resend", "ack"} /\ MayAck
    /\ \E batch \in Batches :
          LET confirmed == Confirmed(AcksFor(batch)) IN
          /\ AckItems(AcksFor(batch))
          /\ Commit([db EXCEPT !.acks = @ \ confirmed])
          /\ cycle' = [cycle EXCEPT !.todo = @ \ batch, !.progress = @ \/ confirmed # {}]
    /\ UNCHANGED <<survey, shown, durable, late, events>>

\* Not durable: nothing is sent, last_status says so.
WithholdAcks ==
    /\ cycle.pc \in {"resend", "ack"} /\ ~MayAck /\ cycle.todo # {}
    /\ Commit(db)
    /\ cycle' = [cycle EXCEPT !.todo = {}]
    /\ UNCHANGED <<cloud, durable, late, events>>

AcksDone(pc) == At(pc) /\ cycle.todo = {}
\* Mutant: the loop goes on while the cloud has more, whether or not the page made progress.
CloudHasMore == cycle.more /\ cycle.page # {}
PageLeftMore == cycle.more /\ cycle.page # {} /\ (cycle.progress \/ cycle.refused # {})

\* What follows the last envelope of a page when none of them was refused.
AfterIntake(c, acks) ==
    IF c.todo # {} \/ c.refused # {} THEN c ELSE [c EXCEPT !.pc = "ack", !.todo = c.page \intersect acks]

PendingBodies == {u \in Replies : body[u] = "pending"}
Older(u) == {v \in PendingBodies : receipt[v].seq < receipt[u].seq}
OldestPending == {u \in PendingBodies : Cardinality(Older(u)) < PageSize}

Fetch ==
    /\ AcksDone("resend") \/ (AcksDone("ack") /\ PageLeftMore)
    /\ cycle' = AfterIntake([NoCycle EXCEPT !.pc = "intake", !.todo = OldestPending, !.page = OldestPending,
                                            !.more = PendingBodies # OldestPending], db.acks)
    /\ UNCHANGED <<cloud, db, disk, durable, late, events>>

NextEnvelope(u) ==
    /\ At("intake") /\ u \in cycle.todo
    /\ \A v \in cycle.todo : receipt[u].seq <= receipt[v].seq

\* The reply is here already: only its PendingAck is made sure of.
Duplicate(u) ==
    /\ NextEnvelope(u) /\ u \notin Conflicting
    /\ db.source[u] = receipt[u].payload
    /\ Commit([db EXCEPT !.acks = @ \union {u}])
    /\ cycle' = AfterIntake([cycle EXCEPT !.todo = @ \ {u}], db.acks \union {u})
    /\ UNCHANGED <<cloud, durable, late, events>>

IsNew(u) == u \notin Conflicting /\ db.source[u] = None

\* _ensure_definition, _write_reply and advance_and_schedule.
WriteReply(u) ==
    /\ NextEnvelope(u) /\ IsNew(u) /\ u \notin Unreadable
    /\ CommitAdvanced([db EXCEPT !.defined = TRUE, !.source[u] = receipt[u].payload, !.acks = @ \union {u}])
    /\ cycle' = AfterIntake([cycle EXCEPT !.todo = @ \ {u}], db.acks \union {u})
    /\ UNCHANGED <<cloud, durable, late, events>>

Refusal(u) == cycle' = [cycle EXCEPT !.todo = @ \ {u}, !.refused = @ \union {u}]

\* content_conflict or answers_format.
Refuse(u) ==
    /\ NextEnvelope(u)
    /\ u \in Conflicting \/ IF IsNew(u) THEN u \in Unreadable ELSE db.source[u] # receipt[u].payload
    /\ Refusal(u)
    /\ UNCHANGED <<cloud, db, disk, durable, late, events>>

\* definition_unavailable: the definition was published after the cycle began and the
\* call that fetches it fails.
DefinitionUnavailable(u) ==
    /\ Disturbance("lost")
    /\ NextEnvelope(u) /\ IsNew(u) /\ u \notin Unreadable /\ ~db.defined
    /\ Refusal(u)
    /\ UNCHANGED <<cloud, db, disk, durable, late>>

SendQuarantine ==
    /\ At("intake") /\ cycle.todo = {} /\ cycle.refused # {}
    /\ QuarantineItems(cycle.refused)
    /\ cycle' = [cycle EXCEPT !.pc = "ack", !.todo = cycle.page \intersect db.acks]
    /\ UNCHANGED <<survey, shown, db, disk, durable, late, events>>

\* Mutant: quarantined replies count as given up.
NotExpected == {u \in Replies : receipt[u].status \in {"abandoned", "quarantined"}}
AbandonedReplies == {u \in Replies : receipt[u].status = "abandoned"}

\* The heartbeat's answer and _apply_abandoned end the part of the cycle modelled here.
Heartbeat ==
    /\ AcksDone("ack") /\ ~PageLeftMore
    /\ LET given == {receipt[u].seq : u \in AbandonedReplies} IN
       IF given = {}
       THEN UNCHANGED <<db, disk>>
       ELSE CommitAdvanced([db EXCEPT !.abandoned = @ \union {s \in given : s > db.mark}])
    /\ cycle' = NoCycle
    /\ UNCHANGED <<cloud, durable, late, events>>

\* The node gives up on a call after the client's timeout and ends the cycle.
CallLost ==
    /\ Disturbance("lost")
    /\ \/ /\ cycle.pc \in {"resend", "ack"} /\ MayAck
          /\ \E batch \in Batches : late' = late \union AcksFor(batch)
       \/ /\ At("intake") /\ cycle.todo = {} /\ cycle.refused # {}
          /\ late' = late \union {[kind |-> "quarantine", reply |-> u, payload |-> None] : u \in cycle.refused}
       \/ /\ AcksDone("resend") \/ AcksDone("ack")
          /\ UNCHANGED late
    /\ cycle' = NoCycle
    /\ UNCHANGED <<cloud, db, disk, durable>>

-----------------------------------------------------------------------------
(* The node's machine *)

\* The launcher process ends and starts again, maybe with other connection settings.
Crash ==
    /\ Disturbance("crash")
    /\ cycle' = NoCycle
    /\ durable' \in BOOLEAN
    /\ UNCHANGED <<cloud, db, disk, late>>

PowerFails ==
    /\ Disturbance("power")
    /\ db' = disk
    /\ cycle' = NoCycle
    /\ durable' \in BOOLEAN
    /\ UNCHANGED <<cloud, disk, late>>

\* Commits that were not durable reach the disk in the end.
Flush ==
    /\ disk # db
    /\ disk' = db
    /\ UNCHANGED <<cloud, db, durable, cycle, late, events>>

-----------------------------------------------------------------------------

EmptyDatabase == [defined |-> FALSE, source |-> [u \in Replies |-> None], acks |-> {},
                  mark |-> 0, abandoned |-> {}]

Init ==
    /\ survey = [phase |-> "draft", seq |-> 0]
    /\ receipt = [u \in Replies |-> [status |-> "none", payload |-> None, seq |-> 0]]
    /\ body = [u \in Replies |-> "none"]
    /\ occupied = 0
    /\ shown = [u \in Replies |-> "nothing"]
    /\ db = EmptyDatabase /\ disk = EmptyDatabase /\ durable \in BOOLEAN
    /\ cycle = NoCycle /\ late = {} /\ events = 0

\* What the cycle does when its calls succeed.
CycleStep ==
    \/ StartCycle \/ SendAcks \/ WithholdAcks \/ Fetch \/ SendQuarantine \/ Heartbeat
    \/ \E u \in Replies : Duplicate(u) \/ WriteReply(u) \/ Refuse(u)

Next ==
    \/ Publish \/ Toggle
    \/ \E u \in Replies, content \in Contents : Submit(u, content)
    \/ \E r \in late : LateRequest(r)
    \/ \E u \in Replies : Requeue(u) \/ Abandon(u) \/ DefinitionUnavailable(u)
    \/ CycleStep \/ CallLost \/ Crash \/ PowerFails \/ Flush

Spec == Init /\ [][Next]_vars

\* The launcher starts a cycle every five minutes whatever became of the last one
\* (run_periodically); calls fail and operators requeue only finitely often.
FairSpec == Spec /\ WF_vars(CycleStep)

-----------------------------------------------------------------------------
(* Properties *)

\* The shape of the rows on both sides and of the cycle's memory.
TypeOK ==
    /\ survey \in [phase: {"draft", "open", "closed"}, seq: Nat]
    /\ receipt \in [Replies -> Receipt]
    /\ body \in [Replies -> {"none", "pending", "quarantined"}]
    /\ occupied \in Nat
    /\ shown \in [Replies -> {"nothing", "accepted", "rejected", "closed", "full"}]
    /\ db \in Database /\ disk \in Database /\ durable \in BOOLEAN
    /\ cycle \in Cycle /\ late \subseteq Request /\ events \in Nat

\* No accepted reply is lost: the cloud keeps its body until the very reply is on the
\* node's disk, through lost and late calls, crashes and power failures; only an
\* operator's abandon gives it up (ack_items, _send_acks, commits_are_durable).
NothingIsLost ==
    \A u \in Replies :
        /\ receipt[u].status = "received" => body[u] = "pending"
        /\ receipt[u].status = "quarantined" => body[u] = "quarantined"
        /\ receipt[u].status = "synced" => disk.source[u] = receipt[u].payload

\* The counter is the number of bodies and never exceeds the limit, whichever of the
\* repeated, late and manual calls released a body (InboxCounter).
CapacityIsExact ==
    /\ occupied = Cardinality({u \in Replies : body[u] # "none"})
    /\ occupied <= MaxCount

\* Every reply up to the node's watermark is written there or was abandoned in the
\* cloud, with gaps, quarantined replies and lost commits (SurveySyncState.advance).
WatermarkIsSound ==
    \A u \in Replies :
        receipt[u].status # "none" /\ receipt[u].seq <= db.mark
            => db.source[u] # None \/ receipt[u].status = "abandoned"

\* A reply is only ever written above the watermark: what an analysis read up to it
\* (capture_scope) does not change afterwards.
AnalysedRepliesAreFrozen ==
    [][\A u \in Replies : db.source[u] = None /\ db'.source[u] # None => receipt[u].seq > db.mark]_db

\* No respondent is told that the survey is closed or full while the system has the
\* reply, because the answer to the same form was lost earlier (the resend check is first).
RefusedIsNotKept ==
    [][\A u \in Replies : shown'[u] # shown[u] /\ shown'[u] \in {"closed", "full"}
                             => receipt[u].status = "none"]_shown

\* Every reply the cloud holds moves on: fetched and acknowledged, or quarantined,
\* despite lost calls, crashes and pages that begin with replies the node refuses: these
\* do not keep the later ones out (sync_inbox, quarantine_items).
ReceivedMovesOn ==
    \A u \in Replies : receipt[u].status = "received" /\ durable
                           ~> receipt[u].status # "received" \/ ~durable

\* No cycle goes round on the same page for ever, when the replies on it can be neither
\* acknowledged nor refused: every cycle ends, and another can begin (sync_inbox).
EveryCycleEnds == ~At("idle") ~> At("idle")

\* When every reply is synced or given up, the watermark reaches the last of them
\* (advance_and_schedule in intake and in _apply_abandoned).
Resolved == \A u \in Replies : receipt[u].status \in {"none", "synced", "abandoned"}
WatermarkCatchesUp == Resolved ~> (~Resolved \/ db.mark = survey.seq)

\* The intake never comes to a stand: no page holds a cycle for ever, no reply stays on the
\* website because of others before it, and no gap that was closed holds up the watermark.
IntakeCatchesUp ==
    /\ EveryCycleEnds
    /\ ReceivedMovesOn
    /\ WatermarkCatchesUp

\* A PendingAck whose reply the cloud has marked synced is dropped in the end, also when
\* the answer to the ACK was lost or the request came late (already_acked).
AcksAreConfirmed ==
    \A u \in Replies : u \in db.acks /\ receipt[u].status = "synced" /\ durable
                           ~> u \notin db.acks \/ ~durable

\* The node answers for what is on its disk, the cloud for what it holds a body of.
CustodyOf(u) ==
    CASE disk.source[u] # None -> "node"
      [] disk.source[u] = None /\ body[u] # "none" -> "cloud"
      [] disk.source[u] = None /\ body[u] = "none" /\ receipt[u].status = "abandoned" -> "given up"
      [] OTHER -> "respondent"

Custody == INSTANCE ReplyCustody WITH custody <- [u \in Replies |-> CustodyOf(u)]

\* Every reply is in someone's custody from the moment it is accepted: the cloud lets go
\* of it only when the node's disk has it or an operator gives it up.
CustodyIsKept == Custody!Spec

-----------------------------------------------------------------------------
(* What the code's documentation says and the code does not do *)

\* cloudapi/inbox.py:273: the reply of an abandoned receipt is lost.  The node does not
\* have it.
AbandonedIsLost == \A u \in Replies : receipt[u].status = "abandoned" => db.source[u] = None
=============================================================================
