---------------------------- MODULE ResultPublish ----------------------------
(***************************************************************************)
(* The way of a published analysis from the node to the website:           *)
(* cloudsync/results.py freezes a publication into an upload inside the    *)
(* publishing transaction, cloudsync/runner.py sends the pending ones, and *)
(* cloudapi/results.py records each and decides whether the website shows  *)
(* it.  One node and one survey answered through the website's form.       *)
(*                                                                         *)
(* The node's database may be replaced by a backup.  What the replies and  *)
(* the definition do on their way to the node is InboxSync's subject; here *)
(* they are two numbers that grow.                                         *)
(***************************************************************************)
EXTENDS Naturals

CONSTANTS
    MaxPublications, MaxReplies, MaxDefinitions, \* bounds on what happens in an instance
    MaxDisturbances,                             \* calls lost or refused, databases restored
    None

ASSUME PublishAssumption ==
    /\ {MaxPublications, MaxReplies, MaxDefinitions, MaxDisturbances} \subseteq Nat
    /\ None \notin [at: Nat, mark: Nat, definition: Nat]

VARIABLES
    survey,    \* on the website: response_sequence, definition_version, the replies it has let go
    website,   \* what it shows: its SurveyAnalysisState
    records,   \* its history: the rows of PublishedResultRecord
    conflicts, \* uploads it refused because it knows them differently
    node,      \* the node's database
    backup,    \* an earlier copy of it
    cycle,     \* the memory of the sync cycle
    late,      \* uploads the node gave up waiting for and the website may still receive
    drawn,     \* the last publish_uuid, and the last published_at, that were given out
    disturbances, restored \* how many there were; was a backup restored

vars == <<survey, website, records, conflicts, node, backup, cycle, late, drawn, disturbances, restored>>
counters == <<drawn, disturbances, restored>>
cloud == <<website, records, conflicts>>

\* What a publication says, by its published_at, and what it was computed from.
Content == [at: Nat, mark: Nat, definition: Nat]
Upload == [id: Nat, seq: Nat, hash: Content, content: Content \union {None},
           status: {"pending", "uploaded", "stale", "failed"}]
Database == [mark: Nat, definition: Nat, \* synced_through_sequence and the survey's version
             origin: {"local", "cloud"},   \* cloud: the survey has a SurveyDefinitionRevision
             shown: Content,             \* what SurveyAnalysisState publishes
             cloudSeq: Nat, localSeq: Nat,
             uploads: SUBSET Upload]

Unpublished == [at |-> 0, mark |-> 0, definition |-> 0]

TypeOK ==
    /\ survey \in [replies: Nat, definition: Nat, released: Nat]
    /\ website \in [id: Nat, seq: Nat, shown: Content]
    /\ records \subseteq [id: Nat, seq: Nat, hash: Content]
    /\ conflicts \subseteq Nat
    /\ node \in Database /\ backup \in Database
    /\ cycle \in [pc: {"idle", "backfill", "upload"}, todo: SUBSET Upload]
    /\ late \subseteq Upload
    /\ drawn \in Nat /\ disturbances \in Nat /\ restored \in BOOLEAN

Disturbance ==
    disturbances < MaxDisturbances /\ disturbances' = disturbances + 1

Larger(m, n) == IF m >= n THEN m ELSE n

-----------------------------------------------------------------------------
(* What the results are computed from *)

ReplyArrives ==
    /\ survey.replies < MaxReplies
    /\ survey' = [survey EXCEPT !.replies = @ + 1]
    /\ UNCHANGED <<cloud, node, backup, cycle, late, counters>>

\* The watermark moves over a reply that the website still has, under its definition.
ReplyWritten ==
    /\ node.origin = "cloud"
    /\ node.mark < survey.replies /\ node.mark >= survey.released
    /\ node' = [node EXCEPT !.mark = @ + 1]
    /\ UNCHANGED <<survey, cloud, backup, cycle, late, counters>>

\* The website deletes the bodies of the replies that the node confirmed.
RepliesConfirmed ==
    /\ survey.released < node.mark
    /\ survey' = [survey EXCEPT !.released = node.mark]
    /\ UNCHANGED <<cloud, node, backup, cycle, late, counters>>

DefinitionChanges ==
    /\ survey.definition < MaxDefinitions
    /\ survey' = [survey EXCEPT !.definition = @ + 1]
    /\ UNCHANGED <<cloud, node, backup, cycle, late, counters>>

DefinitionSynced ==
    /\ node.definition < survey.definition
    /\ node' = [node EXCEPT !.definition = survey.definition, !.origin = "cloud"]
    /\ UNCHANGED <<survey, cloud, backup, cycle, late, counters>>

-----------------------------------------------------------------------------
(* Publication on the node *)

\* The publication that has an upload keeps it; another one gets the next number.
Frozen(database) == \E u \in database.uploads : u.hash.at = database.shown.at

\* Mutant: the numbers that this database gave out are not counted.
NextSequenceOfTheCloudOnly(database) == database.cloudSeq + 1

NextSequence(database) == Larger(database.cloudSeq, database.localSeq) + 1

NewUpload(database) ==
    [id |-> drawn + 1, seq |-> NextSequence(database),
     hash |-> database.shown, content |-> database.shown, status |-> "pending"]

RecordPublication(database) ==
    IF Frozen(database) \/ database.origin = "local" THEN database
    ELSE [database EXCEPT !.localSeq = NextSequence(database),
                          !.uploads = @ \union {NewUpload(database)}]

\* Statistics and text, or the AI text beside them: both are published only while the
\* versions of the data are current.
PublishAnalysis ==
    /\ drawn < MaxPublications
    /\ node' = RecordPublication([node EXCEPT
                  !.shown = [at |-> drawn + 1, mark |-> node.mark, definition |-> node.definition]])
    /\ drawn' = drawn + 1
    /\ UNCHANGED <<survey, cloud, backup, cycle, late, disturbances, restored>>

\* Mutant: what is sent again takes a new number.
RetryFailedRenumbered ==
    /\ \E u \in node.uploads : u.status = "failed"
    /\ node' = [node EXCEPT !.uploads =
                  {IF u.status = "failed" THEN [u EXCEPT !.status = "pending", !.seq = NextSequence(node)]
                   ELSE u : u \in @}]
    /\ UNCHANGED <<survey, cloud, backup, cycle, late, counters>>

\* The operator sends the failed uploads again.
RetryFailed ==
    /\ \E u \in node.uploads : u.status = "failed"
    /\ node' = [node EXCEPT !.uploads =
                  {IF u.status = "failed" THEN [u EXCEPT !.status = "pending"] ELSE u : u \in @}]
    /\ UNCHANGED <<survey, cloud, backup, cycle, late, counters>>

Backup ==
    /\ disturbances < MaxDisturbances /\ backup # node
    /\ backup' = node
    /\ UNCHANGED <<survey, cloud, node, cycle, late, counters>>

Restore ==
    /\ cycle.pc = "idle"
    /\ backup # node
    /\ Disturbance
    /\ node' = backup
    /\ restored' = TRUE
    /\ UNCHANGED <<survey, cloud, backup, cycle, late, drawn>>

-----------------------------------------------------------------------------
(* The website receives an upload *)

Valid(u) ==
    /\ u.content = u.hash
    /\ u.hash.mark <= survey.replies /\ u.hash.definition <= survey.definition

RecordOf(u) == [id |-> u.id, seq |-> u.seq, hash |-> u.hash]

Known(u) == \E r \in records : r.id = u.id

\* Mutant: the number is not compared.
NewerByContent(u) ==
    /\ u.hash.mark >= website.shown.mark
    /\ u.hash.definition >= website.shown.definition

Newer(u) ==
    /\ u.seq > website.seq
    /\ u.hash.mark >= website.shown.mark
    /\ u.hash.definition >= website.shown.definition

\* The answer to an upload.
Answer(u) ==
    CASE ~Valid(u) -> "invalid"
      [] Valid(u) /\ ~Known(u) -> IF Newer(u) THEN "applied" ELSE "stale"
      [] Valid(u) /\ RecordOf(u) \in records -> IF website.id = u.id THEN "applied" ELSE "stale"
      [] OTHER -> "conflict"

ApplyUpload(u) ==
    /\ records' = IF Valid(u) /\ ~Known(u) THEN records \union {RecordOf(u)} ELSE records
    /\ website' = IF Valid(u) /\ ~Known(u) /\ Newer(u)
                    THEN [id |-> u.id, seq |-> u.seq, shown |-> u.hash] ELSE website
    /\ conflicts' = IF Answer(u) = "conflict" THEN conflicts \union {u.id} ELSE conflicts

-----------------------------------------------------------------------------
(* The sync cycle *)

\* Learns the number of what the website shows before numbers are given out.
Heartbeat ==
    /\ cycle.pc = "idle"
    /\ cycle' = [cycle EXCEPT !.pc = "backfill"]
    /\ node' = [node EXCEPT !.cloudSeq = Larger(@, website.seq)]
    /\ UNCHANGED <<survey, cloud, backup, late, counters>>

\* Mutant: nothing is made up for.
BackfillNothing ==
    /\ cycle.pc = "backfill"
    /\ cycle' = [pc |-> "upload", todo |-> {u \in node.uploads : u.status = "pending"}]
    /\ UNCHANGED <<survey, cloud, node, backup, late, counters>>

\* An upload for a publication without one; then the pending ones are read.
BackfillPublications ==
    /\ cycle.pc = "backfill"
    /\ node' = IF node.shown.at = 0 THEN node ELSE RecordPublication(node)
    /\ drawn' = IF node' = node THEN drawn ELSE drawn + 1
    /\ cycle' = [pc |-> "upload", todo |-> {u \in node'.uploads : u.status = "pending"}]
    /\ UNCHANGED <<survey, cloud, backup, late, disturbances, restored>>

\* Only the first of the cycle's uploads is ever on its way.
Sending(u) ==
    /\ cycle.pc = "upload" /\ u \in cycle.todo
    /\ \A v \in cycle.todo : u.seq <= v.seq

\* What is settled is never sent again, and its content is dropped.
Mark(id, status) ==
    node' = [node EXCEPT !.uploads =
               {IF u.id # id THEN u
                ELSE [u EXCEPT !.status = status,
                               !.content = IF status \in {"uploaded", "stale"} THEN None ELSE @] : u \in @}]

StatusAfter(answer) ==
    CASE answer = "applied" -> "uploaded"
      [] answer = "stale" -> "stale"
      [] OTHER -> "failed"

UploadAnswered(u) ==
    /\ Sending(u)
    /\ ApplyUpload(u)
    /\ Mark(u.id, StatusAfter(Answer(u)))
    /\ cycle' = [cycle EXCEPT !.todo = @ \ {u}]
    /\ UNCHANGED <<survey, backup, late, counters>>

\* Refused before the website looks at it: too large, or redirected on its way.
UploadRefused(u) ==
    /\ Sending(u)
    /\ Disturbance
    /\ Mark(u.id, "failed")
    /\ cycle' = [cycle EXCEPT !.todo = @ \ {u}]
    /\ UNCHANGED <<survey, cloud, backup, late, drawn, restored>>

\* A call that times out, or the end of the process: the cycle is over.
UploadLost(u) ==
    /\ Sending(u)
    /\ Disturbance
    /\ late' = late \union {u}
    /\ cycle' = [pc |-> "idle", todo |-> {}]
    /\ UNCHANGED <<survey, cloud, node, backup, drawn, restored>>

CycleEnds ==
    /\ cycle.pc = "upload" /\ cycle.todo = {}
    /\ cycle' = [cycle EXCEPT !.pc = "idle"]
    /\ UNCHANGED <<survey, cloud, node, backup, late, counters>>

LateUpload(u) ==
    /\ ApplyUpload(u)
    /\ late' = late \ {u}
    /\ UNCHANGED <<survey, node, backup, cycle, counters>>

-----------------------------------------------------------------------------
Init ==
    /\ survey = [replies |-> 0, definition |-> 1, released |-> 0]
    /\ website = [id |-> 0, seq |-> 0, shown |-> Unpublished]
    /\ records = {} /\ conflicts = {}
    /\ \E synced \in {0, 1} :
          node = [mark |-> 0, definition |-> synced,
                  origin |-> IF synced = 0 THEN "local" ELSE "cloud", shown |-> Unpublished,
                  cloudSeq |-> 0, localSeq |-> 0, uploads |-> {}]
    /\ backup = node
    /\ cycle = [pc |-> "idle", todo |-> {}]
    /\ late = {}
    /\ drawn = 0 /\ disturbances = 0 /\ restored = FALSE

DataNext ==
    ReplyArrives \/ ReplyWritten \/ RepliesConfirmed \/ DefinitionChanges \/ DefinitionSynced

NodeNext == PublishAnalysis \/ RetryFailed \/ Backup \/ Restore

Progress ==
    Heartbeat \/ BackfillPublications \/ CycleEnds \/ \E u \in cycle.todo : UploadAnswered(u)

Next ==
    \/ DataNext
    \/ NodeNext
    \/ Progress
    \/ \E u \in cycle.todo : UploadRefused(u) \/ UploadLost(u)
    \/ \E u \in late : LateUpload(u)

Spec == Init /\ [][Next]_vars

\* The launcher starts a cycle every five minutes, and calls are answered in the end.
FairSpec == Spec /\ WF_vars(Progress)

-----------------------------------------------------------------------------
(* Properties *)

\* Every copy of an upload that anybody holds.
Copies == node.uploads \union backup.uploads \union cycle.todo \union late

\* An identity has one number and one content for ever, through resends, lost answers,
\* retries and restored databases: the website never finds it used for two things, and
\* what may be sent again is complete (cloudsync/results.py:3, _mark, retry_failed).
IdentityIsFrozen ==
    /\ conflicts = {}
    /\ \A u, v \in Copies : u.id = v.id => RecordOf(u) = RecordOf(v)
    /\ \A u \in Copies : \A r \in records : u.id = r.id => RecordOf(u) = r
    /\ \A u \in Copies : u.status \in {"pending", "failed"} => u.content = u.hash

\* What the node calls uploaded was shown, and what the website shows now is not of older
\* replies or an older definition; what it calls stale is not what the website shows.
AcknowledgementIsTrue ==
    \A u \in node.uploads :
       /\ u.status = "uploaded" =>
             /\ website.seq >= u.seq /\ website.shown.mark >= u.hash.mark
             /\ website.shown.definition >= u.hash.definition
       /\ u.status = "stale" => website.id # u.id

\* As long as no backup is restored, only a publication that was superseded is answered
\* stale: a later number never stands for older data.
OnlySupersededIsStale ==
    ~restored =>
       \A u \in node.uploads : u.status = "stale" => website.seq > u.seq

\* docs/superpowers/specs/2026-10-01-cloud-sync-design.md:263: what is stale because its
\* number was used is replaced by the next publication, which takes a new number; stated
\* only once the node has fetched all that the website still has.
NextPublicationReplaces ==
    node.mark = survey.replies \/ node.mark < survey.released =>
       \A u, v \in node.uploads :
          /\ u.status = "stale" /\ u.seq <= website.seq
          /\ v.hash.at > u.hash.at /\ v.hash.mark = node.mark
          => (v.status = "stale" => website.seq >= v.seq)

Current(k) == node.shown.at = k /\ node.origin = "cloud" /\ ~restored

\* The newest publication reaches the website, or its failed upload is there to see
\* (cloudsync/publication_status.py), unless a backup is restored.
NewestIsShown ==
    \A k \in 1..MaxPublications :
       Current(k) ~> \/ website.shown.at = k
                     \/ \E u \in node.uploads : u.hash.at = k /\ u.status = "failed"
                     \/ ~Current(k)

=============================================================================
