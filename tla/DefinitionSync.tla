--------------------------- MODULE DefinitionSync ---------------------------
(***************************************************************************)
(* Survey definitions: the cloud is their only writer (cloudapi/writes.py, *)
(* external_sources.py), keeps every version as an immutable revision and  *)
(* numbers the changes of node-owned surveys with a locked clock; the node *)
(* pulls them with a cursor (cloudapi/views.py, cloudsync/definitions.py), *)
(* edits them through the cloud (cloudsync/survey_write.py) and binds the  *)
(* data sets it registers (cloudsync/datasets.py).                         *)
(*                                                                         *)
(* The content of a definition is abstracted to version stamps: questions  *)
(* and settings hold the version whose write last changed the questions    *)
(* (titles included) and the analysis settings (analysis_enabled and       *)
(* archived_at); 0 means a survey without questions.                       *)
(***************************************************************************)
EXTENDS Integers, Sequences, FiniteSetsExt

CONSTANTS
    Surveys,        \* survey uuids
    External,       \* those that stand for a data set (external_source)
    Devices,        \* NodeDevice rows
    Sources,        \* registrations of data set versions
    PageSize,       \* limit of one page of changes
    Scenarios,      \* who acts, with the bounds on each survey's definition_version (0: not
                    \* used) and on the link's generation; a behaviour keeps to one of them
    Disturbances,   \* subset of {"lost", "abort", "crash", "prune", "late_prune"}
    MaxEvents,      \* bound on how many of them happen
    None

ASSUME DevicesAssumption == None \notin Devices /\ None \notin Sources /\ None \notin Surveys
ASSUME ExternalAssumption == External \subseteq Surveys
ASSUME PageAssumption == PageSize \in Nat \ {0}
ASSUME ScenarioAssumption ==
    Scenarios \subseteq [who : SUBSET {"web", "node", "assign", "tab1", "tab2", "link"},
                         versions : [Surveys -> Nat], links : Nat]

VARIABLES
    owner,      \* Survey.owner_node
    revision,   \* SurveyDefinitionRevision; the last one is the survey's live definition
    purged,     \* drafts that were deleted
    clock,      \* ChangeClock: value and pruned_through
    changes,    \* SurveyChange rows
    token,      \* the device whose token the credential store of the node holds
    link,       \* CloudLink of the node: device, generation, cursor
    local,      \* the node's copy: definition_version and the bound data set
    sync,       \* the node's definition sync and the request it waits for
    write,      \* an edit on the website ("web") and one on the node ("node")
    reg,        \* data set registrations, one in each tab of the node's console
    connect,    \* the connection page between the credential store and the database
    scenario,   \* who acts in this behaviour, within which bounds
    events      \* disturbances so far

cloud == <<owner, revision, purged, clock, changes>>
vars == <<owner, revision, purged, clock, changes, token, link, local, sync,
          write, reg, connect, scenario, events>>

Writers == {"web", "node"}
Tabs == {"tab1", "tab2"}
Kinds == {"questions", "settings", "publish"}

Version(s) == Len(revision[s])
Live(s) == revision[s][Version(s)]
Exists(s) == Version(s) > 0

Disturb(kind) == /\ kind \in Disturbances /\ events < MaxEvents
                 /\ events' = events + 1
-----------------------------------------------------------------------------
(* Controlled writes on the cloud *)

\* select_for_update on the survey row and on the clock row, held until the commit.
SurveyFree(s) == \A w \in Writers : ~(write[w].pc = "locked" /\ write[w].survey = s)
\* Mutant: the number is taken without the clock's row lock.
ClockUnlocked == TRUE

ClockFree == \A w \in Writers : ~(write[w].pc = "locked" /\ write[w].seq # 0)

NextSeq == clock.value + 1

\* record_version: the revision of the new version and, for a node's survey, a change with
\* the number that tick_clock took earlier in the transaction (0: none).
RecordVersion(s, definition, seq) ==
    /\ revision' = [revision EXCEPT ![s] = Append(@, definition)]
    /\ IF seq = 0
       THEN UNCHANGED <<clock, changes>>
       ELSE /\ clock' = [clock EXCEPT !.value = seq]
            /\ changes' = changes \union
                   {[seq |-> seq, survey |-> s, version |-> Version(s) + 1]}

NewDraft(questions) == [questions |-> questions, settings |-> 1, source |-> None,
                        published |-> 0, analysis |-> 0]

\* create_survey (a new draft of the website, empty or copied from another survey).
CreateSurvey(s, questions) ==
    /\ "web" \in scenario.who /\ scenario.versions[s] > 0
    /\ s \notin External /\ ~Exists(s) /\ s \notin purged
    /\ RecordVersion(s, NewDraft(questions), 0)
    /\ UNCHANGED <<owner, purged, token, link, local, sync, write, reg, connect, scenario, events>>

\* assign_survey_to_node: drafts only; the new owner sees the survey as a change.
AssignSurveyToNode(s, d) ==
    /\ "assign" \in scenario.who
    /\ Exists(s) /\ Version(s) < scenario.versions[s] /\ s \notin External
    /\ SurveyFree(s) /\ ClockFree
    /\ Live(s).published = 0
    /\ owner' = [owner EXCEPT ![s] = d]
    /\ RecordVersion(s, Live(s), NextSeq)
    /\ UNCHANGED <<purged, token, link, local, sync, write, reg, connect, scenario, events>>

\* delete_or_archive of a draft that belongs to no node: purge_survey. (A survey it may not
\* delete is archived, which is an edit of the settings.)
DeleteDraft(s) ==
    /\ "web" \in scenario.who
    /\ Exists(s) /\ SurveyFree(s)
    /\ Live(s).published = 0 /\ owner[s] = None
    /\ revision' = [revision EXCEPT ![s] = <<>>]
    /\ purged' = purged \union {s}
    /\ UNCHANGED <<owner, clock, changes, token, link, local, sync, write, reg, connect,
                   scenario, events>>

\* prune_survey_changes: deletes old rows, then raises pruned_through, in one transaction.
\* A commit between the two reads of a changes request is a disturbance of its own.
PruneSurveyChanges ==
    \E last \in {c.seq : c \in changes} :
        /\ ClockFree
        /\ Disturb(IF sync.pc = "rows" THEN "late_prune" ELSE "prune")
        /\ changes' = {c \in changes : c.seq > last}
        /\ clock' = [clock EXCEPT !.pruned = IF @ > last THEN @ ELSE last]
        /\ UNCHANGED <<owner, revision, purged, token, link, local, sync, write, reg, connect,
                       scenario>>
-----------------------------------------------------------------------------
(* Edits: builder_post on the website, node_commit on the node *)

NoWrite == [pc |-> "idle", survey |-> None, kind |-> None, expected |-> 0, by |-> None,
            questions |-> 0, settings |-> 0, source |-> None, published |-> FALSE,
            seq |-> 0]

\* What the page of writer w shows: the live rows of the cloud or the node's copy.
Shown(w, s) == IF w = "web" THEN Version(s) ELSE local[s].version

\* The form posts the definition_version it shows; serialize_definition of the POST reads the
\* survey row first (a row newer than the form makes the edit a conflict below) ...
OpenForm(w, s) ==
    LET shown == revision[s][Shown(w, s)] IN
    /\ w \in scenario.who
    /\ write[w].pc = "idle" /\ Shown(w, s) \in 1..(scenario.versions[s] - 1)
    /\ write' = [write EXCEPT ![w] = [NoWrite EXCEPT !.pc = "row", !.survey = s,
           !.expected = Shown(w, s), !.settings = shown.settings, !.source = shown.source,
           !.published = shown.published # 0]]
    /\ UNCHANGED <<cloud, token, link, local, sync, reg, connect, scenario, events>>

\* ... and its questions in a second statement; then the edit is made to that definition.
ReadQuestions(w) ==
    LET s == write[w].survey IN
    /\ write[w].pc = "row"
    /\ IF Shown(w, s) = 0   \* the survey was deleted
       THEN write' = [write EXCEPT ![w] = NoWrite]
       ELSE \E k \in Kinds :
                write' = [write EXCEPT ![w] = [@ EXCEPT !.pc = "ready", !.kind = k,
                              !.questions = revision[s][Shown(w, s)].questions]]
    /\ UNCHANGED <<cloud, token, link, local, sync, reg, connect, scenario, events>>

\* survey_update: the survey is the authenticated device's, read before the row is locked.
PutSurvey ==
    LET e == write["node"] IN
    /\ e.pc = "ready"
    /\ write' = [write EXCEPT !["node"] =
           IF token = None \/ owner[e.survey] # token
           THEN NoWrite
           ELSE [e EXCEPT !.pc = "checked", !.by = token]]
    /\ UNCHANGED <<cloud, token, link, local, sync, reg, connect, scenario, events>>

\* Mutant: the expected version is not compared.
NoConflict(e) == FALSE

VersionConflict(e) == Version(e.survey) # e.expected

\* The questions and settings the edit posts, in the version it would become.
Questions(e) == IF e.kind = "questions" THEN Version(e.survey) + 1 ELSE e.questions
Settings(e) == IF e.kind = "settings" THEN Version(e.survey) + 1 ELSE e.settings
Published(e) == e.published \/ e.kind = "publish"

\* frozen_fields_changed: a published survey keeps its questions and stays published.
FrozenFieldsChanged(e) ==
    ~Published(e) \/ Questions(e) # Live(e.survey).questions

\* _lifecycle: what a write may not do, ...
Refused(e) ==
    LET now == Live(e.survey) IN
    \/ e.source # now.source
    \/ now.published # 0 /\ FrozenFieldsChanged(e)
    \/ now.published = 0 /\ Published(e) /\ Questions(e) = 0

\* ... and the publish fields only the cloud sets.
Lifecycle(e) ==
    LET now == Live(e.survey)
        next == Version(e.survey) + 1
        publishing == now.published = 0 /\ Published(e)
        reanalyse == now.published # 0 /\ Settings(e) # now.settings
    IN [questions |-> Questions(e), settings |-> Settings(e), source |-> now.source,
        published |-> IF publishing THEN next ELSE now.published,
        analysis |-> IF publishing \/ reanalyse THEN next ELSE now.analysis]

\* change_definition takes the row lock, compares the expected version and prepares the
\* definition; a node's survey also takes a number, with the clock's row.
ChangeDefinition(w) ==
    LET e == write[w]
        s == e.survey
    IN
    /\ e.pc = IF w = "web" THEN "ready" ELSE "checked"
    /\ SurveyFree(s)
    /\ IF \/ ~Exists(s) \/ VersionConflict(e) \/ Refused(e)
       THEN write' = [write EXCEPT ![w] = NoWrite]
       ELSE /\ owner[s] = None \/ ClockFree
            /\ write' = [write EXCEPT ![w] = [e EXCEPT !.pc = "locked",
                                                       !.seq = IF owner[s] = None THEN 0 ELSE NextSeq]]
    /\ UNCHANGED <<cloud, token, link, local, sync, reg, connect, scenario, events>>

CommitChange(w) ==
    LET e == write[w]
        s == e.survey
    IN
    /\ e.pc = "locked"
    /\ RecordVersion(s, Lifecycle(e), e.seq)
    /\ write' = [write EXCEPT ![w] =
           IF w = "web" THEN NoWrite
           ELSE [NoWrite EXCEPT !.pc = "replied", !.survey = s, !.expected = Version(s) + 1]]
    /\ UNCHANGED <<owner, purged, token, link, local, sync, reg, connect, scenario, events>>

\* The transaction rolls back.
AbortChange(w) ==
    /\ write[w].pc = "locked" /\ Disturb("abort")
    /\ write' = [write EXCEPT ![w] = NoWrite]
    /\ UNCHANGED <<cloud, token, link, local, sync, reg, connect, scenario>>

\* survey_create of a node: a draft of its own, or the current revision when the uuid exists.
NodeCreateSurvey(s) ==
    /\ "node" \in scenario.who /\ scenario.versions[s] > 0
    /\ write["node"].pc = "idle" /\ token # None /\ s \notin External /\ s \notin purged
    /\ IF Exists(s)
       THEN /\ owner[s] = token
            /\ SurveyFree(s)
            /\ write' = [write EXCEPT !["node"] = [NoWrite EXCEPT !.pc = "replied", !.survey = s,
                                                                  !.expected = Version(s)]]
            /\ UNCHANGED <<owner, revision, clock, changes>>
       ELSE /\ ClockFree
            /\ owner' = [owner EXCEPT ![s] = token]
            /\ RecordVersion(s, NewDraft(0), NextSeq)
            /\ write' = [write EXCEPT !["node"] = [NoWrite EXCEPT !.pc = "replied", !.survey = s,
                                                                  !.expected = 1]]
    /\ UNCHANGED <<purged, token, link, local, sync, reg, connect, scenario, events>>
-----------------------------------------------------------------------------
(* Registration of a data set version (cloudsync/datasets.py, external_sources.py) *)

NoReg == [pc |-> "idle", survey |-> None, source |-> None, expected |-> 0, gen |-> 0,
          version |-> 0]

\* The preview fixes the file's source, the expected version and the link's generation.
PreviewDataset(t, s, source) ==
    /\ t \in scenario.who /\ s \in External /\ scenario.versions[s] > 0 /\ reg[t].pc = "idle"
    /\ reg' = [reg EXCEPT ![t] = [NoReg EXCEPT !.pc = "form", !.survey = s, !.source = source,
                                   !.expected = local[s].version, !.gen = link.generation]]
    /\ UNCHANGED <<cloud, token, link, local, sync, write, connect, scenario, events>>

\* What register_node_dataset writes: the mapping's questions and default settings, published.
Registered(s, source) ==
    LET next == Version(s) + 1 IN
    [questions |-> 1, settings |-> 1, source |-> source,
     published |-> IF Exists(s) THEN Live(s).published ELSE next, analysis |-> next]

\* StaleLink, NotLinked, or a survey of another device.
RegistrationRefused(r) ==
    \/ r.gen # link.generation \/ token = None
    \/ Exists(r.survey) /\ owner[r.survey] # token

Answered(t, version) ==
    reg' = [reg EXCEPT ![t] = [@ EXCEPT !.pc = "replied", !.version = version]]
Closed(t) == reg' = [reg EXCEPT ![t] = NoReg]

\* register_dataset up to the reply. An exact retry is answered before the version is compared.
PostDataset(t) ==
    LET r == reg[t]
        s == r.survey
        unchanged == UNCHANGED <<owner, revision, clock, changes>>
    IN
    /\ r.pc = "form" /\ SurveyFree(s)
    /\ IF RegistrationRefused(r)
       THEN Closed(t) /\ unchanged
       ELSE IF Exists(s) /\ Live(s).source = r.source
       THEN Answered(t, Version(s)) /\ unchanged
       ELSE IF r.expected # Version(s)
       THEN Closed(t) /\ unchanged
       ELSE /\ ClockFree /\ Version(s) < scenario.versions[s]
            /\ owner' = [owner EXCEPT ![s] = token]
            /\ RecordVersion(s, Registered(s, r.source), NextSeq)
            /\ Answered(t, Version(s) + 1)
    /\ UNCHANGED <<purged, token, link, local, sync, write, connect, scenario, events>>

\* The reply is lost; the owner sends the same preview again.
LoseDatasetReply(t) ==
    /\ reg[t].pc = "replied" /\ Disturb("lost")
    /\ reg' = [reg EXCEPT ![t] = [@ EXCEPT !.pc = "form", !.version = 0]]
    /\ UNCHANGED <<cloud, token, link, local, sync, write, connect, scenario>>

Newer(s, version) == version > local[s].version

\* upsert_definition: only a newer version is applied, and its data set registered with it.
Upserted(s, version) ==
    IF Newer(s, version)
    THEN [version |-> version, source |-> revision[s][version].source]
    ELSE local[s]

\* Mutant: the copy's version is not compared with the reply's.
BindAnyVersion(t) ==
    LET r == reg[t] IN
    /\ r.pc = "replied"
    /\ Closed(t)
    /\ local' = IF r.gen # link.generation THEN local
                ELSE [local EXCEPT ![r.survey] =
                         [Upserted(r.survey, r.version) EXCEPT !.source = r.source]]
    /\ UNCHANGED <<cloud, token, link, sync, write, connect, scenario, events>>

\* The second half of register_dataset: one local transaction under the link's row lock that
\* applies the reply, checks that the copy is at that version and selects the files' source.
BindDataset(t) ==
    LET r == reg[t]
        copy == Upserted(r.survey, r.version)
    IN
    /\ r.pc = "replied"
    /\ Closed(t)
    /\ local' = IF r.gen # link.generation \/ copy.version # r.version
                THEN local
                ELSE [local EXCEPT ![r.survey] = [copy EXCEPT !.source = r.source]]
    /\ UNCHANGED <<cloud, token, link, sync, write, connect, scenario, events>>
-----------------------------------------------------------------------------
(* Replies to the node's edits *)

\* node_commit and create_survey apply the definition the cloud answered with.
ApplyReply ==
    LET e == write["node"] IN
    /\ e.pc = "replied"
    /\ local' = [local EXCEPT ![e.survey] = Upserted(e.survey, e.expected)]
    /\ write' = [write EXCEPT !["node"] = NoWrite]
    /\ UNCHANGED <<cloud, token, link, sync, reg, connect, scenario, events>>

\* The reply is lost: the page says "offline", although the cloud may have a new version.
LoseReply ==
    /\ write["node"].pc \in {"checked", "replied"} /\ Disturb("lost")
    /\ write' = [write EXCEPT !["node"] = NoWrite]
    /\ UNCHANGED <<cloud, token, link, local, sync, reg, connect, scenario>>
-----------------------------------------------------------------------------
(* The definition sync of the node *)

NoCursor == [device |-> None, seq |-> 0, gen |-> 0]
NoPage == {}
NoSync == [pc |-> "idle", gen |-> 0, cursor |-> NoCursor, by |-> None, read |-> 0,
           page |-> NoPage, next |-> NoCursor, more |-> FALSE]

\* run_cycle loads the link ...
StartSync ==
    /\ sync.pc = "idle" /\ link.device # None
    /\ sync' = [NoSync EXCEPT !.pc = "linked", !.gen = link.generation, !.cursor = link.cursor]
    /\ UNCHANGED <<cloud, token, link, local, write, reg, connect, scenario, events>>

\* ... and the client the token; without a cursor it asks for a snapshot.
OpenClient ==
    /\ sync.pc = "linked"
    /\ sync' = IF token = None THEN NoSync
               ELSE [sync EXCEPT !.by = token,
                                 !.pc = IF sync.cursor = NoCursor THEN "snapshot" ELSE "changes"]
    /\ UNCHANGED <<cloud, token, link, local, write, reg, connect, scenario, events>>

\* survey_snapshot reads the committed clock first ...
SnapshotClock ==
    /\ sync.pc = "snapshot"
    /\ sync' = [sync EXCEPT !.pc = "definitions", !.read = clock.value]
    /\ UNCHANGED <<cloud, token, link, local, write, reg, connect, scenario, events>>

Cursor(d, seq) == [device |-> d, seq |-> seq, gen |-> sync.gen]

\* ... then the versions of the device's surveys and their (immutable) revisions.
SnapshotDefinitions ==
    /\ sync.pc = "definitions"
    /\ sync' = [sync EXCEPT !.pc = "apply", !.more = FALSE,
           !.page = {[survey |-> s, version |-> Version(s)] :
                        s \in {s \in Surveys : Exists(s) /\ owner[s] = sync.by}},
           !.next = Cursor(sync.by, sync.read)]
    /\ UNCHANGED <<cloud, token, link, local, write, reg, connect, scenario, events>>

CursorInvalid ==
    \/ sync.cursor.device # sync.by
    \/ sync.cursor.seq < clock.pruned
    \/ sync.cursor.seq > clock.value

\* survey_changes checks the cursor against the clock: 410 when it does not serve it ...
ChangesClock ==
    /\ sync.pc = "changes"
    /\ sync' = [sync EXCEPT !.pc = IF CursorInvalid THEN "gone" ELSE "rows"]
    /\ UNCHANGED <<cloud, token, link, local, write, reg, connect, scenario, events>>

\* ... and reads limit + 1 rows of the surveys the device owns now, in a second statement.
ChangesRows ==
    LET rows == {c \in changes : c.seq > sync.cursor.seq /\ owner[c.survey] = sync.by}
        before(c) == {d \in rows : d.seq <= c.seq}
        page == {c \in rows : Cardinality(before(c)) <= PageSize}
    IN
    /\ sync.pc = "rows"
    /\ sync' = [sync EXCEPT !.pc = "apply", !.more = page # rows,
           !.page = {[survey |-> c.survey, version |-> c.version] : c \in page},
           !.next = Cursor(sync.by, IF page = {} THEN sync.cursor.seq
                                    ELSE Max({c.seq : c \in page}))]
    /\ UNCHANGED <<cloud, token, link, local, write, reg, connect, scenario, events>>

\* Mutant: the link's generation is not compared.
AnyGeneration == TRUE

Current == sync.gen = link.generation

\* Mutant: 410 is an error like any other.
GoneFails ==
    /\ sync.pc = "gone"
    /\ sync' = NoSync
    /\ UNCHANGED <<cloud, token, link, local, write, reg, connect, scenario, events>>

\* 410: the cursor is cleared (unless the link changed: StaleLink) and a snapshot requested.
Gone ==
    /\ sync.pc = "gone"
    /\ IF Current
       THEN /\ link' = [link EXCEPT !.cursor = NoCursor]
            /\ sync' = [sync EXCEPT !.pc = "snapshot", !.cursor = NoCursor]
       ELSE sync' = NoSync /\ UNCHANGED link
    /\ UNCHANGED <<cloud, token, local, write, reg, connect, scenario, events>>

Applied(s) ==
    LET versions == {p.version : p \in {p \in sync.page : p.survey = s}} IN
    IF versions = {} THEN local[s] ELSE Upserted(s, Max(versions))

\* A page and its cursor commit together, or roll back when the link has changed.
ApplyPage ==
    /\ sync.pc = "apply"
    /\ IF Current
       THEN /\ local' = [s \in Surveys |-> Applied(s)]
            /\ link' = [link EXCEPT !.cursor = sync.next]
            /\ sync' = IF sync.more
                       THEN [sync EXCEPT !.pc = "changes", !.cursor = sync.next, !.page = NoPage,
                                         !.next = NoCursor, !.more = FALSE]
                       ELSE NoSync
       ELSE sync' = NoSync /\ UNCHANGED <<local, link, scenario>>
    /\ UNCHANGED <<cloud, token, write, reg, connect, scenario, events>>

\* A request fails: the cycle ends and the next one starts from the stored cursor.
SyncFails ==
    /\ sync.pc \notin {"idle", "linked"} /\ Disturb("lost")
    /\ sync' = NoSync
    /\ UNCHANGED <<cloud, token, link, local, write, reg, connect, scenario>>
-----------------------------------------------------------------------------
(* Linking: the token is in the credential store, the link in the database *)

\* ConnectionView: after a heartbeat with device d's token the token is saved ...
SaveToken(d) ==
    /\ "link" \in scenario.who \/ link.device = None
    /\ connect = None /\ link.generation < scenario.links
    /\ token' = d /\ connect' = d
    /\ UNCHANGED <<cloud, link, local, sync, write, reg, scenario, events>>

\* ... disconnecting deletes it ...
DeleteToken ==
    /\ "link" \in scenario.who
    /\ connect = None /\ link.device # None /\ link.generation < scenario.links
    /\ token' = None /\ connect' = "disconnect"
    /\ UNCHANGED <<cloud, link, local, sync, write, reg, scenario, events>>

\* ... and the link is reset: a new generation and no cursor (relink, unlink).
ResetLink ==
    /\ connect # None
    /\ link' = [device |-> IF connect = "disconnect" THEN None ELSE connect,
                generation |-> link.generation + 1, cursor |-> NoCursor]
    /\ connect' = None
    /\ UNCHANGED <<cloud, token, local, sync, write, reg, scenario, events>>

\* The node's processes die; what they had not committed is gone.
NodeCrash ==
    /\ Disturb("crash")
    /\ \/ sync # NoSync \/ reg # [t \in Tabs |-> NoReg]
       \/ connect # None \/ write["node"].pc # "idle"
    /\ write["node"].pc # "locked"
    /\ sync' = NoSync /\ reg' = [t \in Tabs |-> NoReg] /\ connect' = None
    /\ write' = [write EXCEPT !["node"] = NoWrite]
    /\ UNCHANGED <<cloud, token, link, local, scenario>>
-----------------------------------------------------------------------------
Init ==
    /\ owner = [s \in Surveys |-> None]
    /\ revision = [s \in Surveys |-> <<>>]
    /\ purged = {}
    /\ clock = [value |-> 0, pruned |-> 0]
    /\ changes = {}
    /\ token = None
    /\ link = [device |-> None, generation |-> 0, cursor |-> NoCursor]
    /\ local = [s \in Surveys |-> [version |-> 0, source |-> None]]
    /\ sync = NoSync
    /\ write = [w \in Writers |-> NoWrite]
    /\ reg = [t \in Tabs |-> NoReg]
    /\ connect = None
    /\ scenario \in Scenarios
    /\ events = 0

Edit ==
    \/ \E w \in Writers, s \in Surveys : OpenForm(w, s)
    \/ \E w \in Writers : ReadQuestions(w) \/ AbortChange(w)
    \/ LoseReply

\* What a request that has been sent goes on to do.
FinishEdit == PutSurvey \/ ApplyReply \/ \E w \in Writers : ChangeDefinition(w) \/ CommitChange(w)

CloudSteps ==
    \/ \E s \in Surveys, q \in 0..1 : CreateSurvey(s, q)
    \/ \E s \in Surveys, d \in Devices : AssignSurveyToNode(s, d)
    \/ \E s \in Surveys : DeleteDraft(s) \/ NodeCreateSurvey(s)
    \/ PruneSurveyChanges

Registration ==
    \E t \in Tabs :
        \/ \E s \in Surveys, source \in Sources : PreviewDataset(t, s, source)
        \/ PostDataset(t) \/ LoseDatasetReply(t) \/ BindDataset(t)

SyncSteps ==
    \/ StartSync \/ OpenClient \/ SnapshotClock \/ SnapshotDefinitions
    \/ ChangesClock \/ ChangesRows \/ Gone \/ ApplyPage

Linking == (\E d \in Devices : SaveToken(d)) \/ DeleteToken

Next ==
    \/ Edit \/ FinishEdit \/ CloudSteps \/ Registration
    \/ SyncSteps \/ SyncFails \/ Linking \/ ResetLink \/ NodeCrash

Spec == Init /\ [][Next]_vars

\* The launcher starts a cycle every few minutes and requests end; an open transaction
\* commits or rolls back; the connection page finishes what it began.
FairSpec == Spec /\ WF_vars(SyncSteps) /\ WF_vars(FinishEdit) /\ WF_vars(ResetLink)
-----------------------------------------------------------------------------
(* Properties *)

Maybe(S) == S \union {None}
Definition == [questions : Nat, settings : Nat, source : Maybe(Sources), published : Nat,
               analysis : Nat]
CursorType == [device : Maybe(Devices), seq : Nat, gen : Nat]
Clock == [value : Nat, pruned : Nat]
Change == [seq : Nat, survey : Surveys, version : Nat]
Link == [device : Maybe(Devices), generation : Nat, cursor : CursorType]
Copy == [version : Nat, source : Maybe(Sources)]
SyncStates == [
    pc : {"idle", "linked", "snapshot", "definitions", "changes", "rows", "gone", "apply"},
    gen : Nat, cursor : CursorType, by : Maybe(Devices), read : Nat,
    page : SUBSET [survey : Surveys, version : Nat], next : CursorType, more : BOOLEAN]
WriteStates == [
    pc : {"idle", "row", "ready", "checked", "locked", "replied"}, survey : Maybe(Surveys),
    kind : Maybe(Kinds), expected : Nat, by : Maybe(Devices), questions : Nat, settings : Nat,
    source : Maybe(Sources), published : BOOLEAN, seq : Nat]
RegStates == [
    pc : {"idle", "form", "replied"}, survey : Maybe(Surveys), source : Maybe(Sources),
    expected : Nat, gen : Nat, version : Nat]

\* Every variable has its type: rows, revisions, the cursor, and the processes' memory.
TypeOK ==
    /\ owner \in [Surveys -> Maybe(Devices)]
    /\ revision \in [Surveys -> Seq(Definition)]
    /\ purged \subseteq Surveys
    /\ clock \in Clock
    /\ changes \subseteq Change
    /\ token \in Maybe(Devices)
    /\ link \in Link
    /\ local \in [Surveys -> Copy]
    /\ sync \in SyncStates
    /\ write \in [Writers -> WriteStates]
    /\ reg \in [Tabs -> RegStates]
    /\ connect \in Maybe(Devices \union {"disconnect"})
    /\ scenario \in Scenarios /\ events \in Nat

\* While the stored cursor is one the cloud still serves, every version of an owned survey
\* the node does not have yet is a change after the cursor: the sync cannot skip it, whatever
\* commits between its statements (writes.py: sequence order equals commit order).
NoChangeIsMissed ==
    \A s \in Surveys :
        /\ link.cursor # NoCursor /\ owner[s] = link.cursor.device
        /\ link.cursor.seq >= clock.pruned
        /\ local[s].version < Version(s)
        => \E c \in changes : /\ c.survey = s /\ c.version = Version(s)
                              /\ c.seq > link.cursor.seq

\* A cursor was obtained under the link it is stored in: a sync that outlives a re-link never
\* resurrects the old one's (cloudsync/models.py, CloudLink).
CursorBelongsToLink == link.cursor # NoCursor => link.cursor.gen = link.generation

\* Each revision differs from the one before it only by the edit that made it, so no edit of
\* another window, of the node or of the website is undone. (A registration rewrites the
\* settings of a data set's survey by design of its mapping.)
NoEditIsLost ==
    \A s \in Surveys \ External : \A v \in 2..Version(s) :
        /\ revision[s][v].questions \in {revision[s][v - 1].questions, v}
        /\ revision[s][v].settings \in {revision[s][v - 1].settings, v}

\* From its publication on, a survey keeps its questions and its publication.
PublishedIsFrozen ==
    \A s \in Surveys : \A v \in 2..Version(s) :
        revision[s][v - 1].published # 0 =>
            /\ revision[s][v].published = revision[s][v - 1].published
            /\ revision[s][v].questions = revision[s][v - 1].questions

\* Revisions with the same analysis_definition_version can share one analysis: they have the
\* same questions, settings and data set.
AnalysisVersionNamesOneConfiguration ==
    \A s \in Surveys : \A v, w \in 1..Version(s) :
        revision[s][v].analysis = revision[s][w].analysis /\ revision[s][v].analysis # 0 =>
            /\ revision[s][v].questions = revision[s][w].questions
            /\ revision[s][v].settings = revision[s][w].settings
            /\ revision[s][v].source = revision[s][w].source

\* A node's write commits only for the survey's owner, although ownership was checked before
\* the row was locked.
OnlyTheOwnerWrites ==
    write["node"].pc = "locked" => owner[write["node"].survey] = write["node"].by

\* The data set bound to the node's copy is the one its definition names, whatever order
\* syncs and registrations end in.
NodeSourceMatchesDefinition ==
    \A s \in Surveys : local[s].version # 0 =>
        local[s].source = revision[s][local[s].version].source

\* When a survey stays with the device the node is linked as, the node's copy reaches the
\* cloud's version.
Linked(s) == owner[s] # None /\ owner[s] = link.device /\ token = link.device
NodeCatchesUp ==
    \A s \in Surveys : <>[]Linked(s) => <>[](local[s].version = Version(s))
=============================================================================
