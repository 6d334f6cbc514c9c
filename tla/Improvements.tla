----------------------------- MODULE Improvements -----------------------------
(***************************************************************************)
(* Improvement items and the notices that tell customers about them: the   *)
(* status workflow (feedback/improvement_workflow.py), items imported from *)
(* the AI drafts a node has published (feedback/views.py), and the life of *)
(* a notice from its draft to the last delivery (notice_service.py). All   *)
(* of it runs in requests of the website, each between its transactions    *)
(* interleaved with the others; a request may die with its process.        *)
(*                                                                         *)
(* The subject, body and audience of a notice are a stamp that every edit  *)
(* renews; confirmation_token and content_version, renewed together, are   *)
(* the notice's token.                                                     *)
(***************************************************************************)
EXTENDS Integers, Sequences, FiniteSetsExt, SequencesExt

CONSTANTS
    Items,          \* ImprovementUpdate rows
    Requests,       \* requests the website works on at a time
    People,         \* accounts and replies a notice may reach
    Accounts,       \* those that are accounts, whose owner may change the address
    Addresses,      \* valid e-mail addresses, up to case
    FirstAddress,   \* the address of each of the people at the start
    Scenarios,      \* what the requests of a behaviour do, whether some are killed, and the
                    \* number of items
    Disturbances,   \* subset of {"killed", "refused", "unsure", "consent", "address"}
    MaxHistory,     \* bound on the status changes of an item
    MaxContents,    \* bound on the edits of a notice
    MaxPublished,   \* bound on the results the node publishes
    MaxEvents,      \* bound on the disturbances
    None

Kinds == {"create", "import", "move", "draft", "edit", "confirm", "retry", "killed"}

ASSUME AddressAssumption ==
    FirstAddress \in [People -> Addresses] /\ IsFiniteSet(Addresses) /\ Accounts \subseteq People
ASSUME NoneAssumption ==
    None \notin Items \union People \union Addresses \union Requests \union
        {"draft", "planned", "in_progress", "completed", "archived", "restore",
         "pending", "sending", "sent", "failed", "partially_sent"}
ASSUME ScenarioAssumption == Scenarios \subseteq [kinds : SUBSET Kinds, items : Nat]

VARIABLES
    item,       \* the rows: status, source draft, completed_at and archived_at
    history,    \* ImprovementStatusHistory rows of each item
    website,    \* the published result of the node and the survey's analysis version
    notice,     \* an ImprovementNotice and its content
    dispatch,   \* its ImprovementDispatch rows, by recipient_key: the address at confirmation
    eligible,   \* who may be notified: consent, opt-in, verified and active
    email,      \* the address each of them has now, None when it is no valid one
    request,    \* what each request is doing
    mails,      \* mails the server has accepted for each row of dispatch
    unsure,     \* failures reported for mails it had accepted, for each row
    late,       \* who withdrew while a delivery to them was under way
    moved,      \* who changed the address since the confirmation
    scenario,   \* what occurs in this behaviour
    events      \* disturbances so far

items == <<item, history>>
notices == <<notice, dispatch>>
people == <<eligible, email, late, moved>>
outside == <<people, mails, unsure, scenario, events>>
vars == <<item, history, website, notice, dispatch, eligible, email, request, mails, unsure, late,
          moved, scenario, events>>

Idle == [pc |-> "idle", kind |-> None, item |-> None, status |-> None, version |-> 0,
         draft |-> 0, token |-> 0, shown |-> 0, todo |-> {}, retry |-> FALSE,
         row |-> None, person |-> None, email |-> None]

Disturb(kind) == kind \in Disturbances /\ events < MaxEvents /\ events' = events + 1

Begins(r, kind) == request[r] = Idle /\ kind \in scenario.kinds
Goes(r, state) == request' = [request EXCEPT ![r] = state]
Ends(r) == Goes(r, Idle)
-----------------------------------------------------------------------------
(* Items *)

NoItem == [status |-> None, draft |-> 0, completed |-> FALSE, archived |-> FALSE]
NewItem(draft) == [NoItem EXCEPT !.status = "draft", !.draft = draft]
Free == {i \in Items : item[i] = NoItem}
Unused == IF Cardinality(Items \ Free) < scenario.items THEN Free ELSE {}

\* ImprovementCreateView saves the item ...
CreateItem(r) ==
    \E i \in Unused :
        /\ Begins(r, "create")
        /\ item' = [item EXCEPT ![i] = NewItem(0)]
        /\ Goes(r, [Idle EXCEPT !.pc = "created", !.kind = "create", !.item = i])
        /\ UNCHANGED <<history, website, notices, outside>>

InitialRow == [from |-> None, to |-> "draft"]

\* ... and then the first row of its history, in a transaction of its own
\* (record_initial_status).
RecordInitialStatus(r) ==
    /\ request[r].pc = "created"
    /\ history' = [history EXCEPT ![request[r].item] = Append(@, InitialRow)]
    /\ Ends(r)
    /\ UNCHANGED <<item, website, notices, outside>>

Allowed == [draft |-> {"planned", "archived"},
            planned |-> {"draft", "in_progress", "archived"},
            in_progress |-> {"planned", "completed", "archived"},
            completed |-> {"in_progress", "archived"},
            archived |-> {}]

Moves(i) == SelectSeq(history[i], LAMBDA row : row.from # None)

\* _restore_target: what the latest archiving came from.
Archivings(i) ==
    {n \in 1 .. Len(history[i]) : history[i][n].to = "archived" /\ history[i][n].from # None}
RestoreTarget(i) ==
    IF Archivings(i) = {} THEN "planned" ELSE history[i][Max(Archivings(i))].from

StatusTargets(i) == IF item[i].status = "archived" THEN {"restore"} ELSE Allowed[item[i].status]

\* The form accepts what status_targets offers when the request arrives.
OpenMove(r) ==
    \E i \in Items \ Free : \E status \in StatusTargets(i) :
        /\ Begins(r, "move") /\ Len(history[i]) < MaxHistory
        /\ Goes(r, [Idle EXCEPT !.pc = "move", !.kind = "move", !.item = i, !.status = status])
        /\ UNCHANGED <<items, website, notices, outside>>

TransitionAllowed(i, requested, to) ==
    IF item[i].status = "archived" THEN requested = "restore" ELSE to \in Allowed[item[i].status]

\* The row's new status and dates.
Moved(i, to) ==
    LET from == item[i].status IN
    [item[i] EXCEPT
        !.status = to,
        !.completed = IF to = "completed" /\ from # "archived" THEN TRUE
                      ELSE IF from = "completed" /\ to # "archived" THEN FALSE ELSE @,
        !.archived = IF to = "archived" THEN TRUE ELSE IF from = "archived" THEN FALSE ELSE @]

TransitionImprovement(r) ==
    LET i == request[r].item
        requested == request[r].status
        to == IF requested = "restore" THEN RestoreTarget(i) ELSE requested
    IN
    /\ request[r].pc = "move"
    /\ Ends(r)
    /\ IF TransitionAllowed(i, requested, to)
       THEN /\ item' = [item EXCEPT ![i] = Moved(i, to)]
            /\ history' = [history EXCEPT ![i] = Append(@, [from |-> item[i].status, to |-> to])]
       ELSE UNCHANGED items
    /\ UNCHANGED <<website, notices, outside>>
-----------------------------------------------------------------------------
(* Items from the drafts of the AI result a node has published *)

SurveyFree == \A r \in Requests : request[r].pc # "importing"

\* apply_upload under the survey's lock; a write that renews the analysis version.
Publish ==
    /\ "import" \in scenario.kinds /\ SurveyFree /\ website.stage < MaxPublished
    /\ website' = [website EXCEPT !.stage = @ + 1, !.definition = website.version]
    /\ UNCHANGED <<items, notices, outside, request>>

Redefine ==
    /\ "import" \in scenario.kinds /\ SurveyFree /\ website.version < MaxPublished
    /\ website' = [website EXCEPT !.version = @ + 1]
    /\ UNCHANGED <<items, notices, outside, request>>

\* _load_node_draft: the draft is of the result that is shown, and that result is current for
\* the survey as the request loaded it (the row it locks is not used).
DraftLoads(stage, version) == website.stage = stage /\ website.definition = version
Imported(stage) == \E i \in Items : item[i].draft = stage

\* The page of a draft that was not imported yet.
OpenImport(r) ==
    /\ Begins(r, "import")
    /\ website.stage # 0 /\ DraftLoads(website.stage, website.version)
    /\ ~Imported(website.stage)
    /\ Goes(r, [Idle EXCEPT !.pc = "import", !.kind = "import", !.draft = website.stage])
    /\ UNCHANGED <<items, website, notices, outside>>

\* The POST loads the survey and the draft ...
PostImport(r) ==
    LET ok == DraftLoads(request[r].draft, website.version) /\ ~Imported(request[r].draft) IN
    /\ request[r].pc = "import"
    /\ IF ok THEN Goes(r, [request[r] EXCEPT !.pc = "posted", !.version = website.version])
             ELSE Ends(r)
    /\ UNCHANGED <<items, website, notices, outside>>

\* Mutant: the survey's row is not locked.
LockNothing(r) ==
    LET ok == DraftLoads(request[r].draft, request[r].version) /\ ~Imported(request[r].draft) IN
    /\ request[r].pc = "posted"
    /\ IF ok THEN Goes(r, [request[r] EXCEPT !.pc = "importing"]) ELSE Ends(r)
    /\ UNCHANGED <<items, website, notices, outside>>

\* ... and again under the survey's lock; it ends when another request imported the draft.
LockImport(r) ==
    LET ok == DraftLoads(request[r].draft, request[r].version) /\ ~Imported(request[r].draft) IN
    /\ request[r].pc = "posted" /\ SurveyFree
    /\ IF ok THEN Goes(r, [request[r] EXCEPT !.pc = "importing"]) ELSE Ends(r)
    /\ UNCHANGED <<items, website, notices, outside>>

\* The item and its first history row commit together.
CommitImport(r) ==
    \E i \in Unused :
        /\ request[r].pc = "importing"
        /\ item' = [item EXCEPT ![i] = NewItem(request[r].draft)]
        /\ history' = [history EXCEPT ![i] = <<InitialRow>>]
        /\ Ends(r)
        /\ UNCHANGED <<website, notices, outside>>
-----------------------------------------------------------------------------
(* The draft of a notice *)

NoNotice == [status |-> None, item |-> None, content |-> 0, token |-> 0, confirmed |-> 0,
             recipients |-> 0, sent |-> 0, failed |-> 0]

NewNotice(i) == [NoNotice EXCEPT !.status = "draft", !.item = i, !.content = 1, !.token = 1]

OpenDraft(r) ==
    \E i \in Items \ Free :
        /\ Begins(r, "draft") /\ notice = NoNotice /\ item[i].status # "archived"
        /\ Goes(r, [Idle EXCEPT !.pc = "draft", !.kind = "draft", !.item = i])
        /\ UNCHANGED <<items, website, notices, outside>>

\* ImprovementNoticeCreateView.form_valid, with the item's row locked. (One notice is followed.)
SaveDraft(r) ==
    /\ request[r].pc = "draft"
    /\ notice' = IF item[request[r].item].status = "archived" \/ notice # NoNotice THEN notice
                 ELSE NewNotice(request[r].item)
    /\ Ends(r)
    /\ UNCHANGED <<items, website, dispatch, outside>>

OpenEdit(r) ==
    /\ Begins(r, "edit") /\ notice.status = "draft" /\ notice.content < MaxContents
    /\ Goes(r, [Idle EXCEPT !.pc = "edit", !.kind = "edit"])
    /\ UNCHANGED <<items, website, notices, outside>>

\* Mutant: the old preview's token stays valid.
EditedWithToken == [notice EXCEPT !.content = @ + 1]

Edited == [notice EXCEPT !.content = @ + 1, !.token = @ + 1]

\* ImprovementNoticeUpdateView.form_valid: only while the locked row is a draft.
SaveEdit(r) ==
    /\ request[r].pc = "edit"
    /\ notice' = IF notice.status = "draft" THEN Edited ELSE notice
    /\ Ends(r)
    /\ UNCHANGED <<items, website, dispatch, outside>>

\* The preview shows the content and puts its token in the confirmation form.
Preview(r) ==
    /\ Begins(r, "confirm") /\ notice.status = "draft"
    /\ Goes(r, [Idle EXCEPT !.pc = "preview", !.kind = "confirm", !.token = notice.token,
                            !.shown = notice.content])
    /\ UNCHANGED <<items, website, notices, outside>>
-----------------------------------------------------------------------------
(* Sending *)

NoRow == [status |-> None, person |-> None]
Rows(status) == {a \in Addresses : dispatch[a].status = status}
Batch(r) == [Idle EXCEPT !.pc = "batch", !.kind = request[r].kind, !.shown = request[r].shown]

\* resolve_notice_recipients: one row for each address, for one of the people who have it.
Recipients == {email[p] : p \in eligible} \ {None}
Resolved(rows) ==
    \A a \in Addresses :
        IF a \in Recipients
        THEN \E p \in eligible :
                 /\ email[p] = a
                 /\ rows[a] = [status |-> "pending", person |-> p]
        ELSE rows[a] = NoRow

\* prepare_notice_dispatches: the confirmation must be of the draft as it is now.
Confirm(r) ==
    /\ request[r].pc = "preview"
    /\ IF notice.status # "draft" \/ notice.token # request[r].token \/ Recipients = {}
       THEN Ends(r) /\ UNCHANGED notices
       ELSE /\ \E rows \in [Addresses -> {NoRow} \union
                               [status : {"pending"}, person : eligible]] :
                   Resolved(rows) /\ dispatch' = rows
            /\ notice' = [notice EXCEPT !.status = "sending", !.confirmed = request[r].shown,
                                        !.recipients = Cardinality(Recipients)]
            /\ Goes(r, Batch(r))
    /\ UNCHANGED <<items, website, outside>>

Retriable == notice.status \in {"failed", "partially_sent"} /\ Rows("failed") # {}

\* begin_notice_retry.
BeginRetry(r) ==
    /\ Begins(r, "retry") /\ Retriable
    /\ notice' = [notice EXCEPT !.status = "sending"]
    /\ Goes(r, [Idle EXCEPT !.pc = "batch", !.kind = "retry", !.retry = TRUE])
    /\ UNCHANGED <<items, website, dispatch, outside>>

\* Mutant: a retry sends to every recipient again.
ExpectedTried(r) ==
    IF request[r].retry THEN Rows("failed") \union Rows("sent") ELSE Rows("pending")

\* The rows in the status a batch expects: pending, or failed for a retry.
Expected(r) == Rows(IF request[r].retry THEN "failed" ELSE "pending")

\* send_notice_batch lists the rows it will try ...
ListRows(r) ==
    /\ request[r].pc = "batch"
    /\ Goes(r, [request[r] EXCEPT !.pc = "next", !.todo = Expected(r)])
    /\ UNCHANGED <<items, website, notices, outside>>

\* Mutant: the person's consent is not read again.
CurrentRecipientOnce(a) ==
    LET p == dispatch[a].person IN IF email[p] # None THEN p ELSE None

\* The recipient may still be notified and has a valid address.
CurrentRecipient(a) ==
    LET p == dispatch[a].person IN IF p \in eligible /\ email[p] # None THEN p ELSE None

\* _current_dispatch_email: the address of the account as it is now, not as it was confirmed.
CurrentEmail(a) == IF CurrentRecipient(a) = None THEN None ELSE email[dispatch[a].person]

\* ... and claims them one by one, if they are still as listed.
ClaimDispatch(r) ==
    \E a \in request[r].todo :
        /\ request[r].pc = "next"
        /\ IF a \notin Expected(r)
           THEN /\ Goes(r, [request[r] EXCEPT !.todo = @ \ {a}])
                /\ UNCHANGED dispatch
           ELSE /\ dispatch' = [dispatch EXCEPT ![a].status = "sending"]
                /\ Goes(r, [request[r] EXCEPT !.todo = @ \ {a}, !.row = a,
                               !.person = CurrentRecipient(a), !.email = CurrentEmail(a),
                               !.pc = IF CurrentRecipient(a) = None THEN "failed" ELSE "send"])
        /\ UNCHANGED <<items, website, notice, outside>>

\* send_mail: accepted, refused, or accepted although an error is reported.
SendMail(r) ==
    LET a == request[r].row
        outcome(pc) == Goes(r, [request[r] EXCEPT !.pc = pc])
        mail == [content |-> notice.content, person |-> request[r].person,
                 address |-> request[r].email]
        accepted == mails' = [mails EXCEPT ![a] = Append(@, mail)]
    IN
    /\ request[r].pc = "send"
    /\ \/ outcome("sent") /\ accepted /\ UNCHANGED <<unsure, events>>
       \/ Disturb("refused") /\ outcome("failed") /\ UNCHANGED <<mails, unsure>>
       \/ /\ Disturb("unsure") /\ outcome("failed") /\ accepted
          /\ unsure' = [unsure EXCEPT ![a] = @ + 1]
    /\ UNCHANGED <<items, website, notices, people, scenario>>

\* Mutant: an ineligible recipient is skipped without a result.
MarkOnlyMailed(r) ==
    LET a == request[r].row IN
    /\ request[r].pc \in {"sent", "failed"}
    /\ dispatch' = IF dispatch[a].status = "sending" /\ request[r].person # None
                   THEN [dispatch EXCEPT ![a].status = request[r].pc] ELSE dispatch
    /\ Goes(r, [request[r] EXCEPT !.pc = "next", !.row = None, !.person = None, !.email = None])
    /\ UNCHANGED <<items, website, notice, outside>>

\* _mark_dispatch_sent and _mark_dispatch_failed.
MarkDispatch(r) ==
    LET a == request[r].row IN
    /\ request[r].pc \in {"sent", "failed"}
    /\ dispatch' = IF dispatch[a].status = "sending"
                   THEN [dispatch EXCEPT ![a].status = request[r].pc] ELSE dispatch
    /\ Goes(r, [request[r] EXCEPT !.pc = "next", !.row = None, !.person = None, !.email = None])
    /\ UNCHANGED <<items, website, notice, outside>>

FinalStatus ==
    LET unfinished == Rows("pending") \union Rows("sending") # {} IN
    CASE unfinished -> "sending"
      [] ~unfinished /\ Rows("failed") # {} /\ Rows("sent") # {} -> "partially_sent"
      [] ~unfinished /\ Rows("failed") # {} /\ Rows("sent") = {} -> "failed"
      [] ~unfinished /\ Rows("failed") = {} -> "sent"

\* _finalize_notice counts the rows.
FinalizeNotice(r) ==
    /\ request[r].pc = "next" /\ request[r].todo = {}
    /\ notice' = [notice EXCEPT !.status = FinalStatus, !.sent = Cardinality(Rows("sent")),
                                !.failed = Cardinality(Rows("failed"))]
    /\ Ends(r)
    /\ UNCHANGED <<items, website, dispatch, outside>>
-----------------------------------------------------------------------------
(* Customers, and processes that die *)

UnderWay(p) == \E r \in Requests : request[r].pc = "send" /\ request[r].person = p

\* Consent is withdrawn (preferences, a reply's follow-up, an inactive account) or given.
ChangeConsent(p) ==
    /\ "confirm" \in scenario.kinds /\ Disturb("consent")
    /\ eligible' = IF p \in eligible THEN eligible \ {p} ELSE eligible \union {p}
    /\ late' = IF p \in eligible /\ UnderWay(p) THEN late \union {p} ELSE late \ {p}
    /\ UNCHANGED <<items, website, notices, email, moved, request, mails, unsure, scenario>>

\* CustomerProfileForm: an account gets another address, perhaps one that others have, or none.
ChangeAddress(p) ==
    /\ p \in Accounts /\ "confirm" \in scenario.kinds /\ Disturb("address")
    /\ \E address \in (Addresses \union {None}) \ {email[p]} :
           email' = [email EXCEPT ![p] = address]
    /\ moved' = IF notice.status \in {None, "draft"} THEN moved ELSE moved \union {p}
    /\ UNCHANGED <<items, website, notices, eligible, late, request, mails, unsure, scenario>>

\* The process is killed; a transaction it had open rolls back.
Killed(r) ==
    /\ request[r] # Idle /\ "killed" \in scenario.kinds /\ Disturb("killed")
    /\ Ends(r)
    /\ UNCHANGED <<items, website, notices, people, mails, unsure, scenario>>
-----------------------------------------------------------------------------
Init ==
    /\ item = [i \in Items |-> NoItem]
    /\ history = [i \in Items |-> <<>>]
    /\ website = [stage |-> 0, definition |-> 0, version |-> 1]
    /\ notice = NoNotice
    /\ dispatch = [a \in Addresses |-> NoRow]
    /\ eligible = People /\ email = FirstAddress
    /\ request = [r \in Requests |-> Idle]
    /\ mails = [a \in Addresses |-> <<>>]
    /\ unsure = [a \in Addresses |-> 0]
    /\ late = {} /\ moved = {}
    /\ scenario \in Scenarios
    /\ events = 0

Workflow(r) ==
    \/ CreateItem(r) \/ RecordInitialStatus(r) \/ OpenMove(r) \/ TransitionImprovement(r)
    \/ OpenImport(r) \/ PostImport(r) \/ LockImport(r) \/ CommitImport(r)

Drafting(r) ==
    \/ OpenDraft(r) \/ SaveDraft(r) \/ OpenEdit(r) \/ SaveEdit(r)
    \/ Preview(r) \/ Confirm(r) \/ BeginRetry(r)

Sending(r) ==
    ListRows(r) \/ ClaimDispatch(r) \/ SendMail(r) \/ MarkDispatch(r) \/ FinalizeNotice(r)

Next ==
    \/ \E r \in Requests : Workflow(r) \/ Drafting(r) \/ Sending(r) \/ Killed(r)
    \/ Publish \/ Redefine \/ \E p \in People : ChangeConsent(p) \/ ChangeAddress(p)

Spec == Init /\ [][Next]_vars

\* A request that sends goes on unless its process is killed.
FairSpec == Spec /\ \A r \in Requests : WF_vars(Sending(r))
-----------------------------------------------------------------------------
(* Properties *)

Status == {"draft", "planned", "in_progress", "completed", "archived"}
Item == [status : Status \union {None}, draft : Nat, completed : BOOLEAN, archived : BOOLEAN]
HistoryRow == [from : Status \union {None}, to : Status]
Notice == [status : {None, "draft", "sending", "sent", "partially_sent", "failed"},
           item : Items \union {None}, content : Nat, token : Nat, confirmed : Nat,
           recipients : Nat, sent : Nat, failed : Nat]
DispatchRow == [status : {None, "pending", "sending", "sent", "failed"}, person : People \union {None}]
Mail == [content : Nat, person : People, address : Addresses]
RequestStates == [
    pc : {"idle", "created", "move", "import", "posted", "importing", "draft", "edit",
          "preview", "batch", "next", "send", "sent", "failed"},
    kind : Kinds \union {None}, item : Items \union {None},
    status : Status \union {None, "restore"}, version : Nat, draft : Nat, token : Nat,
    shown : Nat, todo : SUBSET Addresses, retry : BOOLEAN,
    row : Addresses \union {None}, person : People \union {None},
    email : Addresses \union {None}]

\* The rows, the mails and the memory of the requests have their types.
TypeOK ==
    /\ item \in [Items -> Item] /\ history \in [Items -> Seq(HistoryRow)]
    /\ website \in [stage : Nat, definition : Nat, version : Nat]
    /\ notice \in Notice /\ dispatch \in [Addresses -> DispatchRow]
    /\ eligible \subseteq People /\ late \subseteq People /\ moved \subseteq People
    /\ email \in [People -> Addresses \union {None}]
    /\ mails \in [Addresses -> Seq(Mail)] /\ unsure \in [Addresses -> Nat]
    /\ request \in [Requests -> RequestStates]
    /\ scenario \in Scenarios /\ events \in Nat

\* The moves of an item are one path from the draft to its status, and completed_at is there
\* exactly for completed items and those archived as completed.
HistoryExplainsItem ==
    \A i \in Items \ Free : LET moves == Moves(i) IN
        /\ \A n \in 1..Len(moves) :
               moves[n].from = IF n = 1 THEN "draft" ELSE moves[n - 1].to
        /\ item[i].status = IF moves = <<>> THEN "draft" ELSE Last(moves).to
        /\ item[i].completed <=> \/ item[i].status = "completed"
                                 \/ item[i].status = "archived" /\ RestoreTarget(i) = "completed"
        /\ item[i].archived <=> item[i].status = "archived"

\* A draft becomes one item at most, however many requests import it.
OneItemPerDraft ==
    \A i, j \in Items : item[i].draft # 0 /\ item[i].draft = item[j].draft => i = j

\* No notice is drafted for an archived item: the archiving of another request counts.
NoNoticeForArchived ==
    [][notice = NoNotice /\ notice' # NoNotice => item[notice'.item].status # "archived"]_vars

\* Every mail has the content that was confirmed in its preview.
MailIsAsConfirmed ==
    \A a \in Addresses : \A n \in 1..Len(mails[a]) : mails[a][n].content = notice.confirmed

\* A row of the batch, one for each address at the confirmation, is mailed a second time only when
\* the server had reported an error for the first, and to another address only when the account
\* took that address since (_claim_dispatch, _current_dispatch_email).
NoSecondMail ==
    \A a \in Addresses :
        /\ Len(mails[a]) <= 1 + unsure[a]
        /\ \A n \in 1..Len(mails[a]) :
               mails[a][n].address = a \/ mails[a][n].person \in moved

\* What does not hold: an address gets one mail of a notice, but for the errors reported (the
\* recipients are made distinct by recipient_key, notice-loop-design.md:29). An account that takes
\* the address of another recipient after the confirmation is mailed there.
OneMailPerAddress ==
    \A a, b \in Addresses : \A m \in 1..Len(mails[a]), n \in 1..Len(mails[b]) :
        mails[a][m].address = mails[b][n].address => a = b

\* A mail goes to nobody who may not be notified, unless they withdrew during its delivery.
WithdrawalIsRespected ==
    [][\A a \in Addresses : mails'[a] # mails[a] =>
           Last(mails'[a]).person \in eligible \union late]_vars

\* A notice that is not being sent has counts and a status that its rows bear out.
FinishedCountsAddUp ==
    notice.status \in {"sent", "partially_sent", "failed"} =>
        /\ Rows("pending") \union Rows("sending") = {}
        /\ notice.sent = Cardinality(Rows("sent")) /\ notice.failed = Cardinality(Rows("failed"))
        /\ notice.sent + notice.failed = notice.recipients
        /\ notice.status = FinalStatus

\* Every confirmation and every retry ends with a result for each recipient, unless its process
\* is killed.
BatchFinishes ==
    notice.status = "sending" /\ "killed" \notin scenario.kinds ~> notice.status # "sending"

\* The page of a notice offers a retry when deliveries failed (notice-loop-design.md:50).
FailuresCanBeRetried ==
    Rows("failed") # {} /\ (\A r \in Requests : request[r].pc = "idle") => Retriable
=============================================================================
