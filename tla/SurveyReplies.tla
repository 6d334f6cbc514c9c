---------------------------- MODULE SurveyReplies ----------------------------
(***************************************************************************)
(* A survey from its first draft to its replies.  The manager edits the    *)
(* questions of a draft in cards (cloudapi/builder.py, definition.py,      *)
(* writes.py) and publishes it; customers open the form, post it, post it  *)
(* again, and change what they agreed to (feedback/views.py,               *)
(* local_service.py, cloudapi/inbox.py, accounts/views.py), while the      *)
(* manager closes, reopens or archives the survey.                         *)
(*                                                                         *)
(* A survey of the website stores replies itself; a survey of a node goes  *)
(* to the cloud inbox, where only the receipt of a reply stays: what the   *)
(* node answers about it (InboxSync) is the receipt's status here.         *)
(***************************************************************************)
EXTENDS QuestionSchema

CONSTANTS
    Cards,          \* what the manager may post for a question
    FirstCards,     \* the questions of surveys that start out published
    LegacySurveys,  \* a question of the old schema and what the replies hold for it
    Tabs,           \* forms; the key of a form is its idempotency_key
    Users, Managers,
    MaxVersion,     \* bound on definition_version
    Scenarios,      \* who replies how, and a bound on resends, kills, settings, preferences
                    \* and quarantines together; a behaviour keeps to one of them
    None

ASSUME UsersAssumption == Managers \subseteq Users /\ None \notin Users
ASSUME ScenarioAssumption ==
    \A s \in Scenarios :
        /\ s.events \in Nat
        /\ s.via \in {"site", "inbox"} /\ s.tests \in BOOLEAN
        /\ s.start \in {"draft", "published", "legacy"}
        /\ s.users \in [Tabs -> Users \union {None}]

VARIABLES
    revision,   \* revisions of the definition: questions and next_question_number
    published,  \* published_version (0: a draft)
    unconverted, \* a survey the migration has not converted yet
    setting,    \* is_active and archived_at: "open", "closed" or "archived"
    tab,        \* requests: one form each
    reply,      \* FeedbackSubmission or SubmissionReceipt of a key
    optIn,      \* User.notification_opt_in
    mails,      \* thank-you mails sent for a key
    scenario, events

survey == <<revision, published, unconverted, setting>>
vars == <<revision, published, unconverted, setting, tab, reply, optIn, mails, scenario, events>>

Event == events < scenario.events /\ events' = events + 1

\* There is no reply, nor a receipt, of a key.
NoReply == [user |-> None, answers |-> <<>>, consent |-> FALSE, status |-> "none"]

Live == revision[Len(revision)]
Questions == Live.questions
-----------------------------------------------------------------------------
(* The card builder *)

\* QuestionCardForm.to_item over what the question had (update_question, add_question):
\* the card never carries the option counter.
WithCard(item, card) ==
    [item EXCEPT !.kind = KindFor(card.ui, FALSE), !.ordered = card.ordered,
                 !.choices = card.rows, !.scale = IF card.ui = "scale" THEN <<1, 5>> ELSE <<>>]

CardForm == [ui : UiTypes, ordered : BOOLEAN, rows : Seq(Option)]

\* A survey that starts out published got its question from the builder.
ASSUME CardsAssumption ==
    /\ \A card \in Cards \union FirstCards : card \in CardForm
    /\ \A card \in FirstCards : Acceptable(WithCard(NewItem, card))

\* _check_choice_codes: a code the question does not have now must be above its counter.
CodesAreFresh(item, stored) ==
    \A code \in Codes(item.choices) : code \in Codes(stored.choices) \/ code >= stored.next

Drafting == published = 0 /\ unconverted = None /\ Len(revision) < MaxVersion

\* change_definition on a draft: the next version.
Store(questions, next) ==
    revision' = Append(revision, [questions |-> questions, next |-> next])

WithQuestion(n, item) ==
    [m \in DOMAIN Questions \union {n} |-> IF m = n THEN item ELSE Questions[m]]

\* save-question without a question_uuid: add_question, and the next number of the survey's
\* counter when the row is saved (allocate_question_code).
AddQuestion(card) ==
    LET item == WithCard(NewItem, card) IN
    /\ Drafting /\ Acceptable(item)
    /\ Store(WithQuestion(Live.next, NormalizeQuestion(item)), Live.next + 1)
    /\ UNCHANGED <<published, unconverted, setting, tab, reply, optIn, mails, scenario, events>>

\* save-question of a question: update_question.
UpdateQuestion(n, card) ==
    LET item == WithCard(Questions[n], card) IN
    /\ Drafting /\ Acceptable(item) /\ CodesAreFresh(item, Questions[n])
    /\ Store([Questions EXCEPT ![n] = NormalizeQuestion(item)], Live.next)
    /\ UNCHANGED <<published, unconverted, setting, tab, reply, optIn, mails, scenario, events>>

\* duplicate-question: a new number, the options' codes kept.
DuplicateQuestion(n) ==
    /\ Drafting
    /\ Store(WithQuestion(Live.next, Questions[n]), Live.next + 1)
    /\ UNCHANGED <<published, unconverted, setting, tab, reply, optIn, mails, scenario, events>>

\* delete-question: a draft's question row goes, its number does not come back.
DeleteQuestion(n) ==
    /\ Drafting
    /\ Store([m \in DOMAIN Questions \ {n} |-> Questions[m]], Live.next)
    /\ UNCHANGED <<published, unconverted, setting, tab, reply, optIn, mails, scenario, events>>

\* publish: at least one question; the definition is fixed from here on.
Publish ==
    /\ published = 0 /\ unconverted = None /\ Questions # <<>>
    /\ revision' = Append(revision, Live)
    /\ published' = Len(revision) + 1
    /\ UNCHANGED <<unconverted, setting, tab, reply, optIn, mails, scenario, events>>
-----------------------------------------------------------------------------
(* The migration of older surveys (feedback/schema_conversion.py) *)

\* The old form offered a scale's lines, or one to five, and blank lines were no options.
ASSUME LegacyAssumption ==
    \A legacy \in LegacySurveys :
        LET question == legacy.question IN
        /\ question.kind \in ChoiceKinds \union {"scale"}
        /\ question.lines \in Seq(STRING) /\ "" \notin Range(question.lines)
        /\ DOMAIN legacy.values = Tabs
        /\ question.kind = "scale" => \A t \in Tabs :
               \/ legacy.values[t] = None
               \/ legacy.values[t] \in Range(question.lines)
               \/ question.lines = <<>> /\ legacy.values[t] \in {ToString(n) : n \in 1..5}

\* One question, and the counters a survey with it starts from.
Only(item) == [questions |-> <<NormalizeQuestion(item)>>, next |-> 2]

\* A single choice gets the code of its line; points of a scale stay what they are.
ConvertedAnswer(item, value) ==
    IF item.kind = "single_choice"
    THEN <<(CHOOSE c \in Range(item.choices) : c.label = value).code>>
    ELSE <<CHOOSE n \in 0..10 : ToString(n) = value>>

\* convert_definitions: all of it or, when a survey cannot be converted safely, nothing; a
\* survey that was open becomes a published one.
ConvertDefinitions ==
    LET item == FromLegacy(unconverted.question)
        value == unconverted.values
    IN
    /\ unconverted # None
    /\ Convertible(unconverted.question, Range(value) \ {None})
    /\ revision' = <<Only(item)>>
    /\ published' = 1
    /\ reply' = [t \in Tabs |->
                    IF value[t] = None THEN NoReply
                    ELSE [user |-> None, answers |-> <<ConvertedAnswer(item, value[t])>>,
                          consent |-> FALSE, status |-> "kept"]]
    /\ unconverted' = None
    /\ UNCHANGED <<setting, tab, optIn, mails, scenario, events>>
-----------------------------------------------------------------------------
(* Settings of a published survey *)

AcceptsResponses == published # 0 /\ setting = "open"

\* update-survey with is_active changed; delete-survey of a published survey archives it.
ChangeSetting ==
    /\ published # 0 /\ setting # "archived" /\ Event
    /\ setting' \in {"open", "closed", "archived"} \ {setting}
    /\ UNCHANGED <<revision, published, unconverted, tab, reply, optIn, mails, scenario>>
-----------------------------------------------------------------------------
(* Filling in the form *)

User(t) == scenario.users[t]
IsManager(t) == User(t) \in Managers

\* has_submitted: replies of the website, or receipts that were not abandoned.
HasSubmitted(u) ==
    \E k \in Tabs : reply[k] # NoReply /\ reply[k].user = u /\ reply[k].status # "abandoned"

\* SurveyDetailView.dispatch and get_context_data of a GET: the display limits, then a form
\* with a new key and the customer's own preference.
OpenForm(t) ==
    /\ tab[t].pc = "none" /\ User(t) # None
    /\ AcceptsResponses
    /\ ~IsManager(t) => ~HasSubmitted(User(t))
    /\ tab' = [tab EXCEPT ![t] = [@ EXCEPT !.pc = "form", !.consent = optIn[User(t)]]]
    /\ UNCHANGED <<survey, reply, optIn, mails, scenario, events>>

Answers == {a \in [DOMAIN Questions -> UNION {ValuesOffered(Questions[n]) : n \in DOMAIN Questions}] :
               \A n \in DOMAIN Questions : a[n] \in ValuesOffered(Questions[n])}

\* A POST reads the survey and request.user, and its fields are valid. With a customer's post
\* to a survey of a node the preference is saved before the reply is judged.
Post(t, consent) ==
    /\ tab[t].pc = "form"
    /\ \E answers \in Answers :
          tab' = [tab EXCEPT ![t] = [pc |-> IF scenario.via = "inbox" /\ ~IsManager(t)
                                            THEN "prefer" ELSE "judge",
                                     answers |-> answers, consent |-> consent]]
    /\ UNCHANGED <<survey, reply, optIn, mails, scenario, events>>

Answer(t, pc) == tab' = [tab EXCEPT ![t].pc = pc]

Prefer(t) == optIn' = IF IsManager(t) THEN optIn ELSE [optIn EXCEPT ![User(t)] = tab[t].consent]

\* post: before the inbox is asked ...
PreferFirst(t) ==
    /\ tab[t].pc = "prefer" /\ Prefer(t) /\ Answer(t, "judge")
    /\ UNCHANGED <<survey, reply, mails, scenario, events>>

\* ... and on the website after a new reply was stored.
PreferAfterwards(t) ==
    /\ tab[t].pc = "stored" /\ Prefer(t) /\ Answer(t, "mail")
    /\ UNCHANGED <<survey, reply, mails, scenario, events>>

\* _encoded_answers on the website; the inbox keeps the posted values (encode_answers).
Encoded(t) ==
    [n \in DOMAIN tab[t].answers |->
        IF scenario.via = "site" THEN EncodeAnswer(Questions[n], tab[t].answers[n])
        ELSE tab[t].answers[n]]

\* Mutant: a resend is recognised by its key and its customer.
SameCustomer(t) == reply[t].user = User(t)

\* _same_submission.
SameSubmission(t) ==
    /\ reply[t].user = User(t)
    /\ reply[t].answers = Encoded(t)
    /\ reply[t].consent = tab[t].consent

\* accept_submission compares the payload hash, and an abandoned reply is not sent again.
SamePayload(t) ==
    /\ reply[t].user = User(t)
    /\ reply[t].answers = Encoded(t) /\ reply[t].consent = tab[t].consent
    /\ reply[t].status # "abandoned"

\* Mutant: only the form asks whether the customer has replied.
MaySubmitAgain(t) == AcceptsResponses

\* What a new reply needs on the website. (The form's version is the published one, which
\* never changes.)
MaySubmit(t) ==
    /\ AcceptsResponses
    /\ IsManager(t) \/ ~HasSubmitted(User(t))

\* What it needs in the inbox: in a self-test scope, a member of the staff. (Neither the earlier
\* replies of the customer nor, here, a full inbox: InboxSync.)
MayAccept(t) ==
    /\ AcceptsResponses
    /\ scenario.tests => IsManager(t)

\* One transaction under the survey's row lock: a resend is judged first, then the rest.
Judged(t, same, may, status, next) ==
    IF reply[t] # NoReply
    THEN Answer(t, IF same THEN "thanked" ELSE "refused") /\ UNCHANGED reply
    ELSE IF ~may THEN Answer(t, "refused") /\ UNCHANGED reply
    ELSE /\ Answer(t, next)
         /\ reply' = [reply EXCEPT ![t] = [user |-> User(t), answers |-> Encoded(t),
                                           consent |-> tab[t].consent, status |-> status]]

\* submit_survey_payload.
Submit(t) ==
    /\ scenario.via = "site" /\ tab[t].pc = "judge"
    /\ Judged(t, SameSubmission(t), MaySubmit(t), "kept", "stored")
    /\ UNCHANGED <<survey, optIn, mails, scenario, events>>

\* accept_submission.
Accept(t) ==
    /\ scenario.via = "inbox" /\ tab[t].pc = "judge"
    /\ Judged(t, SamePayload(t), MayAccept(t), "received", "mail")
    /\ UNCHANGED <<survey, optIn, mails, scenario, events>>

\* The thank-you mail of a new reply, then the success page.
Thank(t) ==
    /\ tab[t].pc = "mail"
    /\ Answer(t, "thanked")
    /\ mails' = [mails EXCEPT ![t] = @ + 1]
    /\ UNCHANGED <<survey, reply, optIn, scenario, events>>

\* The web process is killed, or its answer is lost.
Kill(t) ==
    /\ tab[t].pc \in {"judge", "stored", "mail"} /\ Event
    /\ Answer(t, "broken")
    /\ UNCHANGED <<survey, reply, optIn, mails, scenario>>

\* Reloading, or going back to the form: the same key, the same content or another.
Return(t) ==
    /\ tab[t].pc \in {"thanked", "refused", "broken"} /\ Event
    /\ Answer(t, "form")
    /\ UNCHANGED <<survey, reply, optIn, mails, scenario>>
-----------------------------------------------------------------------------
(* The customer's preferences page, and what becomes of a receipt *)

\* toggle-global.
ToggleGlobal(u) ==
    /\ u \in Users \ Managers /\ Event
    /\ optIn' = [optIn EXCEPT ![u] = ~@]
    /\ UNCHANGED <<survey, tab, reply, mails, scenario>>

\* toggle-survey changes the website's replies of one customer; receipts cannot be changed.
ToggleSurvey(u, on) ==
    /\ \E k \in Tabs : reply[k] # NoReply /\ reply[k].user = u /\ reply[k].status = "kept"
    /\ Event
    /\ reply' = [k \in Tabs |->
                    IF reply[k] # NoReply /\ reply[k].user = u /\ reply[k].status = "kept"
                    THEN [reply[k] EXCEPT !.consent = on] ELSE reply[k]]
    /\ UNCHANGED <<survey, tab, optIn, mails, scenario>>

\* ack_items, quarantine_items, requeue and abandon as the receipt sees them.
ReceiptMoves == {<<"received", "synced">>, <<"received", "quarantined">>,
                 <<"quarantined", "received">>, <<"quarantined", "abandoned">>}

SettleReceipt(k) ==
    \E move \in ReceiptMoves :
        /\ reply[k] # NoReply /\ reply[k].status = move[1]
        /\ IF move[1] = "quarantined" THEN Event ELSE UNCHANGED events
        /\ reply' = [reply EXCEPT ![k].status = move[2]]
        /\ UNCHANGED <<survey, tab, optIn, mails, scenario>>
-----------------------------------------------------------------------------
FirstForm == [pc |-> "none", answers |-> <<>>, consent |-> FALSE]

Init ==
    /\ scenario \in Scenarios
    /\ IF scenario.start = "published"
       THEN published = 1 /\ \E card \in FirstCards : revision = <<Only(WithCard(NewItem, card))>>
       ELSE published = 0 /\ revision = <<[questions |-> <<>>, next |-> 1]>>
    /\ IF scenario.start = "legacy"
       THEN unconverted \in LegacySurveys
       ELSE unconverted = None
    /\ setting = "open"
    /\ tab = [t \in Tabs |-> FirstForm]
    /\ reply = [t \in Tabs |-> NoReply]
    /\ optIn = [u \in Users |-> TRUE]
    /\ mails = [t \in Tabs |-> 0]
    /\ events = 0

Next ==
    \/ \E card \in Cards : AddQuestion(card)
    \/ \E n \in DOMAIN Questions, card \in Cards : UpdateQuestion(n, card)
    \/ \E n \in DOMAIN Questions : DuplicateQuestion(n) \/ DeleteQuestion(n)
    \/ Publish \/ ChangeSetting \/ ConvertDefinitions
    \/ \E t \in Tabs : \/ OpenForm(t) \/ PreferFirst(t) \/ PreferAfterwards(t)
                       \/ Submit(t) \/ Accept(t) \/ Thank(t)
                       \/ Kill(t) \/ Return(t) \/ SettleReceipt(t)
    \/ \E t \in Tabs, consent \in BOOLEAN : Post(t, consent)
    \/ \E u \in Users : ToggleGlobal(u) \/ \E on \in BOOLEAN : ToggleSurvey(u, on)

Spec == Init /\ [][Next]_vars
-----------------------------------------------------------------------------
(* Properties *)

\* A stored reply; one that was migrated has no customer. On the website it is kept, in the
\* inbox its receipt moves on.
IsReply(r) ==
    /\ r.user \in Users \union {None} /\ r.consent \in BOOLEAN
    /\ r.status \in {"kept", "received", "synced", "quarantined", "abandoned"}
    /\ DOMAIN r.answers \subseteq DOMAIN Questions

\* The variables have their types, a stored question is in normal form, and no code or number
\* is at or above the counter it came from.
TypeOK ==
    /\ scenario \in Scenarios /\ events \in 0..scenario.events
    /\ published \in 0..Len(revision)
    /\ setting \in {"open", "closed", "archived"}
    /\ optIn \in [Users -> BOOLEAN]
    /\ mails \in [Tabs -> Nat]
    /\ \A t \in Tabs :
          /\ tab[t].pc \in {"none", "form", "prefer", "judge", "stored", "mail", "thanked",
                             "refused", "broken"}
          /\ reply[t] # NoReply => IsReply(reply[t])
    /\ \A n \in DOMAIN Questions :
          /\ n < Live.next /\ Acceptable(Questions[n])
          /\ NormalizeQuestion(Questions[n]) = Questions[n]
          /\ \A code \in Codes(Questions[n].choices) : code < Questions[n].next

\* What an edit of the draft removed never comes back under the same name: a number of a
\* question, or a code of an option of that question, that two revisions have is in every
\* revision between them. (Stored answers and analyses name questions and options by them.)
CodesAreNotReused ==
    \A i, j, k \in DOMAIN revision : i < j /\ j < k =>
        \A n \in DOMAIN revision[i].questions \cap DOMAIN revision[k].questions :
            /\ n \in DOMAIN revision[j].questions
            /\ Codes(revision[i].questions[n].choices) \cap Codes(revision[k].questions[n].choices)
                 \subseteq Codes(revision[j].questions[n].choices)

\* What a customer chose among the options the form offered is never read as an answer outside
\* the question: the statistics find every stored choice valid, or left out on purpose.
NoAnswerIsInvalid ==
    \A k \in Tabs : reply[k] # NoReply =>
        \A n \in DOMAIN reply[k].answers :
            Questions[n].kind \in ChoiceKinds \union {"scale"} =>
                Classify(Questions[n], AnswerCell(Questions[n], reply[k].answers[n]))
                    \in {"valid", "excluded"}

\* On the website a customer has at most one reply to a survey, however many forms were open
\* and whatever was posted at once. (The inbox does not judge this; managers may repeat.)
OneReplyPerCustomer ==
    scenario.via = "site" =>
        \A j, k \in Tabs :
            reply[j] # NoReply /\ reply[k] # NoReply /\ reply[j].user = reply[k].user
                /\ reply[j].user \in Users \ Managers => j = k

\* Who sees the success page has a reply stored under the form's key with the answers of that
\* very post, and in the inbox its consent, even after a lost answer, an edit and a second post.
ThankedMeansStored ==
    \A t \in Tabs : tab[t].pc = "thanked" =>
        /\ reply[t] # NoReply
        /\ reply[t].user = User(t)
        /\ reply[t].answers = Encoded(t)
        /\ scenario.via = "inbox" => reply[t].consent = tab[t].consent

\* A reply is thanked for by at most one mail, and nothing but a stored reply is.
OneMailPerReply ==
    \A t \in Tabs : mails[t] <= IF reply[t] = NoReply THEN 0 ELSE 1
=============================================================================
