----------------------------- MODULE PaidAnalysis -----------------------------
(***************************************************************************)
(* The paid Gemini analysis of one survey on a node: the owner previews    *)
(* and confirms it (node/views.py, node/gemini.py), a confirmation becomes *)
(* an analysis job with a grant, a worker runs the job in three stages     *)
(* (feedback/ai_worker.py, ai_stage_service.py), and every call of the     *)
(* provider is first reserved on the grant and only then sent.             *)
(*                                                                         *)
(* Every input version has one snapshot of published statistics and text,  *)
(* named by the version. Leases are live or expired and grants valid or    *)
(* expired: when they expire is open. The survey reads its own answers and *)
(* stays enabled; its jobs that compute statistics are one step, Analyse.  *)
(***************************************************************************)
EXTENDS Integers, FiniteSets, Sequences, SequencesExt

CONSTANTS
    Workers,        \* processes that run analysis jobs
    Tokens,         \* signed confirmations
    Contents,       \* what a snapshot's statistics, or text, may say
    Content,        \* what each version's statistics and text say
    Empty,          \* the content of a text without evidence
    ApiKeys,        \* the API keys the owner may store
    FirstKey,       \* the one stored at first
    Scenarios,      \* the workers, the confirmations and the disturbances of a behaviour
    MaxJobs,        \* bound on the AI jobs of the survey
    MaxInput,       \* bound on the versions of its answers
    MaxEvents,      \* bound on the disturbances
    MaxAttempts,    \* AnalysisJob.max_attempts
    MaxCalls,       \* NodeAIGrant.max_calls
    None

Upstream == {"statistics", "text"}
Stages == <<"statistics", "text", "synthesis">>
Jobs == 1 .. MaxJobs
Inputs == 1 .. MaxInput
Kinds == {"answers", "key", "improvement", "owner", "expiry", "lease", "killed", "cancel"}

ASSUME ContentAssumption == Content \in [Inputs \X Upstream -> Contents]
ASSUME BoundAssumption ==
    /\ MaxJobs \in Nat /\ MaxInput \in Nat \ {0} /\ MaxEvents \in Nat
    /\ MaxAttempts \in Nat \ {0} /\ MaxCalls \in Nat
ASSUME ScenarioAssumption ==
    Scenarios \subseteq [workers : SUBSET Workers, tokens : SUBSET Tokens, kinds : SUBSET Kinds,
                         events : 0 .. MaxEvents]
ASSUME KeyAssumption == FirstKey \in ApiKeys
ASSUME NoneAssumption ==
    None \notin Workers \union Contents \union Tokens \union ApiKeys \union
        {"pending", "running", "queued", "load", "prepare", "publish"}

VARIABLES
    input,      \* the survey's input version
    base,       \* the version whose statistics and text are published
    ai,         \* the version whose synthesis is published, 0 at first
    key,        \* what the vault has: the API key, and its generation
    owner,      \* the person who confirms is still an active owner
    improved,   \* the improvement items that the synthesis reads
    token,      \* the identity each confirmation was signed for
    job,        \* AnalysisJob rows with the AI executor
    grant,      \* NodeAIGrant rows, one for each job at most
    rows,       \* SurveyAIAnalysisStage rows that succeeded
    worker,     \* what each worker is doing
    sent,       \* calls the provider has received, by job
    lost,       \* a call whose result nobody knows
    scenario,   \* who takes part in this behaviour and what disturbs it
    events      \* disturbances so far

survey == <<input, base, key, owner, improved>>
queue == <<job, grant>>
provider == <<sent, lost>>
setting == <<scenario, events>>
vars == <<input, base, ai, key, owner, improved, token, job, grant, rows, worker, sent, lost,
          scenario, events>>

NoJob == [status |-> None, input |-> 0, attempts |-> 0, cancel |-> FALSE, live |-> FALSE,
          holder |-> None]
NoGrant == [status |-> None, token |-> None, identity |-> None, calls |-> 0,
            inFlight |-> FALSE, expired |-> FALSE]
Idle == [pc |-> "idle", next |-> None, job |-> 0, attempt |-> 0, base |-> 0, stage |-> 0,
         secret |-> None, compact |-> FALSE, outcome |-> None]

Disturb(kind) ==
    kind \in scenario.kinds /\ events < scenario.events /\ events' = events + 1

\* What the vault holds as the API key. The key and its generation are two entries of it:
\* key.secrets are the keys that were there since the generation was written, the last one now,
\* and key.open counts the requests that have written a key and no generation yet.
Secret == Last(key.secrets)

\* node.gemini.current_identity; None where it raises.
CurrentIdentity == IF base = input THEN [base |-> base, key |-> key.generation] ELSE None
-----------------------------------------------------------------------------
(* Jobs *)

Active(g) == g.status \in {"queued", "running"}
Pending(table) == {j \in Jobs : table[j].status = "pending"}

\* _ensure_pending_job_locked: the survey's pending job takes the current versions ...
Coalesced(table) ==
    [j \in Jobs |-> IF j \in Pending(table) THEN [table[j] EXCEPT !.input = input] ELSE table[j]]
\* ... or a job is created.
Created(table, j) == [table EXCEPT ![j] = [NoJob EXCEPT !.status = "pending", !.input = input]]
FreeJobs(table) == {j \in Jobs : table[j] = NoJob /\ \A i \in 1 .. j - 1 : table[i] # NoJob}

\* The outcomes of scheduling: the table, and the job it returns.
Scheduled(table) ==
    IF Pending(table) # {}
    THEN {<<Coalesced(table), j>> : j \in Pending(table)}
    ELSE {<<Created(table, j), j>> : j \in FreeJobs(table)}

\* request_job_cancel
CancelRequested(table, j) ==
    [table EXCEPT ![j] =
        IF @.status = "pending" THEN [@ EXCEPT !.status = "cancelled", !.cancel = TRUE]
        ELSE IF @.status = "running" THEN [@ EXCEPT !.cancel = TRUE] ELSE @]

Released(row, status) == [row EXCEPT !.status = status, !.live = FALSE, !.holder = None]
Holds(w) == LET row == job[worker[w].job] IN
    row.status = "running" /\ row.holder = <<w, worker[w].attempt>>
HoldsLive(w) == LET row == job[worker[w].job] IN Holds(w) /\ row.live /\ ~row.cancel
VersionsCurrent(w) == job[worker[w].job].input = input

\* _supersede_job_locked: a pending job of its own for the current versions.
Superseded(w) ==
    \E outcome \in Scheduled(job) :
        job' = [outcome[1] EXCEPT ![worker[w].job] = Released(@, "cancelled")]
-----------------------------------------------------------------------------
(* The owner *)

Configured == Secret # None

\* AnalysisJobsView, preview-ai
Preview(t) ==
    /\ t \in scenario.tokens /\ token[t] = None /\ owner /\ Configured /\ CurrentIdentity # None
    /\ token' = [token EXCEPT ![t] = CurrentIdentity]
    /\ UNCHANGED <<survey, ai, queue, rows, worker, provider, setting>>

\* confirm: what it refuses before it looks at the grants, and the grant it returns again.
Confirmable(t) == owner /\ Configured /\ token[t] # None /\ CurrentIdentity = token[t]

\* Mutant: a confirmation whose run has ended starts another.
ConfirmedUntilItEnds(t) == \E j \in Jobs : grant[j].token = t /\ Active(grant[j])

Confirmed(t) == \E j \in Jobs : grant[j].token = t
Uncertain == \E j \in Jobs : grant[j].inFlight
StillPending(t) ==
    \E j \in Jobs : Active(grant[j]) /\ grant[j].identity = token[t] /\ ~grant[j].expired

NewGrant(t) == [NoGrant EXCEPT !.status = "queued", !.token = t, !.identity = token[t]]

\* The consent it replaces: its job is cancelled and its grant is stale.
Obsolete == {j \in Jobs : Active(grant[j])}
WithoutObsolete ==
    IF Obsolete = {} THEN job ELSE CancelRequested(job, CHOOSE j \in Obsolete : TRUE)
Staled == [j \in Jobs |-> IF Obsolete # {} /\ j = CHOOSE i \in Obsolete : TRUE
                          THEN [grant[j] EXCEPT !.status = "stale"] ELSE grant[j]]

\* confirm. A job that has a grant cannot get another: the request fails and nothing is kept.
Confirm(t) ==
    /\ Confirmable(t) /\ ~Confirmed(t) /\ ~Uncertain /\ ~StillPending(t)
    /\ \E outcome \in Scheduled(WithoutObsolete) :
        /\ grant[outcome[2]] = NoGrant
        /\ job' = outcome[1]
        /\ grant' = [Staled EXCEPT ![outcome[2]] = NewGrant(t)]
    /\ UNCHANGED <<survey, ai, token, rows, worker, provider, setting>>

\* AnalysisJobsView, cancel
CancelJob(j) ==
    /\ job[j] # NoJob /\ Disturb("cancel")
    /\ job' = CancelRequested(job, j)
    /\ grant' = [grant EXCEPT ![j] =
        IF @ = NoGrant \/ @.inFlight THEN @ ELSE [@ EXCEPT !.status = "cancelled"]]
    /\ UNCHANGED <<survey, ai, token, rows, worker, provider, scenario>>

\* GeminiSettingsView, set_key: the key is replaced, or deleted (None) ...
WriteKey(secret) ==
    /\ Disturb("key")
    /\ key' = [key EXCEPT !.secrets = Append(@, secret), !.open = @ + 1]
    /\ UNCHANGED <<input, base, ai, owner, improved, token, queue, rows, worker, provider, scenario>>

\* ... and then a new generation is written, unless the request ends in between: the process is
\* killed, or the vault refuses.
WriteGeneration ==
    /\ key.open > 0
    /\ key' = [secrets |-> <<Secret>>, generation |-> key.generation + 1, open |-> key.open - 1]
    /\ UNCHANGED <<input, base, ai, owner, improved, token, queue, rows, worker, provider, setting>>

\* The owner is deactivated or loses the role.
RevokeOwner ==
    /\ owner /\ Disturb("owner")
    /\ owner' = FALSE
    /\ UNCHANGED <<input, base, ai, key, improved, token, queue, rows, worker, provider, scenario>>
-----------------------------------------------------------------------------
(* The survey *)

\* An answer or a setting changes: schedule_survey_analysis.
ChangeAnswers ==
    /\ input < MaxInput /\ Disturb("answers")
    /\ input' = input + 1
    /\ UNCHANGED <<base, ai, key, owner, improved, token, queue, rows, worker, provider, scenario>>

\* publish_analysis_snapshot
Analyse ==
    /\ base # input
    /\ base' = input
    /\ UNCHANGED <<input, ai, key, owner, improved, token, queue, rows, worker, provider, setting>>

\* An improvement item is added or changed.
Improve ==
    /\ Disturb("improvement")
    /\ improved' = improved + 1
    /\ UNCHANGED <<input, base, ai, key, owner, token, queue, rows, worker, provider, scenario>>
-----------------------------------------------------------------------------
(* The worker *)

Goes(w, state) == worker' = [worker EXCEPT ![w] = state]
To(w, pc) == [worker[w] EXCEPT !.pc = pc]
\* An exception that leaves execute_ai_job.
Aborts(w, outcome) == Goes(w, [To(w, "aborting") EXCEPT !.outcome = outcome])

Mine(w) == job[worker[w].job]
Grant(w) == grant[worker[w].job]
StageOf(w) == Stages[worker[w].stage]

\* claim_next_job: jobs out of attempts fail, whatever their grants say ...
Exhausted(row) == row.status = "running" /\ ~row.live /\ row.attempts >= MaxAttempts
Swept == [j \in Jobs |-> IF Exhausted(job[j]) THEN Released(job[j], "failed") ELSE job[j]]

\* Mutant: a job whose worker died is never reclaimed.
EligibleOncePending == {j \in Jobs : job[j].status = "pending" /\ ~job[j].cancel /\ Active(grant[j])}

\* ... and of the others only those with an active grant are claimed.
Eligible == {j \in Jobs :
    /\ \/ job[j].status = "pending"
       \/ job[j].status = "running" /\ ~job[j].live /\ job[j].attempts < MaxAttempts
    /\ ~job[j].cancel
    /\ Active(grant[j])}

Claimed(row, w) == [row EXCEPT !.status = "running", !.attempts = @ + 1, !.live = TRUE,
                               !.holder = <<w, row.attempts + 1>>]

Claim(w) ==
    /\ worker[w].pc = "idle" /\ w \in scenario.workers
    /\ \E j \in Eligible :
        /\ job' = [Swept EXCEPT ![j] = Claimed(@, w)]
        /\ Goes(w, [Idle EXCEPT !.pc = "claimed", !.job = j, !.attempt = job[j].attempts + 1])
    /\ UNCHANGED <<survey, ai, token, grant, rows, provider, setting>>

Sweep(w) ==
    /\ worker[w].pc = "idle" /\ w \in scenario.workers
    /\ Eligible = {} /\ Swept # job
    /\ job' = Swept
    /\ UNCHANGED <<survey, ai, token, grant, rows, worker, provider, setting>>

\* execute_confirmed: the grant is read and compared without a lock.
GrantInvalid(g) ==
    ~Active(g) \/ g.inFlight \/ g.expired \/ CurrentIdentity = None \/ g.identity # CurrentIdentity

Begin(w) ==
    /\ worker[w].pc = "claimed"
    /\ IF GrantInvalid(Grant(w)) THEN Aborts(w, "fail")
       ELSE Goes(w, [To(w, "checkpoint") EXCEPT !.next = "load"])
    /\ UNCHANGED <<survey, ai, token, queue, rows, provider, setting>>

\* _checkpoint: heartbeat_job, then check_claim_current.
Checkpoint(w) ==
    /\ worker[w].pc = "checkpoint"
    /\ \/ /\ Holds(w) /\ Mine(w).cancel
          /\ Aborts(w, "cancelled") /\ UNCHANGED job
       \/ /\ ~HoldsLive(w) /\ ~(Holds(w) /\ Mine(w).cancel)
          /\ Aborts(w, "retry") /\ UNCHANGED job
       \/ /\ HoldsLive(w) /\ ~VersionsCurrent(w)
          /\ Superseded(w) /\ Aborts(w, "superseded")
       \/ /\ HoldsLive(w) /\ VersionsCurrent(w)
          /\ Goes(w, To(w, worker[w].next)) /\ UNCHANGED job
    /\ UNCHANGED <<survey, ai, token, grant, rows, provider, setting>>

\* execute_ai_job: the base the stages will read.
LoadBase(w) ==
    /\ worker[w].pc = "load"
    /\ IF base = Mine(w).input
       THEN Goes(w, [To(w, "checkpoint") EXCEPT !.next = "prepare", !.base = base, !.stage = 1])
       ELSE Aborts(w, "retry")
    /\ UNCHANGED <<survey, ai, token, queue, rows, provider, setting>>

\* build_stage_input, as far as it tells inputs apart: the synthesis reads the latest upstream
\* rows of its snapshot and the improvement items.
RowsOf(s, stage) == {r \in rows : r.base = s /\ r.stage = stage}
StageInput(s, stage) ==
    IF stage \in Upstream THEN Content[s, stage]
    ELSE <<s, Cardinality(RowsOf(s, "statistics")), Cardinality(RowsOf(s, "text")), improved>>

NewRow(s, stage) == [base |-> s, stage |-> stage, input |-> StageInput(s, stage),
                     revision |-> Cardinality(RowsOf(s, stage)) + 1]
Adds(s, stage) == rows' = rows \union {NewRow(s, stage)}

\* The next stage, or the publication, after a checkpoint.
StageDone(w) ==
    Goes(w, IF worker[w].stage = Len(Stages)
            THEN [To(w, "checkpoint") EXCEPT !.next = "publish"]
            ELSE [To(w, "checkpoint") EXCEPT !.next = "prepare", !.stage = @ + 1])

\* generate_stage ends with a StageError: execute_ai_job never retries it.
StageFails(w) == Aborts(w, "fail")

\* prepare_stage: a row of the snapshot, else of another one, with the same input.
Cached(s, stage) == \E r \in RowsOf(s, stage) : r.input = StageInput(s, stage)
Reusable(s, stage) == \E r \in rows : r.stage = stage /\ r.input = StageInput(s, stage)
NothingToAnalyse(s, stage) == stage = "text" /\ StageInput(s, stage) = Empty

\* The client is made: it reads the key, for both attempts of the stage.
Connects(w) ==
    IF Configured THEN Goes(w, [To(w, "call") EXCEPT !.secret = Secret, !.compact = FALSE])
                  ELSE StageFails(w)

\* generate_stage until the first attempt.
Prepare(w) ==
    LET s == worker[w].base
        stage == StageOf(w) IN
    /\ worker[w].pc = "prepare"
    /\ \/ Cached(s, stage) /\ StageDone(w) /\ UNCHANGED rows
       \/ ~Cached(s, stage) /\ Reusable(s, stage) /\ Adds(s, stage) /\ StageDone(w)
       \/ /\ ~Reusable(s, stage) /\ NothingToAnalyse(s, stage)
          /\ Adds(s, stage) /\ StageDone(w)
       \/ /\ ~Reusable(s, stage) /\ ~NothingToAnalyse(s, stage)
          /\ Connects(w) /\ UNCHANGED rows
    /\ UNCHANGED <<survey, ai, token, queue, provider, setting>>

\* AuthorizedClient.generate_content: the heartbeat and the check of the claim ...
Heartbeat(w) ==
    /\ worker[w].pc = "call"
    /\ \/ ~HoldsLive(w) /\ StageFails(w) /\ UNCHANGED job
       \/ HoldsLive(w) /\ ~VersionsCurrent(w) /\ Superseded(w) /\ StageFails(w)
       \/ HoldsLive(w) /\ VersionsCurrent(w) /\ Goes(w, To(w, "reserve")) /\ UNCHANGED job
    /\ UNCHANGED <<survey, ai, token, grant, rows, provider, setting>>

\* Mutant: the identity is compared when the job begins, and not again.
ReservableAnyVersion(g) ==
    Active(g) /\ ~g.inFlight /\ ~g.expired /\ owner /\ g.calls < MaxCalls

\* Mutant: the reservation counts the call and does not mark it.
ReservedUnmarked(g) == [g EXCEPT !.calls = @ + 1, !.status = "running"]

\* ... the reservation, under the locks of the survey and of its analysis state ...
Reservable(g) == ~GrantInvalid(g) /\ owner /\ g.calls < MaxCalls
Reserved(g) == [g EXCEPT !.calls = @ + 1, !.inFlight = TRUE, !.status = "running"]

Reserve(w) ==
    /\ worker[w].pc = "reserve"
    /\ IF Reservable(Grant(w))
       THEN /\ grant' = [grant EXCEPT ![worker[w].job] = Reserved(@)]
            /\ Goes(w, To(w, "send"))
       ELSE StageFails(w) /\ UNCHANGED grant
    /\ UNCHANGED <<survey, ai, token, job, rows, provider, setting>>

\* ... and the call, after the reservation is committed.
Send(w) ==
    /\ worker[w].pc = "send"
    /\ sent' = [sent EXCEPT ![worker[w].job] = @ + 1]
    /\ Goes(w, To(w, "wait"))
    /\ UNCHANGED <<survey, ai, token, queue, rows, lost, setting>>

\* _run_stage_attempt: the provider answers with a result, with one that is cut off or does not
\* validate, or with nothing.
Qualities == {"valid", "invalid", "empty"}
Receive(w, quality) ==
    /\ worker[w].pc = "wait"
    /\ grant' = [grant EXCEPT ![worker[w].job].inFlight = FALSE]
    /\ Goes(w, To(w, quality))
    /\ UNCHANGED <<survey, ai, token, job, rows, provider, setting>>

\* Mutant: an exception ends the call like an answer.
AnsweredAnyway(w) ==
    /\ grant' = [grant EXCEPT ![worker[w].job].inFlight = FALSE]
    /\ lost' = TRUE

\* The call raises: nobody knows whether it was served.
Unanswered(w) ==
    /\ grant' = [grant EXCEPT ![worker[w].job].status = "uncertain"]
    /\ lost' = TRUE

\* generate_stage tries once more, in the compact profile.
AgainCompact(w) == Goes(w, [To(w, "call") EXCEPT !.compact = TRUE])

\* _provider_error: of all exceptions, only a refusal for the rate is tried again.
Raise(w, limited) ==
    /\ worker[w].pc = "wait"
    /\ Unanswered(w)
    /\ IF limited /\ ~worker[w].compact THEN AgainCompact(w) ELSE StageFails(w)
    /\ UNCHANGED <<survey, ai, token, job, rows, sent, setting>>

\* generate_stage: a valid result is saved, an invalid one asked for once more, an empty one not.
Validate(w) ==
    /\ \/ /\ worker[w].pc = "valid"
          /\ Adds(worker[w].base, StageOf(w)) /\ StageDone(w)
       \/ /\ worker[w].pc = "invalid" /\ ~worker[w].compact
          /\ AgainCompact(w) /\ UNCHANGED rows
       \/ /\ worker[w].pc = "empty" \/ (worker[w].pc = "invalid" /\ worker[w].compact)
          /\ StageFails(w) /\ UNCHANGED rows
    /\ UNCHANGED <<survey, ai, token, queue, provider, setting>>

\* publish_analysis_stages
Publish(w) ==
    /\ worker[w].pc = "publish"
    /\ \/ /\ ~HoldsLive(w) \/ (VersionsCurrent(w) /\ base # worker[w].base)
          /\ Aborts(w, "fail") /\ UNCHANGED <<ai, job>>
       \/ /\ HoldsLive(w) /\ ~VersionsCurrent(w)
          /\ Superseded(w) /\ Aborts(w, "superseded") /\ UNCHANGED ai
       \/ /\ HoldsLive(w) /\ VersionsCurrent(w) /\ base = worker[w].base
          /\ ai' = base
          /\ job' = [job EXCEPT ![worker[w].job] = Released(@, "succeeded")]
          /\ Goes(w, To(w, "complete"))
    /\ UNCHANGED <<survey, token, grant, rows, provider, setting>>

\* execute_confirmed: the grant of a published job ...
Complete(w) ==
    /\ worker[w].pc = "complete"
    /\ grant' = [grant EXCEPT ![worker[w].job].status = "completed"]
    /\ Goes(w, Idle)
    /\ UNCHANGED <<survey, ai, token, job, rows, provider, setting>>

\* ... and of one that raised, unless a call of it is in flight.
FailGrant(w) ==
    /\ worker[w].pc = "aborting"
    /\ grant' = [grant EXCEPT ![worker[w].job] =
        IF @.inFlight THEN @ ELSE [@ EXCEPT !.status = "failed"]]
    /\ Goes(w, To(w, "finish"))
    /\ UNCHANGED <<survey, ai, token, job, rows, provider, setting>>

\* _run_ai: finish_cancelled_job or fail_job, for the job the worker still holds.
Failed(row, outcome) ==
    IF row.cancel THEN Released(row, "cancelled")
    ELSE IF outcome = "retry" /\ row.attempts < MaxAttempts THEN Released(row, "pending")
    ELSE Released(row, "failed")

FinishJob(w) ==
    /\ worker[w].pc = "finish"
    /\ job' = IF Holds(w) /\ worker[w].outcome # "superseded"
              THEN [job EXCEPT ![worker[w].job] = Failed(@, worker[w].outcome)] ELSE job
    /\ Goes(w, Idle)
    /\ UNCHANGED <<survey, ai, token, grant, rows, provider, setting>>
-----------------------------------------------------------------------------
(* Time and crashes *)

\* The process is killed; a call it waits for goes on.
Kill(w) ==
    /\ worker[w].pc # "idle" /\ Disturb("killed")
    /\ lost' = (lost \/ worker[w].pc = "wait")
    /\ Goes(w, Idle)
    /\ UNCHANGED <<survey, ai, token, queue, rows, sent, scenario>>

Expire(j) == job' = [job EXCEPT ![j].live = FALSE]
Held(j) == \E w \in Workers : worker[w].pc # "idle" /\ worker[w].job = j /\ Holds(w)

\* A lease nobody renews expires; that of a worker that is slow or sleeps may.
ExpireAbandoned(j) ==
    /\ job[j].status = "running" /\ job[j].live /\ ~Held(j)
    /\ Expire(j)
    /\ UNCHANGED <<survey, ai, token, grant, rows, worker, provider, setting>>

ExpireHeld(j) ==
    /\ job[j].status = "running" /\ job[j].live /\ Held(j) /\ Disturb("lease")
    /\ Expire(j)
    /\ UNCHANGED <<survey, ai, token, grant, rows, worker, provider, scenario>>

ExpireGrant(j) ==
    /\ Active(grant[j]) /\ ~grant[j].expired /\ Disturb("expiry")
    /\ grant' = [grant EXCEPT ![j].expired = TRUE]
    /\ UNCHANGED <<survey, ai, token, job, rows, worker, provider, scenario>>
-----------------------------------------------------------------------------
Init ==
    /\ input = 1 /\ base = 1 /\ ai = 0
    /\ key = [secrets |-> <<FirstKey>>, generation |-> 1, open |-> 0]
    /\ owner = TRUE /\ improved = 0
    /\ token = [t \in Tokens |-> None]
    /\ job = [j \in Jobs |-> NoJob]
    /\ grant = [j \in Jobs |-> NoGrant]
    /\ rows = {}
    /\ worker = [w \in Workers |-> Idle]
    /\ sent = [j \in Jobs |-> 0]
    /\ lost = FALSE
    /\ scenario \in Scenarios
    /\ events = 0

Owner ==
    \/ \E t \in Tokens : Preview(t) \/ Confirm(t)
    \/ \E j \in Jobs : CancelJob(j)
    \/ \E secret \in ApiKeys \union {None} : WriteKey(secret)
    \/ WriteGeneration
    \/ RevokeOwner

Survey == ChangeAnswers \/ Analyse \/ Improve

Runs(w) ==
    \/ Begin(w) \/ Checkpoint(w) \/ LoadBase(w) \/ Prepare(w)
    \/ Heartbeat(w) \/ Reserve(w) \/ Send(w)
    \/ \E quality \in Qualities : Receive(w, quality)
    \/ \E limited \in BOOLEAN : Raise(w, limited)
    \/ Validate(w) \/ Publish(w) \/ Complete(w) \/ FailGrant(w) \/ FinishJob(w)

Polls(w) == Claim(w) \/ Sweep(w)

Next ==
    \/ Owner \/ Survey
    \/ \E w \in Workers : Polls(w) \/ Runs(w) \/ Kill(w)
    \/ \E j \in Jobs : ExpireAbandoned(j) \/ ExpireHeld(j) \/ ExpireGrant(j)

Spec == Init /\ [][Next]_vars

\* The worker loop polls and works on, a provider call ends (it has a timeout), and time passes.
Fairness ==
    /\ \A w \in Workers : WF_vars(Polls(w)) /\ WF_vars(Runs(w))
    /\ \A j \in Jobs : WF_vars(ExpireAbandoned(j))

FairSpec == Spec /\ Fairness
-----------------------------------------------------------------------------
(* Properties *)

Identities == [base : Inputs, key : Nat \ {0}]
JobRows == [status : {None, "pending", "running", "succeeded", "failed", "cancelled"},
            input : 0 .. MaxInput, attempts : 0 .. MaxAttempts, cancel : BOOLEAN,
            live : BOOLEAN, holder : (Workers \X Nat) \union {None}]
Grants == [status : {None, "queued", "running", "completed", "failed", "uncertain", "stale",
                     "cancelled"},
           token : Tokens \union {None}, identity : Identities \union {None},
           calls : 0 .. MaxCalls, inFlight : BOOLEAN, expired : BOOLEAN]
IsStageRow(r) ==
    r.base \in 0 .. MaxInput /\ r.stage \in Range(Stages) /\ r.revision \in Nat \ {0}
Pcs == {"idle", "claimed", "checkpoint", "load", "prepare", "call", "reserve", "send", "wait",
        "valid", "invalid", "empty", "publish", "complete", "aborting", "finish"}

WorkerStates == [pc : Pcs, next : {None, "load", "prepare", "publish"}, job : 0 .. MaxJobs,
                 attempt : Nat, base : 0 .. MaxInput, stage : 0 .. Len(Stages),
                 secret : ApiKeys \union {None}, compact : BOOLEAN,
                 outcome : {None, "fail", "retry", "cancelled", "superseded"}]

\* Types; MaxCalls bounds the calls of a grant.
TypeOK ==
    /\ input \in Inputs /\ base \in Inputs /\ ai \in 0 .. MaxInput
    /\ key \in [secrets : Seq(ApiKeys \union {None}) \ {<<>>}, generation : Nat \ {0}, open : Nat]
    /\ owner \in BOOLEAN /\ improved \in Nat
    /\ token \in [Tokens -> Identities \union {None}]
    /\ job \in [Jobs -> JobRows] /\ grant \in [Jobs -> Grants]
    /\ worker \in [Workers -> WorkerStates]
    /\ \A r \in rows : IsStageRow(r)
    /\ sent \in [Jobs -> Nat] /\ lost \in BOOLEAN
    /\ scenario \in Scenarios /\ events \in 0 .. MaxEvents

\* Every call the provider receives was counted first, within the budget the owner confirmed, and
\* the one under way is marked on its grant, however often the worker is killed and its job is
\* claimed again: a restart finds the mark (node/gemini.py, "The reservation commits BEFORE").
CallsAreReserved ==
    /\ \A j \in Jobs : sent[j] <= grant[j].calls /\ grant[j].calls <= MaxCalls
    /\ \A w \in Workers : worker[w].pc = "wait" => Grant(w).inFlight

\* The survey never has two calls under way, though two workers may run its jobs, the old one
\* under a consent that a new one has replaced.
OneCallAtATime ==
    \A v, w \in Workers : v # w => ~(worker[v].pc = "wait" /\ worker[w].pc = "wait")

\* A confirmation pays for one job, also when that job has failed and the form is sent again, and
\* no two consents of the survey are in force.
ConsentIsSpentOnce ==
    \A i, j \in Jobs : i # j /\ grant[i] # NoGrant /\ grant[j] # NoGrant =>
        /\ grant[i].token # grant[j].token
        /\ ~(Active(grant[i]) /\ Active(grant[j]))

\* The key of the call that w makes was stored under the generation its owner has confirmed.
KeyOfGeneration(w) == worker[w].secret # None /\ worker[w].secret \in Range(key.secrets)

\* What a call sends is the snapshot the owner has confirmed, still the current one, though the
\* worker read it several transactions ago; it is sent with a key that the vault had under the
\* confirmed generation. As long as no request is between its two writes there is one such key.
PaidForWhatWasConfirmed ==
    [][\A w \in Workers : worker[w].pc = "reserve" /\ worker'[w].pc = "send" =>
        /\ Grant(w).identity = [base |-> worker[w].base, key |-> key.generation]
        /\ worker[w].base = input
        /\ owner
        /\ KeyOfGeneration(w)]_vars

\* A confirmation is bound to the version of the credential (README.md:160): a call uses the key
\* for which the confirmed generation was written. It does not: set_key writes the key first
\* (node/gemini.py:46), and until it has written the generation (:52) a client that reads the new
\* key passes the reservation under the old one.
CallUsesConfirmedKey ==
    [][\A w \in Workers : worker[w].pc = "reserve" /\ worker'[w].pc = "send" =>
        worker[w].secret = key.secrets[1]]_vars

\* After a call whose result nobody knows, the survey is never sent to the provider again: neither
\* by the compact attempt, nor by a worker that reclaims the job, nor under a new consent
\* (README.md:160).
NoCallAfterUncertainty == [][lost => sent' = sent]_vars

\* A consent in force is settled: its job ends, or a call of it stays uncertain.
Settled(j) ==
    \/ ~Active(grant[j]) \/ grant[j].inFlight
    \/ job[j].cancel \/ job[j].status \in {"succeeded", "failed", "cancelled"}
GrantSettles == \A j \in Jobs : Active(grant[j]) ~> Settled(j)

\* Consent that is over does not stand in the way of a new one (node/gemini.py:110): unless a call
\* is uncertain, the job a new confirmation schedules is free for its grant. It is not: a job that
\* lost its lease waits for a retry with a failed grant, and is the one that is scheduled.
NewConsentIsAccepted ==
    \A t \in Tokens :
        Confirmable(t) /\ ~Confirmed(t) /\ ~Uncertain /\ ~StillPending(t) =>
            \A outcome \in Scheduled(WithoutObsolete) : grant[outcome[2]] = NoGrant
=============================================================================
