---------------------------- MODULE AnalysisJobs ----------------------------
(***************************************************************************)
(* The background-analysis queue of one survey: feedback/analysis_jobs.py  *)
(* (scheduling, claims, leases, cancellation, retry, publication), the     *)
(* deterministic worker of feedback/analysis_worker.py, the AI worker of   *)
(* feedback/ai_worker.py and the polling loop of                           *)
(* feedback/management/commands/run_analysis_worker.py.                    *)
(*                                                                         *)
(* A database transaction is one atomic step.  A read of the data is one   *)
(* step with the heartbeat that ends it, other work with the heartbeat     *)
(* that starts it.  Analysis results are abstracted to the survey versions *)
(* they were computed from.                                                *)
(***************************************************************************)
EXTENDS Naturals, FiniteSets

CONSTANTS
    Workers,      \* analysis worker processes
    JobIds,       \* primary keys of feedback_analysis_jobs (bounds the jobs ever created)
    Sources,      \* data-source bindings (source_kind, source_ref, source_version)
    RefOf,        \* a binding without its source_version: what the unique index looks at
    RootOf,       \* the artifact directory (--output) each worker writes to
    MaxAttempts,  \* AnalysisJob.max_attempts
    AutoAI,       \* settings.ANALYSIS_AUTO_AI_ENABLED
    MaxInput,     \* bound on input_version
    MaxConfig,    \* bound on config_version
    MaxCode,      \* bound on software upgrades
    Disturbances, \* the kinds of disturbance of an instance: a subset of DisturbanceKinds
    MaxEvents,    \* bound on the number of disturbances
    None

DisturbanceKinds == {"request", "cancel", "error", "kill", "upgrade"}

ASSUME ConstantsAssumption ==
    /\ MaxAttempts \in Nat \ {0}
    /\ MaxInput \in Nat /\ MaxConfig \in Nat /\ MaxCode \in Nat /\ MaxEvents \in Nat
    /\ AutoAI \in BOOLEAN /\ Disturbances \subseteq DisturbanceKinds
    /\ DOMAIN RefOf = Sources /\ DOMAIN RootOf = Workers
    /\ None \notin JobIds

VARIABLES
    survey,     \* SurveyAnalysisState versions, the binding and Survey.analysis_enabled
    jobs,       \* the rows of feedback_analysis_jobs
    worker,     \* what each worker process has in memory
    artifacts,  \* the finished artifact files
    locks,      \* the artifact lock files
    snapshots,  \* the rows of SurveyAIReportSnapshot
    base,       \* publication_manifest["statistics"/"text"] and published_snapshot
    ai,         \* publication_manifest["ai"]
    code,       \* current_implementation_version of the software each worker runs
    events      \* the disturbances so far

vars == <<survey, jobs, worker, artifacts, locks, snapshots, base, ai, code, events>>
files == <<artifacts, locks, snapshots>>
published == <<base, ai>>

Executors == {"deterministic", "ai"}
Terminal == {"succeeded", "failed", "cancelled"}
Version == [input: Nat, config: Nat]
SurveyState == [input: Nat, config: Nat, src: Sources, enabled: BOOLEAN]
Target == [src: Sources, input: Nat, config: Nat, code: Nat]
Job == [status: {"unused", "pending", "running"} \union Terminal,
        executor: Executors, src: Sources, input: Nat, config: Nat,
        token: Nat,      \* 0 is NULL; a claim's token is the attempt it started
        lease: {"none", "live", "expired"},
        attempts: Nat, cancel: BOOLEAN, due: BOOLEAN]
Manifest == [snap: Target, src: Sources, input: Nat, config: Nat]

BuildSteps == {"statistics", "text"}
Heartbeats == {"prepare", "built", "saved"} \union BuildSteps
Checkpoints == {"start_ai", "generate", "generated"}
Step == {"idle", "down", "publish", "publish_ai"} \union Heartbeats \union Checkpoints

Idle == [pc |-> "idle", job |-> None, token |-> 0, target |-> None, stats |-> None, text |-> None]
Down == [Idle EXCEPT !.pc = "down"]

Status(s) == {i \in JobIds : jobs[i].status = s}
CurrentVersion == [input |-> survey.input, config |-> survey.config]
TargetOf(w, j) == [src |-> j.src, input |-> j.input, config |-> j.config, code |-> code[w]]

-----------------------------------------------------------------------------
(* The queue: coalescing, supersession and the one-pending-row index *)

Waiting(js, src, executor) ==
    {i \in JobIds : js[i].status = "pending" /\ js[i].executor = executor /\ js[i].src = src}

HasRoom(js, src, executor) ==
    Waiting(js, src, executor) # {} \/ \E i \in JobIds : js[i].status = "unused"

NewJob(sv, src, executor) ==
    [status |-> "pending", executor |-> executor, src |-> src, input |-> sv.input,
     config |-> sv.config, token |-> 0, lease |-> "none", attempts |-> 0,
     cancel |-> FALSE, due |-> TRUE]

\* Mutant: coalescing wakes the waiting row without raising its versions.
CoalescedStale(j, sv) == [j EXCEPT !.due = TRUE]
Coalesced(j, sv) == [j EXCEPT !.input = sv.input, !.config = sv.config, !.due = TRUE]

EnsurePending(js, sv, src, executor) ==
    LET waiting == Waiting(js, src, executor) IN
    IF waiting # {}
    THEN [i \in JobIds |-> IF i \in waiting THEN Coalesced(js[i], sv) ELSE js[i]]
    ELSE [js EXCEPT ![CHOOSE i \in JobIds : js[i].status = "unused"] = NewJob(sv, src, executor)]

\* A pending row with the same survey, reference and executor but another
\* source_version: creating a second one violates fb_job_one_pending_source.
PendingClash(src, executor) ==
    \E i \in Status("pending") :
        /\ jobs[i].executor = executor
        /\ jobs[i].src # src
        /\ RefOf[jobs[i].src] = RefOf[src]

Released(j, status) == [j EXCEPT !.status = status, !.token = 0, !.lease = "none"]

CancelPending(js, keep) ==
    [i \in JobIds |-> IF js[i].status = "pending" /\ js[i].src \notin keep
                      THEN [js[i] EXCEPT !.status = "cancelled"] ELSE js[i]]

\* schedule_survey_analysis in the transaction that changed the survey to sv.
Schedule(js, sv, executor) ==
    LET kept == CancelPending(js, IF sv.enabled THEN {sv.src} ELSE {}) IN
    /\ survey' = sv
    /\ sv.enabled => HasRoom(kept, sv.src, executor)
    /\ jobs' = IF sv.enabled THEN EnsurePending(kept, sv, sv.src, executor) ELSE kept

-----------------------------------------------------------------------------
(* Survey mutations and requests of the users *)

EnvUnchanged == UNCHANGED <<worker, files, published, code>>

Disturbance(kind) ==
    kind \in Disturbances /\ events < MaxEvents /\ events' = events + 1

InputChanges ==
    /\ survey.input < MaxInput
    /\ Schedule(jobs, [survey EXCEPT !.input = @ + 1], "deterministic")
    /\ EnvUnchanged /\ UNCHANGED events

ConfigChanges ==
    /\ survey.config < MaxConfig
    /\ Schedule(jobs, [survey EXCEPT !.config = @ + 1], "deterministic")
    /\ EnvUnchanged /\ UNCHANGED events

AnalysisToggled ==
    /\ survey.config < MaxConfig
    /\ Schedule(jobs, [survey EXCEPT !.config = @ + 1, !.enabled = ~@], "deterministic")
    /\ EnvUnchanged /\ UNCHANGED events

SourceRegistered ==
    /\ survey.input < MaxInput /\ survey.config < MaxConfig
    /\ \E src \in Sources \ {survey.src} :
          Schedule(jobs, [survey EXCEPT !.input = @ + 1, !.config = @ + 1, !.src = src], "deterministic")
    /\ EnvUnchanged /\ UNCHANGED events

\* Mutant: the publication check forgets the input version.
ConfigIsCurrent(m) == m.config = survey.config
VersionsAreCurrent(m) == m.input = survey.input /\ m.config = survey.config

InFlight(executor) ==
    {i \in Status("pending") \union Status("running") : jobs[i].executor = executor}

\* node/views.py, action "analyse".
AnalysisRequested ==
    /\ Disturbance("request")
    /\ survey.enabled
    /\ ~\E i \in InFlight("deterministic") : VersionsAreCurrent(jobs[i]) /\ jobs[i].src = survey.src
    /\ Schedule(jobs, survey, "deterministic")
    /\ EnvUnchanged

\* request_job_cancel on one row; the other rows are left alone.
CancelAsked(j) ==
    CASE j.status = "pending" -> [j EXCEPT !.status = "cancelled", !.cancel = TRUE]
      [] j.status = "running" -> [j EXCEPT !.cancel = TRUE]
      [] OTHER -> j

CancelRequested(i) ==
    /\ Disturbance("cancel")
    /\ jobs[i] # CancelAsked(jobs[i])
    /\ jobs' = [jobs EXCEPT ![i] = CancelAsked(@)]
    /\ UNCHANGED survey
    /\ EnvUnchanged

\* node/gemini.py confirm: paid stages only over a current base of the installed
\* code; the paid job of an obsolete confirmation, if there is one, is cancelled first.
AIConfirmed ==
    /\ Disturbance("request")
    /\ survey.enabled
    /\ base # None /\ VersionsAreCurrent(base) /\ base.src = survey.src
    /\ \E w \in Workers : base.snap.code = code[w]
    /\ \E obsolete \in InFlight("ai") \union {None} :
          Schedule([i \in JobIds |-> IF i = obsolete THEN CancelAsked(jobs[i]) ELSE jobs[i]],
                   survey, "ai")
    /\ EnvUnchanged

-----------------------------------------------------------------------------
(* Time *)

LeaseExpires(i) ==
    /\ jobs[i].status = "running" /\ jobs[i].lease = "live"
    /\ jobs' = [jobs EXCEPT ![i].lease = "expired"]
    /\ UNCHANGED survey /\ EnvUnchanged /\ UNCHANGED events

BackoffElapses(i) ==
    /\ jobs[i].status = "pending" /\ ~jobs[i].due
    /\ jobs' = [jobs EXCEPT ![i].due = TRUE]
    /\ UNCHANGED survey /\ EnvUnchanged /\ UNCHANGED events

-----------------------------------------------------------------------------
(* Claiming *)

Exhausted(j) == j.status = "running" /\ j.lease = "expired" /\ j.attempts >= MaxAttempts

\* The sweep at the start of claim_next_job; lease_expires_at is left in place.
Swept == [i \in JobIds |->
             IF Exhausted(jobs[i]) THEN [jobs[i] EXCEPT !.status = "failed", !.token = 0] ELSE jobs[i]]

\* Mutant: expired leases are not reclaimed.
EligiblePending(j) == ~j.cancel /\ j.status = "pending" /\ j.due
Eligible(j) ==
    /\ ~j.cancel
    /\ \/ j.status = "pending" /\ j.due
       \/ j.status = "running" /\ j.lease = "expired" /\ j.attempts < MaxAttempts

Claimable(executor) == {i \in JobIds : Eligible(jobs[i]) /\ jobs[i].executor = executor}

Claimed(j) == [j EXCEPT !.status = "running", !.token = j.attempts + 1,
                        !.attempts = @ + 1, !.lease = "live"]

FirstStep(executor) == IF executor = "ai" THEN "start_ai" ELSE "prepare"

\* One poll: deterministic work first, AI work when there is none.
Claim(w, i) ==
    /\ worker[w].pc = "idle"
    /\ \/ i \in Claimable("deterministic")
       \/ i \in Claimable("ai") /\ Claimable("deterministic") = {}
    /\ jobs' = [Swept EXCEPT ![i] = Claimed(@)]
    /\ worker' = [worker EXCEPT ![w] =
          [Idle EXCEPT !.pc = FirstStep(jobs[i].executor), !.job = i, !.token = jobs'[i].token]]
    /\ UNCHANGED <<survey, files, published, code, events>>

PollFindsNothing(w) ==
    /\ worker[w].pc = "idle"
    /\ Claimable("deterministic") \union Claimable("ai") = {}
    /\ Swept # jobs
    /\ jobs' = Swept
    /\ UNCHANGED survey /\ EnvUnchanged /\ UNCHANGED events

-----------------------------------------------------------------------------
(* What a worker does with the job it holds *)

MyJob(w) == jobs[worker[w].job]

HoldsClaim(w) == MyJob(w).status = "running" /\ MyJob(w).token = worker[w].token

\* Mutant: the cancellation request is not looked at.
LeaseUnexpired(w) == MyJob(w).lease = "live"
LeaseLive(w) == ~MyJob(w).cancel /\ MyJob(w).lease = "live"

\* heartbeat_job accepts; the renewed lease is live again.
HeartbeatAccepted(w) == HoldsClaim(w) /\ LeaseLive(w)

At(w, pc) == worker[w].pc = pc
Goto(w, pc) == worker' = [worker EXCEPT ![w].pc = pc]

\* The finally of _write_artifact.
Unlock(w) ==
    locks' = IF worker[w].pc \in BuildSteps
             THEN locks \ {<<RootOf[w], worker[w].target>>} ELSE locks

Failed(j, retryable) ==
    LET status == IF j.cancel THEN "cancelled"
                  ELSE IF retryable /\ j.attempts < MaxAttempts THEN "pending" ELSE "failed"
    IN [Released(j, status) EXCEPT !.due = (status # "pending")]

\* Another pending row already fills the slot the failed job would return to.
SlotTaken(i) ==
    \E k \in Status("pending") \ {i} :
        jobs[k].executor = jobs[i].executor /\ RefOf[jobs[k].src] = RefOf[jobs[i].src]

\* fail_job, called from the except clauses of the worker loop.  The IntegrityError
\* of a taken slot leaves that clause and ends the process.
FailJob(w, retryable) ==
    LET i == worker[w].job
        failed == Failed(jobs[i], retryable)
        dies == HoldsClaim(w) /\ failed.status = "pending" /\ SlotTaken(i)
    IN /\ jobs' = IF HoldsClaim(w) /\ ~dies THEN [jobs EXCEPT ![i] = failed] ELSE jobs
       /\ worker' = [worker EXCEPT ![w] = IF dies THEN Down ELSE Idle]

\* _supersede_job_locked: re-queue the work at the current versions, cancel the claim.
Supersede(w) ==
    LET i == worker[w].job
        executor == jobs[i].executor
    IN IF PendingClash(survey.src, executor)
       THEN FailJob(w, FALSE)
       ELSE /\ HasRoom(jobs, survey.src, executor)
            /\ jobs' = [EnsurePending(jobs, survey, survey.src, executor)
                           EXCEPT ![i] = Released(@, "cancelled")]
            /\ worker' = [worker EXCEPT ![w] = Idle]

Succeeded(js, i) == [js EXCEPT ![i] = Released(@, "succeeded")]

\* Mutant: only the binding is compared.
SourceIsCurrent(j) == j.src = survey.src
ClaimIsCurrent(j) == VersionsAreCurrent(j) /\ j.src = survey.src

\* _assert_lease or _checkpoint refuses: cancelled, or lease_lost and a retry.
LosesLease(w) ==
    /\ worker[w].pc \in Heartbeats \union Checkpoints
    /\ ~HeartbeatAccepted(w)
    /\ IF HoldsClaim(w) /\ MyJob(w).cancel
       THEN /\ jobs' = [jobs EXCEPT ![worker[w].job] = Released(@, "cancelled")]
            /\ worker' = [worker EXCEPT ![w] = Idle]
       ELSE FailJob(w, TRUE)
    /\ Unlock(w)
    /\ UNCHANGED <<survey, artifacts, snapshots, published, code, events>>

\* Any other exception of the work itself (unreadable data set, StageError): no retry.
WorkRaises(w) ==
    /\ Disturbance("error")
    /\ worker[w].pc \in {"prepare", "generate"} \union BuildSteps
    /\ FailJob(w, FALSE)
    /\ Unlock(w)
    /\ UNCHANGED <<survey, artifacts, snapshots, published, code>>

-----------------------------------------------------------------------------
(* execute_deterministic_job *)

\* The artifact of an earlier attempt is found; the mutant drops its text section.
CachedWithoutText(m, target, a) ==
    [m EXCEPT !.pc = "built", !.target = target, !.stats = a.stats]
Cached(m, target, a) ==
    [m EXCEPT !.pc = "built", !.target = target, !.stats = a.stats, !.text = a.text]

\* _build_adapter, _target_identity and the head of _write_artifact.
Prepare(w) ==
    LET target == TargetOf(w, MyJob(w))
        file == <<RootOf[w], target>>
        cached == {a \in artifacts : a.file = file}
    IN /\ At(w, "prepare") /\ HeartbeatAccepted(w)
       /\ \/ /\ cached # {}
             /\ \E a \in cached : worker' = [worker EXCEPT ![w] = Cached(@, target, a)]
             /\ UNCHANGED <<jobs, locks>>
          \/ /\ cached = {} /\ file \in locks
             /\ FailJob(w, TRUE)
             /\ UNCHANGED locks
          \/ /\ cached = {} /\ file \notin locks
             /\ locks' = locks \union {file}
             /\ worker' = [worker EXCEPT ![w].pc = "statistics", ![w].target = target]
             /\ UNCHANGED jobs
       /\ UNCHANGED <<survey, artifacts, snapshots, published, code, events>>

ReadStatistics(w) ==
    /\ At(w, "statistics") /\ HeartbeatAccepted(w)
    /\ worker' = [worker EXCEPT ![w].pc = "text", ![w].stats = CurrentVersion]
    /\ UNCHANGED <<survey, jobs, files, published, code, events>>

ReadText(w) ==
    /\ At(w, "text") /\ HeartbeatAccepted(w)
    /\ worker' = [worker EXCEPT ![w].pc = "built", ![w].text = CurrentVersion]
    /\ artifacts' = artifacts \union
          {[file |-> <<RootOf[w], worker[w].target>>,
            stats |-> worker[w].stats, text |-> CurrentVersion]}
    /\ Unlock(w)
    /\ UNCHANGED <<survey, jobs, snapshots, published, code, events>>

MySnapshot(w) ==
    [target |-> worker[w].target, stats |-> worker[w].stats, text |-> worker[w].text]

\* Same fingerprint, other content: snapshot_fingerprint_collision.
Collides(w) == \E s \in snapshots : s.target = worker[w].target /\ s # MySnapshot(w)

PersistSnapshot(w) ==
    /\ At(w, "built") /\ HeartbeatAccepted(w)
    /\ IF Collides(w)
       THEN FailJob(w, FALSE) /\ UNCHANGED snapshots
       ELSE /\ snapshots' = snapshots \union {MySnapshot(w)}
            /\ Goto(w, "saved")
            /\ UNCHANGED jobs
    /\ UNCHANGED <<survey, artifacts, locks, published, code, events>>

ReadyToPublish(w) ==
    /\ At(w, "saved") /\ HeartbeatAccepted(w)
    /\ Goto(w, "publish")
    /\ UNCHANGED <<survey, jobs, files, published, code, events>>

\* _lock_current_claim raises AnalysisJobError: the generic except clause fails the job.
ClaimRefused(w) == ~(HoldsClaim(w) /\ LeaseLive(w))

ManifestOf(w) ==
    [snap |-> worker[w].target, src |-> MyJob(w).src,
     input |-> MyJob(w).input, config |-> MyJob(w).config]

\* The queued AI row would break the unique index: the whole publication rolls back.
AIQueueClash(w) == AutoAI /\ PendingClash(MyJob(w).src, "ai")

PublishBase(w) ==
    /\ base' = ManifestOf(w)
    /\ AutoAI => HasRoom(jobs, MyJob(w).src, "ai")
    /\ jobs' = Succeeded(IF AutoAI THEN EnsurePending(jobs, survey, MyJob(w).src, "ai") ELSE jobs,
                         worker[w].job)
    /\ worker' = [worker EXCEPT ![w] = Idle]

\* publish_analysis_snapshot.
PublishSnapshot(w) ==
    /\ At(w, "publish")
    /\ \/ /\ ClaimRefused(w) \/ (ClaimIsCurrent(MyJob(w)) /\ AIQueueClash(w))
          /\ FailJob(w, FALSE)
          /\ UNCHANGED base
       \/ /\ ~ClaimRefused(w) /\ ~ClaimIsCurrent(MyJob(w))
          /\ Supersede(w)
          /\ UNCHANGED base
       \/ /\ ~ClaimRefused(w) /\ ClaimIsCurrent(MyJob(w)) /\ ~AIQueueClash(w)
          /\ PublishBase(w)
    /\ UNCHANGED <<survey, files, ai, code, events>>

-----------------------------------------------------------------------------
(* execute_ai_job *)

\* check_claim_current finds the claim stale: superseded, nothing more to report.
AISuperseded(w) ==
    /\ worker[w].pc \in Checkpoints
    /\ HeartbeatAccepted(w) /\ ~ClaimIsCurrent(MyJob(w))
    /\ Supersede(w)
    /\ UNCHANGED <<survey, files, published, code, events>>

CheckpointPassed(w) == HeartbeatAccepted(w) /\ ClaimIsCurrent(MyJob(w))

\* The claim was lost between the heartbeat and check_claim_current: no retry.
CheckRefused(w) ==
    /\ worker[w].pc \in Checkpoints /\ ClaimRefused(w)
    /\ FailJob(w, FALSE)
    /\ UNCHANGED <<survey, files, published, code, events>>

StartAI(w) ==
    /\ At(w, "start_ai") /\ CheckpointPassed(w)
    /\ \/ /\ base = None
          /\ FailJob(w, FALSE)
       \/ /\ base # None
          /\ base.input # MyJob(w).input \/ base.config # MyJob(w).config
          /\ FailJob(w, TRUE)
       \/ /\ base # None
          /\ base.input = MyJob(w).input /\ base.config = MyJob(w).config
          /\ worker' = [worker EXCEPT ![w].pc = "generate", ![w].target = base.snap]
          /\ UNCHANGED jobs
    /\ UNCHANGED <<survey, files, published, code, events>>

\* The three provider calls, each after a checkpoint of its own, as one step.
GenerateStages(w) ==
    /\ At(w, "generate") /\ CheckpointPassed(w)
    /\ Goto(w, "generated")
    /\ UNCHANGED <<survey, jobs, files, published, code, events>>

ReadyToPublishAI(w) ==
    /\ At(w, "generated") /\ CheckpointPassed(w)
    /\ Goto(w, "publish_ai")
    /\ UNCHANGED <<survey, jobs, files, published, code, events>>

\* publish_analysis_stages requires the stage's snapshot to be the published one,
\* and _published_base_is_current.
BaseHasVersions(w) ==  \* mutant: the published snapshot is not compared
    /\ base # None
    /\ base.input = MyJob(w).input /\ base.config = MyJob(w).config
BaseIsCurrent(w) ==
    /\ base # None
    /\ base.snap = worker[w].target
    /\ base.input = MyJob(w).input /\ base.config = MyJob(w).config
    /\ base.src = MyJob(w).src

PublishStages(w) ==
    /\ At(w, "publish_ai")
    /\ \/ /\ ClaimRefused(w) \/ (ClaimIsCurrent(MyJob(w)) /\ ~BaseIsCurrent(w))
          /\ FailJob(w, FALSE)
          /\ UNCHANGED ai
       \/ /\ ~ClaimRefused(w) /\ ~ClaimIsCurrent(MyJob(w))
          /\ Supersede(w)
          /\ UNCHANGED ai
       \/ /\ ~ClaimRefused(w) /\ ClaimIsCurrent(MyJob(w)) /\ BaseIsCurrent(w)
          /\ ai' = ManifestOf(w)
          /\ jobs' = Succeeded(jobs, worker[w].job)
          /\ worker' = [worker EXCEPT ![w] = Idle]
    /\ UNCHANGED <<survey, files, base, code, events>>

-----------------------------------------------------------------------------
(* Processes *)

\* The process is killed; a lock file it holds stays on disk.
Killed(w) ==
    /\ Disturbance("kill")
    /\ worker[w].pc \notin {"idle", "down"}
    /\ worker' = [worker EXCEPT ![w] = Down]
    /\ UNCHANGED <<survey, jobs, files, published, code>>

Restarted(w) ==
    /\ At(w, "down")
    /\ worker' = [worker EXCEPT ![w] = Idle]
    /\ UNCHANGED <<survey, jobs, files, published, code, events>>

\* New software is installed on a worker's machine and the process started again.
Upgraded(w) ==
    /\ Disturbance("upgrade")
    /\ code[w] < MaxCode
    /\ code' = [code EXCEPT ![w] = @ + 1]
    /\ worker' = [worker EXCEPT ![w] = Idle]
    /\ UNCHANGED <<survey, jobs, files, published>>

\* schedule_outdated_reruns, when a machine starts the node launcher.
OutdatedRerun ==
    /\ base # None /\ survey.enabled
    /\ \E w \in Workers : base.snap.code # code[w]
    /\ InFlight("deterministic") = {}
    /\ Schedule(jobs, survey, "deterministic")
    /\ EnvUnchanged /\ UNCHANGED events

-----------------------------------------------------------------------------

Init ==
    /\ \E src \in Sources : survey = [input |-> 0, config |-> 0, src |-> src, enabled |-> TRUE]
    /\ jobs = [i \in JobIds |-> [NewJob(survey, survey.src, "deterministic") EXCEPT !.status = "unused"]]
    /\ worker = [w \in Workers |-> Idle]
    /\ artifacts = {} /\ locks = {} /\ snapshots = {}
    /\ base = None /\ ai = None
    /\ code = [w \in Workers |-> 0] /\ events = 0

UserNext ==
    \/ InputChanges \/ ConfigChanges \/ AnalysisToggled \/ SourceRegistered
    \/ AnalysisRequested \/ AIConfirmed \/ OutdatedRerun
    \/ \E i \in JobIds : CancelRequested(i)

TimeNext == \E i \in JobIds : LeaseExpires(i) \/ BackoffElapses(i)

Poll(w) == PollFindsNothing(w) \/ \E i \in JobIds : Claim(w, i)

Work(w) ==
    \/ LosesLease(w)
    \/ Prepare(w) \/ ReadStatistics(w) \/ ReadText(w)
    \/ PersistSnapshot(w) \/ ReadyToPublish(w) \/ PublishSnapshot(w)
    \/ AISuperseded(w) \/ CheckRefused(w) \/ StartAI(w) \/ GenerateStages(w)
    \/ ReadyToPublishAI(w) \/ PublishStages(w)

ProcessNext ==
    \E w \in Workers : Killed(w) \/ Restarted(w) \/ Upgraded(w)

Next ==
    \/ UserNext \/ TimeNext \/ ProcessNext
    \/ \E w \in Workers : Poll(w) \/ Work(w) \/ WorkRaises(w)

Spec == Init /\ [][Next]_vars

\* Processes keep running their loop and are restarted when they die (the node's
\* WorkerSupervisor, below its crash limit); clocks advance past every lease and back-off.
Fairness ==
    /\ \A w \in Workers : WF_vars(Work(w)) /\ WF_vars(Poll(w)) /\ WF_vars(Restarted(w))
    /\ \A i \in JobIds : WF_vars(LeaseExpires(i)) /\ WF_vars(BackoffElapses(i))

FairSpec == Spec /\ Fairness
-----------------------------------------------------------------------------
(* Properties *)

Maybe(S) == S \union {None}

Worker == [pc: Step, job: Maybe(JobIds), token: Nat, target: Maybe(Target),
           stats: Maybe(Version), text: Maybe(Version)]

Built == {"built", "saved", "publish"}
Roots == {RootOf[w] : w \in Workers}

\* What a step reads from the memory of its process, an earlier step has put there.
MemoryOK(m) ==
    /\ m.pc \notin {"idle", "down"} => m.job \in JobIds
    /\ m.pc \in {"statistics", "text"} \union Built \union {"generate", "generated", "publish_ai"}
          => m.target \in Target
    /\ m.pc \in {"text"} \union Built => m.stats \in Version
    /\ m.pc \in Built => m.text \in Version

\* The shape of the database rows, the files and the processes' memory: no step of
\* analysis_worker.py or ai_worker.py works with a result that it does not have.
TypeOK ==
    /\ survey \in SurveyState
    /\ jobs \in [JobIds -> Job]
    /\ worker \in [Workers -> Worker]
    /\ \A w \in Workers : MemoryOK(worker[w])
    /\ artifacts \subseteq [file: Roots \X Target, stats: Version, text: Version]
    /\ locks \subseteq Roots \X Target
    /\ snapshots \subseteq [target: Target, stats: Version, text: Version]
    /\ base \in Maybe(Manifest) /\ ai \in Maybe(Manifest)
    /\ code \in [Workers -> Nat] /\ events \in Nat

ManifestVersion(m) == [input |-> m.input, config |-> m.config]

\* The published statistics and the published text were both computed from exactly
\* the data the manifest names, although each was read at a moment of its own, maybe
\* by a worker that died, from a file that a later worker found (analysis_worker.py
\* build_result, _write_artifact; analysis_jobs.py publish_analysis_snapshot).
PublishedDataMatchesManifest ==
    base # None =>
        /\ base.snap.src = base.src /\ ManifestVersion(base.snap) = ManifestVersion(base)
        /\ \E s \in snapshots :
              s = [target |-> base.snap, stats |-> ManifestVersion(base), text |-> ManifestVersion(base)]

\* Two processes never both own the lease of one job, whoever expired, was killed,
\* reclaimed or retried (claim_next_job, heartbeat_job, fail_job).
OneOwnerPerJob ==
    \A v, w \in Workers :
        v # w /\ worker[v].job # None /\ worker[v].job = worker[w].job
            => ~(HoldsClaim(v) /\ HoldsClaim(w))

\* Retry is finite: a row that waits always has an attempt left and no attempt
\* exceeds the limit, through failures, reclaims, coalescing and re-queueing.
RetryIsFinite ==
    \A i \in JobIds :
        /\ jobs[i].attempts <= MaxAttempts
        /\ jobs[i].status = "pending" => jobs[i].attempts < MaxAttempts

\* A change is never lost: while analysis is enabled, the current versions have
\* statistics work that waits, runs, or ended for a reason shown to the user;
\* superseded, source_superseded and analysis_disabled are no such reasons.
NoLostUpdate ==
    survey.enabled /\ survey.input + survey.config > 0 =>
        \E i \in JobIds :
            /\ jobs[i].executor = "deterministic" /\ ClaimIsCurrent(jobs[i])
            /\ \/ jobs[i].status \in {"pending", "running", "succeeded", "failed"}
               \/ jobs[i].status = "cancelled" /\ jobs[i].cancel

\* The AI text is only ever published beside the very statistics it was generated
\* from: no rerun, upgrade or newer version came between the three provider calls
\* and the publication (execute_ai_job, publish_analysis_stages).
AIPublishedWithItsBase ==
    [][ai' # ai => /\ base' = base /\ ai'.snap = base.snap /\ ai'.src = base.src
                   /\ ManifestVersion(ai') = ManifestVersion(base)]_published

\* Work that was asked to stop is never published, in whatever step the request
\* found it (request_job_cancel against heartbeat_job and _lock_current_claim).
CancelledWorkIsNotPublished ==
    \A i \in JobIds : jobs[i].cancel => jobs[i].status \in {"running", "cancelled", "failed"}

\* The published versions never go back, even when an old worker wakes up late.
PublishedNeverRegresses ==
    [][base # None => base'.input >= base.input /\ base'.config >= base.config]_base
\* Every change is eventually analysed: once changes stop, the current versions
\* end published, failed or cancelled by request - despite killed workers, expired
\* leases, back-off, supersession and clashes (claim_next_job reclaims, the worker
\* loop keeps polling).
ChangesSettle ==
    <>[](survey.enabled /\ survey.input + survey.config > 0 =>
            \E i \in JobIds :
                /\ jobs[i].executor = "deterministic" /\ ClaimIsCurrent(jobs[i])
                /\ \/ jobs[i].status \in {"succeeded", "failed"}
                   \/ jobs[i].status = "cancelled" /\ jobs[i].cancel)

\* Every claim ends: once changes stop, nothing is left running, also when its
\* worker died or lost the lease (rows asked to stop: see CancellationEnds).
RunningEnds == <>[](\A i \in Status("running") : jobs[i].cancel)

-----------------------------------------------------------------------------
(* What the documentation says and the code does not do *)

\* README.md:62: the queue supports cancellation.  A running row whose cancellation
\* was requested stops running.
CancellationEnds == \A i \in JobIds : jobs[i].cancel ~> jobs[i].status # "running"

\* docs/architecture.md:214: analysis_enabled controls analysis.  Nothing is
\* published for a survey whose analysis is switched off.
DisabledSurveyIsNotAnalysed == [][base' # base => survey.enabled]_base

\* run_analysis_worker.py:28: the loop keeps claiming work.  Only a kill ends it.
LoopSurvivesFailures == events = 0 => \A w \in Workers : worker[w].pc # "down"
=============================================================================
