------------------------- MODULE AnalysisJobsProofs -------------------------
(***************************************************************************)
(* Theorems about AnalysisJobs for every set of workers, jobs, sources and *)
(* every bound.                                                            *)
(***************************************************************************)
EXTENDS AnalysisJobs, TLAPS

-----------------------------------------------------------------------------
(* What the queue operators return *)

\* The rows that coalescing or creation yields are rows of the table.
LEMMA NewJobType ==
    ASSUME NEW sv \in SurveyState, NEW src \in Sources, NEW executor \in Executors
    PROVE  NewJob(sv, src, executor) \in Job
BY DEF NewJob, Job, SurveyState, Executors

LEMMA CoalescedType ==
    ASSUME NEW sv \in SurveyState, NEW j \in Job
    PROVE  Coalesced(j, sv) \in Job
BY DEF Coalesced, Job, SurveyState

LEMMA ReleasedType ==
    ASSUME NEW j \in Job, NEW status \in {"pending"} \union Terminal
    PROVE  Released(j, status) \in Job
BY DEF Released, Job, Terminal

LEMMA FailedType ==
    ASSUME NEW j \in Job, NEW retryable \in BOOLEAN
    PROVE  Failed(j, retryable) \in Job
<1> DEFINE status == IF j.cancel THEN "cancelled"
                     ELSE IF retryable /\ j.attempts < MaxAttempts THEN "pending" ELSE "failed"
<1>1. status \in {"pending"} \union Terminal
  BY DEF Terminal
<1>2. Released(j, status) \in Job
  BY <1>1, ReleasedType
<1> QED BY <1>2 DEF Failed, Job

LEMMA ClaimedType ==
    ASSUME NEW j \in Job
    PROVE  Claimed(j) \in Job
<1>1. j.attempts + 1 \in Nat
  BY DEF Job
<1> QED BY <1>1 DEF Claimed, Job

LEMMA CancelAskedType ==
    ASSUME NEW j \in Job
    PROVE  CancelAsked(j) \in Job
BY DEF CancelAsked, Job, Terminal

\* Coalescing leaves every row alone but waiting ones, which get the current
\* versions, or else one unused row, which becomes a new job.
LEMMA EnsurePendingRows ==
    ASSUME NEW js \in [JobIds -> Job], NEW sv \in SurveyState, NEW src \in Sources,
           NEW executor \in Executors, HasRoom(js, src, executor)
    PROVE  /\ EnsurePending(js, sv, src, executor) \in [JobIds -> Job]
           /\ \A i \in JobIds :
                 \/ EnsurePending(js, sv, src, executor)[i] = js[i]
                 \/ /\ i \in Waiting(js, src, executor)
                    /\ EnsurePending(js, sv, src, executor)[i] = Coalesced(js[i], sv)
                 \/ /\ js[i].status = "unused"
                    /\ EnsurePending(js, sv, src, executor)[i] = NewJob(sv, src, executor)
           /\ \E i \in JobIds :
                 \/ /\ i \in Waiting(js, src, executor)
                    /\ EnsurePending(js, sv, src, executor)[i] = Coalesced(js[i], sv)
                 \/ EnsurePending(js, sv, src, executor)[i] = NewJob(sv, src, executor)
<1> DEFINE waiting == Waiting(js, src, executor)
<1> DEFINE result == EnsurePending(js, sv, src, executor)
<1>1. CASE waiting # {}
  <2>1. result = [i \in JobIds |-> IF i \in waiting THEN Coalesced(js[i], sv) ELSE js[i]]
    BY <1>1 DEF EnsurePending
  <2>2. \A i \in JobIds : Coalesced(js[i], sv) \in Job /\ js[i] \in Job
    BY CoalescedType
  <2>3. PICK i \in JobIds : i \in waiting
    BY <1>1 DEF Waiting
  <2> QED BY <2>1, <2>2, <2>3
<1>2. CASE waiting = {}
  <2> DEFINE n == CHOOSE i \in JobIds : js[i].status = "unused"
  <2>1. n \in JobIds /\ js[n].status = "unused"
    BY <1>2 DEF HasRoom
  <2>2. result = [js EXCEPT ![n] = NewJob(sv, src, executor)]
    BY <1>2 DEF EnsurePending
  <2>3. NewJob(sv, src, executor) \in Job
    BY NewJobType
  <2> HIDE DEF n, result
  <2> QED BY <2>1, <2>2, <2>3 DEF result
<1> QED BY <1>1, <1>2

LEMMA CancelPendingType ==
    ASSUME NEW js \in [JobIds -> Job], NEW keep
    PROVE  CancelPending(js, keep) \in [JobIds -> Job]
BY DEF CancelPending, Job, Terminal

-----------------------------------------------------------------------------
(* The life of one row, whatever the step and whoever takes it *)

RowStep(j, k, sv) ==
    \/ k = j
    \/ j.status = "unused" /\ \E src \in Sources, executor \in Executors : k = NewJob(sv, src, executor)
    \/ /\ j.status = "pending"
       /\ k \in {Coalesced(j, sv), [j EXCEPT !.status = "cancelled"], [j EXCEPT !.due = TRUE]}
    \/ k = CancelAsked(j)
    \/ Eligible(j) /\ k = Claimed(j)
    \/ /\ j.status = "running"
       /\ \/ k \in {[j EXCEPT !.lease = "expired"], [j EXCEPT !.status = "failed", !.token = 0],
                   Released(j, "cancelled")}
          \/ \E retryable \in BOOLEAN : k = Failed(j, retryable)
          \/ ~j.cancel /\ k = Released(j, "succeeded")

RowsStep == jobs' \in [JobIds -> Job] /\ \A i \in JobIds : RowStep(jobs[i], jobs'[i], survey')

LEMMA UnchangedRows ==
    ASSUME TypeOK, UNCHANGED jobs
    PROVE  RowsStep
BY DEF TypeOK, RowsStep, RowStep

\* A step that rewrites one row.
LEMMA OneRow ==
    ASSUME TypeOK, NEW i \in JobIds, NEW k \in Job, jobs' = [jobs EXCEPT ![i] = k],
           RowStep(jobs[i], k, survey')
    PROVE  RowsStep
BY DEF TypeOK, RowsStep, RowStep

\* A schedule, maybe after some rows were asked to stop.
LEMMA ScheduleRows ==
    ASSUME TypeOK, NEW js \in [JobIds -> Job], NEW sv \in SurveyState, NEW executor \in Executors,
           \A i \in JobIds : \/ js[i] = jobs[i]
                             \/ /\ js[i].status \notin {"pending", "unused"}
                                /\ js[i] = CancelAsked(jobs[i]),
           Schedule(js, sv, executor)
    PROVE  RowsStep
<1> DEFINE keep == IF sv.enabled THEN {sv.src} ELSE {}
<1> DEFINE kept == CancelPending(js, keep)
<1>1. jobs \in [JobIds -> Job] /\ sv.src \in Sources /\ survey' = sv
  BY DEF TypeOK, SurveyState, Schedule
<1>2. kept \in [JobIds -> Job]
  BY CancelPendingType
<1>3. \A i \in JobIds : \/ kept[i] = js[i]
                        \/ /\ js[i].status = "pending"
                           /\ kept[i] = [js[i] EXCEPT !.status = "cancelled"]
  BY DEF CancelPending
<1>4. \A i \in JobIds : RowStep(jobs[i], kept[i], survey')
  BY <1>3 DEF RowStep
<1>5. \A i \in JobIds : kept[i].status \in {"pending", "unused"} => kept[i] = jobs[i]
  <2>1. \A j \in Job : [j EXCEPT !.status = "cancelled"].status = "cancelled"
    BY DEF Job
  <2> HIDE DEF kept
  <2> QED BY <1>1, <1>3, <2>1
<1>6. CASE ~sv.enabled
  <2>1. jobs' = kept
    BY <1>6 DEF Schedule
  <2> QED BY <1>2, <1>4, <2>1 DEF RowsStep
<1>7. CASE sv.enabled
  <2>1. HasRoom(kept, sv.src, executor) /\ jobs' = EnsurePending(kept, sv, sv.src, executor)
    BY <1>7 DEF Schedule
  <2> HIDE DEF kept
  <2>2. jobs' \in [JobIds -> Job]
    BY <1>1, <1>2, <2>1, EnsurePendingRows
  <2>3. ASSUME NEW i \in JobIds
        PROVE  RowStep(jobs[i], jobs'[i], survey')
    <3>1. CASE jobs'[i] = kept[i]
      BY <1>4, <3>1
    <3>2. CASE i \in Waiting(kept, sv.src, executor) /\ jobs'[i] = Coalesced(kept[i], sv)
      BY <1>1, <1>5, <3>2 DEF RowStep, Waiting
    <3>3. CASE kept[i].status = "unused" /\ jobs'[i] = NewJob(sv, sv.src, executor)
      BY <1>1, <1>5, <3>3 DEF RowStep
    <3> QED BY <1>1, <1>2, <2>1, <3>1, <3>2, <3>3, EnsurePendingRows
  <2> QED BY <2>2, <2>3 DEF RowsStep
<1> QED BY <1>6, <1>7

LEMMA FailJobRows ==
    ASSUME TypeOK, NEW w \in Workers, NEW retryable \in BOOLEAN,
           worker[w].job \in JobIds, FailJob(w, retryable)
    PROVE  RowsStep
<1> DEFINE i == worker[w].job
<1> DEFINE failed == Failed(jobs[i], retryable)
<1>1. jobs[i] \in Job /\ failed \in Job
  BY FailedType DEF TypeOK
<1>2. CASE HoldsClaim(w) /\ jobs' = [jobs EXCEPT ![i] = failed]
  <2>1. RowStep(jobs[i], failed, survey')
    BY <1>2 DEF RowStep, HoldsClaim, MyJob
  <2> HIDE DEF failed
  <2> QED BY <1>1, <1>2, <2>1, OneRow
<1>3. CASE jobs' = jobs
  BY <1>3, UnchangedRows
<1> QED BY <1>2, <1>3 DEF FailJob

\* Coalescing or creating one row and releasing the claim of another.
LEMMA EnsureAndReleaseRows ==
    ASSUME TypeOK, NEW i \in JobIds, NEW sv \in SurveyState, NEW src \in Sources,
           NEW executor \in Executors, NEW status \in Terminal, HasRoom(jobs, src, executor),
           sv = survey', jobs[i].status = "running",
           RowStep(jobs[i], Released(jobs[i], status), survey'),
           jobs' = [EnsurePending(jobs, sv, src, executor) EXCEPT ![i] = Released(@, status)]
    PROVE  RowsStep
<1> DEFINE ensured == EnsurePending(jobs, sv, src, executor)
<1>1. jobs \in [JobIds -> Job]
  BY DEF TypeOK
<1>2. ensured \in [JobIds -> Job]
  BY <1>1, EnsurePendingRows
<1>3. \A k \in JobIds : \/ ensured[k] = jobs[k]
                        \/ jobs[k].status = "pending" /\ ensured[k] = Coalesced(jobs[k], sv)
                        \/ jobs[k].status = "unused" /\ ensured[k] = NewJob(sv, src, executor)
  <2>1. \A k \in JobIds : \/ ensured[k] = jobs[k]
                          \/ k \in Waiting(jobs, src, executor) /\ ensured[k] = Coalesced(jobs[k], sv)
                          \/ jobs[k].status = "unused" /\ ensured[k] = NewJob(sv, src, executor)
    BY <1>1, EnsurePendingRows
  <2>2. \A k \in Waiting(jobs, src, executor) : jobs[k].status = "pending"
    BY DEF Waiting
  <2> QED BY <2>1, <2>2
<1> HIDE DEF ensured
<1>4. ensured[i] = jobs[i]
  BY <1>3
<1>5. jobs' = [ensured EXCEPT ![i] = Released(jobs[i], status)]
  BY <1>4 DEF ensured
<1>6. Released(jobs[i], status) \in Job
  BY <1>1, ReleasedType
<1>7. ASSUME NEW k \in JobIds
      PROVE  RowStep(jobs[k], ensured[k], survey')
  <2>1. CASE ensured[k] = jobs[k]
    BY <2>1 DEF RowStep
  <2>2. CASE jobs[k].status = "pending" /\ ensured[k] = Coalesced(jobs[k], sv)
    BY <2>2 DEF RowStep
  <2>3. CASE jobs[k].status = "unused" /\ ensured[k] = NewJob(sv, src, executor)
    BY <2>3 DEF RowStep
  <2> QED BY <1>3, <2>1, <2>2, <2>3
<1> QED BY <1>2, <1>5, <1>6, <1>7 DEF RowsStep

LEMMA SupersedeRows ==
    ASSUME TypeOK, NEW w \in Workers, worker[w].job \in JobIds, HoldsClaim(w),
           UNCHANGED survey, Supersede(w)
    PROVE  RowsStep
<1> DEFINE i == worker[w].job
<1>1. jobs[i] \in Job /\ survey \in SurveyState /\ jobs[i].status = "running"
  BY DEF TypeOK, HoldsClaim, MyJob
<1>2. jobs[i].executor \in Executors /\ survey.src \in Sources
  BY <1>1 DEF Job, SurveyState
<1>3. CASE FailJob(w, FALSE)
  BY <1>3, FailJobRows
<1>4. CASE /\ HasRoom(jobs, survey.src, jobs[i].executor)
           /\ jobs' = [EnsurePending(jobs, survey, survey.src, jobs[i].executor)
                          EXCEPT ![i] = Released(@, "cancelled")]
  <2>1. RowStep(jobs[i], Released(jobs[i], "cancelled"), survey')
    BY <1>1 DEF RowStep
  <2> QED BY <1>1, <1>2, <1>4, <2>1, EnsureAndReleaseRows DEF Terminal
<1> QED BY <1>3, <1>4 DEF Supersede

LEMMA SweptRows ==
    ASSUME jobs \in [JobIds -> Job]
    PROVE  Swept \in [JobIds -> Job] /\ \A i \in JobIds : RowStep(jobs[i], Swept[i], survey')
<1>1. \A j \in Job : [j EXCEPT !.status = "failed", !.token = 0] \in Job
  BY DEF Job, Terminal
<1> QED BY <1>1 DEF Swept, RowStep, Exhausted

LEMMA ClaimRows ==
    ASSUME TypeOK, NEW w \in Workers, NEW i \in JobIds, Claim(w, i)
    PROVE  RowsStep
<1>1. jobs \in [JobIds -> Job] /\ Eligible(jobs[i])
  BY DEF TypeOK, Claim, Claimable
<1>2. ~Exhausted(jobs[i]) /\ Swept[i] = jobs[i]
  BY <1>1, ConstantsAssumption DEF Eligible, Exhausted, Swept, Job
<1>3. jobs' = [Swept EXCEPT ![i] = Claimed(jobs[i])]
  BY <1>2 DEF Claim
<1>4. Swept \in [JobIds -> Job] /\ \A k \in JobIds : RowStep(jobs[k], Swept[k], survey')
  BY <1>1, SweptRows
<1>5. Claimed(jobs[i]) \in Job
  BY <1>1, ClaimedType
<1>6. RowStep(jobs[i], Claimed(jobs[i]), survey')
  BY <1>1 DEF RowStep
<1> HIDE DEF Swept
<1> QED BY <1>3, <1>4, <1>5, <1>6 DEF RowsStep

\* What a worker does with its job.
LEMMA WorkRows ==
    ASSUME TypeOK, NEW w \in Workers, Work(w) \/ WorkRaises(w)
    PROVE  RowsStep
<1> DEFINE i == worker[w].job
<1>1. worker[w].pc \notin {"idle", "down"}
  BY DEF Work, WorkRaises, At, LosesLease, Prepare, ReadStatistics, ReadText, PersistSnapshot,
         ReadyToPublish, PublishSnapshot, AISuperseded, CheckRefused, StartAI, GenerateStages,
         ReadyToPublishAI, PublishStages, Heartbeats, BuildSteps, Checkpoints
<1>2. i \in JobIds /\ survey \in SurveyState /\ jobs \in [JobIds -> Job]
  BY <1>1 DEF TypeOK, MemoryOK
<1>3. CASE UNCHANGED jobs
  BY <1>3, UnchangedRows
<1>4. ASSUME NEW retryable \in BOOLEAN, FailJob(w, retryable)
      PROVE  RowsStep
  BY <1>2, <1>4, FailJobRows
<1>5. CASE HoldsClaim(w) /\ UNCHANGED survey /\ Supersede(w)
  BY <1>2, <1>5, SupersedeRows
<1>6. ASSUME NEW status \in {"cancelled", "succeeded"}, HoldsClaim(w),
             status = "succeeded" => ~jobs[i].cancel,
             jobs' = [jobs EXCEPT ![i] = Released(@, status)]
      PROVE  RowsStep
  <2>1. Released(jobs[i], status) \in Job
    BY <1>2, ReleasedType DEF Terminal
  <2>2. RowStep(jobs[i], Released(jobs[i], status), survey')
    BY <1>6 DEF RowStep, HoldsClaim, MyJob
  <2> QED BY <1>2, <1>6, <2>1, <2>2, OneRow
<1>7. CASE LosesLease(w)
  BY <1>3, <1>4, <1>6, <1>7 DEF LosesLease
<1>8. CASE Prepare(w) \/ PersistSnapshot(w) \/ StartAI(w) \/ CheckRefused(w) \/ WorkRaises(w)
  BY <1>3, <1>4, <1>8 DEF Prepare, PersistSnapshot, StartAI, CheckRefused, WorkRaises
<1>9. CASE ReadStatistics(w) \/ ReadText(w) \/ ReadyToPublish(w) \/ GenerateStages(w) \/ ReadyToPublishAI(w)
  BY <1>3, <1>9 DEF ReadStatistics, ReadText, ReadyToPublish, GenerateStages, ReadyToPublishAI
<1>10. CASE AISuperseded(w)
  BY <1>5, <1>10 DEF AISuperseded, HeartbeatAccepted
<1>11. CASE PublishSnapshot(w)
  <2>1. CASE PublishBase(w) /\ ~ClaimRefused(w) /\ UNCHANGED survey
    <3>1. HoldsClaim(w) /\ ~jobs[i].cancel /\ jobs[i].status = "running"
      BY <2>1 DEF ClaimRefused, HoldsClaim, LeaseLive, MyJob
    <3>2. CASE ~AutoAI
      BY <1>6, <2>1, <3>1, <3>2 DEF PublishBase, Succeeded
    <3>3. CASE AutoAI
      <4>1. jobs[i].src \in Sources /\ "ai" \in Executors /\ "succeeded" \in Terminal
        BY <1>2 DEF Job, Executors, Terminal
      <4>2. RowStep(jobs[i], Released(jobs[i], "succeeded"), survey')
        BY <3>1 DEF RowStep
      <4>3. /\ HasRoom(jobs, jobs[i].src, "ai")
            /\ jobs' = [EnsurePending(jobs, survey, jobs[i].src, "ai")
                           EXCEPT ![i] = Released(@, "succeeded")]
        BY <2>1, <3>3 DEF PublishBase, Succeeded, MyJob
      <4> QED BY <1>2, <2>1, <3>1, <4>1, <4>2, <4>3, EnsureAndReleaseRows
    <3> QED BY <3>2, <3>3, ConstantsAssumption
  <2> QED BY <1>4, <1>5, <1>11, <2>1 DEF PublishSnapshot, ClaimRefused
<1>12. CASE PublishStages(w)
  BY <1>4, <1>5, <1>6, <1>12 DEF PublishStages, ClaimRefused, Succeeded, LeaseLive, MyJob
<1> QED BY <1>7, <1>8, <1>9, <1>10, <1>11, <1>12 DEF Work

-----------------------------------------------------------------------------

LEMMA ActionRows ==
    ASSUME TypeOK, Next
    PROVE  RowsStep
<1>1. survey \in SurveyState /\ jobs \in [JobIds -> Job]
  BY DEF TypeOK
<1>2. CASE UserNext
  <2>1. ASSUME NEW sv \in SurveyState, Schedule(jobs, sv, "deterministic")
        PROVE  RowsStep
    BY <1>1, <2>1, ScheduleRows DEF Executors
  <2>2. CASE InputChanges
    <3>1. [survey EXCEPT !.input = @ + 1] \in SurveyState
      BY <1>1 DEF SurveyState
    <3> QED BY <2>1, <2>2, <3>1 DEF InputChanges
  <2>3. CASE ConfigChanges
    <3>1. [survey EXCEPT !.config = @ + 1] \in SurveyState
      BY <1>1 DEF SurveyState
    <3> QED BY <2>1, <2>3, <3>1 DEF ConfigChanges
  <2>4. CASE AnalysisToggled
    <3>1. survey.config + 1 \in Nat /\ (~survey.enabled) \in BOOLEAN
      BY <1>1 DEF SurveyState
    <3>2. [survey EXCEPT !.config = @ + 1, !.enabled = ~@] \in SurveyState
      BY <1>1, <3>1 DEF SurveyState
    <3> QED BY <2>1, <2>4, <3>2 DEF AnalysisToggled
  <2>5. CASE SourceRegistered
    <3>1. survey.input + 1 \in Nat /\ survey.config + 1 \in Nat
      BY <1>1 DEF SurveyState
    <3>2. \A src \in Sources : [survey EXCEPT !.input = @ + 1, !.config = @ + 1, !.src = src] \in SurveyState
      BY <1>1, <3>1 DEF SurveyState
    <3> QED BY <2>1, <2>5, <3>2 DEF SourceRegistered
  <2>6. CASE AnalysisRequested
    BY <1>1, <2>1, <2>6 DEF AnalysisRequested
  <2>7. CASE OutdatedRerun
    BY <1>1, <2>1, <2>7 DEF OutdatedRerun
  <2>8. CASE AIConfirmed
    <3>4. PICK obsolete \in InFlight("ai") \union {None} :
              Schedule([i \in JobIds |-> IF i = obsolete THEN CancelAsked(jobs[i]) ELSE jobs[i]],
                       survey, "ai")
      BY <2>8 DEF AIConfirmed
    <3> DEFINE js == [i \in JobIds |-> IF i = obsolete THEN CancelAsked(jobs[i]) ELSE jobs[i]]
    <3>1. js \in [JobIds -> Job]
      BY <1>1, CancelAskedType
    <3>2. \A i \in JobIds : \/ js[i] = jobs[i]
                            \/ /\ js[i].status \notin {"pending", "unused"}
                               /\ js[i] = CancelAsked(jobs[i])
      <4>1. \A j \in Job : j.status \in {"pending", "running"} =>
                CancelAsked(j).status \notin {"pending", "unused"}
        BY DEF CancelAsked, Job
      <4>2. obsolete \in JobIds => jobs[obsolete].status \in {"pending", "running"}
        BY ConstantsAssumption, <3>4 DEF InFlight, Status
      <4> QED BY <1>1, <4>1, <4>2
    <3>3. Schedule(js, survey, "ai")
      BY <3>4
    <3> HIDE DEF js
    <3> QED BY <1>1, <3>1, <3>2, <3>3, ScheduleRows DEF Executors
  <2>9. ASSUME NEW i \in JobIds, CancelRequested(i)
        PROVE  RowsStep
    <3>1. RowStep(jobs[i], CancelAsked(jobs[i]), survey')
      BY DEF RowStep
    <3> QED BY <1>1, <2>9, <3>1, OneRow, CancelAskedType DEF CancelRequested
  <2> QED BY <1>2, <2>2, <2>3, <2>4, <2>5, <2>6, <2>7, <2>8, <2>9 DEF UserNext
<1>3. ASSUME NEW i \in JobIds, LeaseExpires(i) \/ BackoffElapses(i)
      PROVE  RowsStep
  <2>1. CASE LeaseExpires(i)
    <3>1. [jobs[i] EXCEPT !.lease = "expired"] \in Job
      BY <1>1 DEF Job
    <3>2. RowStep(jobs[i], [jobs[i] EXCEPT !.lease = "expired"], survey')
      BY <2>1 DEF LeaseExpires, RowStep
    <3> QED BY <2>1, <3>1, <3>2, OneRow DEF LeaseExpires
  <2>2. CASE BackoffElapses(i)
    <3>1. [jobs[i] EXCEPT !.due = TRUE] \in Job
      BY <1>1 DEF Job
    <3>2. RowStep(jobs[i], [jobs[i] EXCEPT !.due = TRUE], survey')
      BY <2>2 DEF BackoffElapses, RowStep
    <3> QED BY <2>2, <3>1, <3>2, OneRow DEF BackoffElapses
  <2> QED BY <1>3, <2>1, <2>2
<1>4. ASSUME NEW w \in Workers, Killed(w) \/ Restarted(w) \/ Upgraded(w)
      PROVE  RowsStep
  BY <1>4, UnchangedRows DEF Killed, Restarted, Upgraded
<1>5. ASSUME NEW w \in Workers, Poll(w)
      PROVE  RowsStep
  <2>1. CASE PollFindsNothing(w)
    BY <1>1, <2>1, SweptRows DEF PollFindsNothing, RowsStep
  <2> QED BY <1>5, <2>1, ClaimRows DEF Poll
<1>6. ASSUME NEW w \in Workers, Work(w) \/ WorkRaises(w)
      PROVE  RowsStep
  BY <1>6, WorkRows
<1> QED BY <1>2, <1>3, <1>4, <1>5, <1>6 DEF Next, TimeNext, ProcessNext

-----------------------------------------------------------------------------
(* Types *)

WorkersOK == worker' \in [Workers -> Worker] /\ \A w \in Workers : MemoryOK(worker'[w])
FilesOK ==
    /\ artifacts' \subseteq [file: Roots \X Target, stats: Version, text: Version]
    /\ locks' \subseteq Roots \X Target
    /\ snapshots' \subseteq [target: Target, stats: Version, text: Version]
PublishedOK == base' \in Maybe(Manifest) /\ ai' \in Maybe(Manifest)

LEMMA IdleOK == Idle \in Worker /\ MemoryOK(Idle) /\ Down \in Worker /\ MemoryOK(Down)
BY DEF Idle, Down, Worker, MemoryOK, Maybe, Step, Built

LEMMA OneWorkerMoves ==
    ASSUME TypeOK, NEW w \in Workers, NEW m \in Worker, MemoryOK(m),
           worker' = [worker EXCEPT ![w] = m]
    PROVE  WorkersOK
BY DEF TypeOK, WorkersOK

LEMMA FailJobWorkers ==
    ASSUME TypeOK, NEW w \in Workers, NEW retryable, FailJob(w, retryable)
    PROVE  WorkersOK
BY IdleOK, OneWorkerMoves DEF FailJob

LEMMA SupersedeWorkers ==
    ASSUME TypeOK, NEW w \in Workers, Supersede(w)
    PROVE  WorkersOK
BY IdleOK, OneWorkerMoves, FailJobWorkers DEF Supersede

\* A worker that goes on to its next step and keeps what it has.
LEMMA GotoWorkers ==
    ASSUME TypeOK, NEW w \in Workers, NEW pc, Goto(w, pc),
           \/ At(w, "built") /\ pc = "saved"
           \/ At(w, "saved") /\ pc = "publish"
           \/ At(w, "generate") /\ pc = "generated"
           \/ At(w, "generated") /\ pc = "publish_ai"
    PROVE  WorkersOK
<1> DEFINE m == [worker[w] EXCEPT !.pc = pc]
<1>1. worker[w] \in Worker /\ MemoryOK(worker[w])
  BY DEF TypeOK
<1>2. pc \in Step
  BY DEF Step, Heartbeats, Checkpoints
<1>3. m \in Worker /\ MemoryOK(m)
  BY <1>1, <1>2 DEF Worker, MemoryOK, At, Built
<1>4. worker' = [worker EXCEPT ![w] = m]
  BY DEF Goto
<1> HIDE DEF m
<1> QED BY <1>3, <1>4, OneWorkerMoves

LEMMA UnlockOK ==
    ASSUME TypeOK, NEW w \in Workers, Unlock(w)
    PROVE  locks' \subseteq Roots \X Target
BY DEF TypeOK, Unlock

LEMMA UnchangedOK ==
    ASSUME TypeOK
    PROVE  /\ UNCHANGED worker => WorkersOK
           /\ UNCHANGED files => FilesOK
           /\ UNCHANGED <<artifacts, snapshots>> /\ locks' \subseteq Roots \X Target => FilesOK
           /\ UNCHANGED published => PublishedOK
BY DEF TypeOK, WorkersOK, FilesOK, PublishedOK, files, published

LEMMA ManifestType ==
    ASSUME TypeOK, NEW w \in Workers, worker[w].job \in JobIds, worker[w].target \in Target
    PROVE  ManifestOf(w) \in Manifest
<1>1. MyJob(w) \in Job
  BY DEF TypeOK, MyJob
<1> QED BY <1>1 DEF ManifestOf, Manifest, Job

LEMMA WorkTypes ==
    ASSUME TypeOK, NEW w \in Workers, Work(w) \/ WorkRaises(w)
    PROVE  WorkersOK /\ FilesOK /\ PublishedOK
<1> DEFINE m == worker[w]
<1>1. m \in Worker /\ MemoryOK(m) /\ survey \in SurveyState /\ RootOf[w] \in Roots
  BY DEF TypeOK, Roots
<1>2. CurrentVersion \in Version
  BY <1>1 DEF CurrentVersion, Version, SurveyState
<1>3. CASE LosesLease(w)
  <2>1. WorkersOK
    BY <1>3, IdleOK, OneWorkerMoves, FailJobWorkers DEF LosesLease
  <2> QED BY <1>3, <2>1, UnlockOK, UnchangedOK DEF LosesLease
<1>4. CASE WorkRaises(w)
  BY <1>4, UnlockOK, UnchangedOK, FailJobWorkers DEF WorkRaises
<1>5. CASE Prepare(w)
  <2> DEFINE target == TargetOf(w, MyJob(w))
  <2> DEFINE file == <<RootOf[w], target>>
  <2>1. m.job \in JobIds /\ m.pc = "prepare"
    BY <1>1, <1>5 DEF Prepare, At, MemoryOK
  <2>2. target \in Target
    BY <2>1 DEF TypeOK, MyJob, TargetOf, Target, Job
  <2> HIDE DEF target
  <2>3. locks' \subseteq Roots \X Target
    <3>1. file \in Roots \X Target
      BY <1>1, <2>2
    <3>2. locks' \subseteq locks \union {file}
      BY <1>5 DEF Prepare, target
    <3>3. locks \subseteq Roots \X Target
      BY DEF TypeOK
    <3> HIDE DEF file
    <3> QED BY <3>1, <3>2, <3>3
  <2>4. WorkersOK
    <3>1. ASSUME NEW a \in artifacts, worker' = [worker EXCEPT ![w] = Cached(@, target, a)]
          PROVE  WorkersOK
      <4>1. a.stats \in Version /\ a.text \in Version
        BY DEF TypeOK
      <4>2. Cached(m, target, a) \in Worker /\ MemoryOK(Cached(m, target, a))
        BY <1>1, <2>1, <2>2, <4>1 DEF Cached, Worker, MemoryOK, Maybe, Step, Heartbeats, Built
      <4> QED BY <3>1, <4>2, OneWorkerMoves
    <3>2. ASSUME worker' = [worker EXCEPT ![w].pc = "statistics", ![w].target = target]
          PROVE  WorkersOK
      <4> DEFINE n == [m EXCEPT !.pc = "statistics", !.target = target]
      <4>1. n \in Worker /\ MemoryOK(n)
        BY <1>1, <2>1, <2>2 DEF Worker, MemoryOK, Maybe, Step, Heartbeats, BuildSteps, Built
      <4>2. worker' = [worker EXCEPT ![w] = n]
        BY <3>2
      <4> HIDE DEF n
      <4> QED BY <4>1, <4>2, OneWorkerMoves
    <3> QED BY <1>5, <3>1, <3>2, FailJobWorkers DEF Prepare, target
  <2> QED BY <1>5, <2>3, <2>4, UnchangedOK DEF Prepare
<1>6. CASE ReadStatistics(w)
  <2> DEFINE n == [m EXCEPT !.pc = "text", !.stats = CurrentVersion]
  <2>1. n \in Worker /\ MemoryOK(n)
    BY <1>1, <1>2, <1>6 DEF ReadStatistics, At, Worker, MemoryOK, Maybe, Step, Heartbeats, BuildSteps, Built
  <2>2. worker' = [worker EXCEPT ![w] = n]
    BY <1>6 DEF ReadStatistics
  <2> HIDE DEF n
  <2> QED BY <1>6, <2>1, <2>2, OneWorkerMoves, UnchangedOK DEF ReadStatistics
<1>7. CASE ReadText(w)
  <2> DEFINE n == [m EXCEPT !.pc = "built", !.text = CurrentVersion]
  <2>1. n \in Worker /\ MemoryOK(n)
    BY <1>1, <1>2, <1>7 DEF ReadText, At, Worker, MemoryOK, Maybe, Step, Heartbeats, Built
  <2>2. worker' = [worker EXCEPT ![w] = n]
    BY <1>7 DEF ReadText
  <2>3. m.target \in Target /\ m.stats \in Version
    BY <1>1, <1>7 DEF ReadText, At, MemoryOK
  <2>4. artifacts' \subseteq [file: Roots \X Target, stats: Version, text: Version]
    BY <1>1, <1>2, <1>7, <2>3 DEF ReadText, TypeOK
  <2>5. FilesOK
    BY <1>7, <2>4, UnlockOK DEF ReadText, FilesOK, TypeOK
  <2> HIDE DEF n
  <2> QED BY <1>7, <2>1, <2>2, <2>5, OneWorkerMoves, UnchangedOK DEF ReadText
<1>8. CASE PersistSnapshot(w)
  <2>1. MySnapshot(w) \in [target: Target, stats: Version, text: Version]
    BY <1>1, <1>8 DEF PersistSnapshot, At, MemoryOK, MySnapshot, Built
  <2>2. FilesOK
    BY <1>8, <2>1 DEF PersistSnapshot, FilesOK, TypeOK
  <2>3. WorkersOK
    BY <1>8, FailJobWorkers, GotoWorkers DEF PersistSnapshot
  <2> QED BY <1>8, <2>2, <2>3, UnchangedOK DEF PersistSnapshot
<1>9. CASE ReadyToPublish(w)
  BY <1>9, GotoWorkers, UnchangedOK DEF ReadyToPublish
<1>10. CASE GenerateStages(w)
  BY <1>10, GotoWorkers, UnchangedOK DEF GenerateStages
<1>11. CASE ReadyToPublishAI(w)
  BY <1>11, GotoWorkers, UnchangedOK DEF ReadyToPublishAI
<1>12. CASE AISuperseded(w) \/ CheckRefused(w)
  BY <1>12, SupersedeWorkers, FailJobWorkers, UnchangedOK DEF AISuperseded, CheckRefused
<1>13. CASE StartAI(w)
  <2> DEFINE n == [m EXCEPT !.pc = "generate", !.target = base.snap]
  <2>1. ASSUME base # None
        PROVE  n \in Worker /\ MemoryOK(n)
    <3>1. base.snap \in Target
      BY <2>1 DEF TypeOK, Maybe, Manifest
    <3> QED BY <1>1, <1>13, <3>1 DEF StartAI, At, Worker, MemoryOK, Maybe, Step, Checkpoints, Built
  <2>2. ASSUME base # None, worker' = [worker EXCEPT ![w].pc = "generate", ![w].target = base.snap]
        PROVE  WorkersOK
    <3>1. worker' = [worker EXCEPT ![w] = n]
      BY <2>2
    <3> HIDE DEF n
    <3> QED BY <2>1, <2>2, <3>1, OneWorkerMoves
  <2> HIDE DEF n
  <2> QED BY <1>13, <2>2, FailJobWorkers, UnchangedOK DEF StartAI
<1>14. CASE PublishSnapshot(w)
  <2>1. m.job \in JobIds /\ m.target \in Target
    BY <1>1, <1>14 DEF PublishSnapshot, At, MemoryOK, Built
  <2>2. WorkersOK
    BY <1>14, IdleOK, OneWorkerMoves, FailJobWorkers, SupersedeWorkers DEF PublishSnapshot, PublishBase
  <2>3. PublishedOK
    BY <1>14, <2>1, ManifestType DEF PublishSnapshot, PublishBase, PublishedOK, TypeOK, Maybe
  <2> QED BY <1>14, <2>2, <2>3, UnchangedOK DEF PublishSnapshot
<1>15. CASE PublishStages(w)
  <2>1. m.job \in JobIds /\ m.target \in Target
    BY <1>1, <1>15 DEF PublishStages, At, MemoryOK
  <2>2. WorkersOK
    BY <1>15, IdleOK, OneWorkerMoves, FailJobWorkers, SupersedeWorkers DEF PublishStages
  <2>3. PublishedOK
    BY <1>15, <2>1, ManifestType DEF PublishStages, PublishedOK, TypeOK, Maybe
  <2> QED BY <1>15, <2>2, <2>3, UnchangedOK DEF PublishStages
<1> QED BY <1>3, <1>4, <1>5, <1>6, <1>7, <1>8, <1>9, <1>10, <1>11, <1>12, <1>13, <1>14, <1>15 DEF Work

\* What the users, the clocks and the operating system do.
LEMMA EnvironmentTypes ==
    ASSUME TypeOK,
           \/ UserNext \/ TimeNext
           \/ \E w \in Workers : Killed(w) \/ Restarted(w) \/ Upgraded(w) \/ Poll(w)
    PROVE  WorkersOK /\ FilesOK /\ PublishedOK
<1>1. CASE EnvUnchanged
  BY <1>1, UnchangedOK DEF EnvUnchanged
<1>2. ASSUME NEW w \in Workers, Killed(w) \/ Restarted(w) \/ Upgraded(w)
      PROVE  WorkersOK /\ FilesOK /\ PublishedOK
  <2>1. WorkersOK
    BY <1>2, IdleOK, OneWorkerMoves DEF Killed, Restarted, Upgraded
  <2> QED BY <1>2, <2>1, UnchangedOK DEF Killed, Restarted, Upgraded
<1>3. ASSUME NEW w \in Workers, NEW i \in JobIds, Claim(w, i)
      PROVE  WorkersOK /\ FilesOK /\ PublishedOK
  <2> DEFINE m == [Idle EXCEPT !.pc = FirstStep(jobs[i].executor), !.job = i, !.token = jobs'[i].token]
  <2>1. jobs'[i].token \in Nat
    BY <1>3, ClaimRows DEF RowsStep, Job
  <2>2. m \in Worker /\ MemoryOK(m)
    BY <2>1 DEF Idle, FirstStep, Worker, MemoryOK, Maybe, Step, Heartbeats, BuildSteps, Checkpoints, Built
  <2>3. worker' = [worker EXCEPT ![w] = m]
    BY <1>3 DEF Claim
  <2> HIDE DEF m
  <2> QED BY <1>3, <2>2, <2>3, OneWorkerMoves, UnchangedOK DEF Claim
<1>4. CASE UserNext
  BY <1>1, <1>4 DEF UserNext, InputChanges, ConfigChanges, AnalysisToggled, SourceRegistered,
                    AnalysisRequested, AIConfirmed, OutdatedRerun, CancelRequested
<1>5. CASE TimeNext
  BY <1>1, <1>5 DEF TimeNext, LeaseExpires, BackoffElapses
<1>6. ASSUME NEW w \in Workers, Poll(w)
      PROVE  WorkersOK /\ FilesOK /\ PublishedOK
  BY <1>1, <1>3, <1>6 DEF Poll, PollFindsNothing
<1> QED BY <1>2, <1>4, <1>5, <1>6

\* The versions only grow, and a step that leaves them alone leaves all of them alone.
SurveyGrows ==
    /\ survey' \in SurveyState
    /\ survey'.input >= survey.input /\ survey'.config >= survey.config

LEMMA SurveySteps ==
    ASSUME TypeOK, Next
    PROVE  SurveyGrows
<1>1. survey \in SurveyState
  BY DEF TypeOK
<1>2. CASE UNCHANGED survey
  BY <1>1, <1>2 DEF SurveyGrows, SurveyState
<1>3. survey.input + 1 \in Nat /\ survey.config + 1 \in Nat /\ (~survey.enabled) \in BOOLEAN
  BY <1>1 DEF SurveyState
<1>4. CASE InputChanges
  BY <1>1, <1>3, <1>4 DEF InputChanges, Schedule, SurveyGrows, SurveyState
<1>5. CASE ConfigChanges
  BY <1>1, <1>3, <1>5 DEF ConfigChanges, Schedule, SurveyGrows, SurveyState
<1>6. CASE AnalysisToggled
  <2>1. survey' = [survey EXCEPT !.config = @ + 1, !.enabled = ~@]
    BY <1>6 DEF AnalysisToggled, Schedule
  <2>2. survey' \in SurveyState
    BY <1>1, <1>3, <2>1 DEF SurveyState
  <2> QED BY <1>1, <2>1, <2>2 DEF SurveyGrows, SurveyState
<1>7. CASE SourceRegistered
  <2>1. PICK src \in Sources : survey' = [survey EXCEPT !.input = @ + 1, !.config = @ + 1, !.src = src]
    BY <1>7 DEF SourceRegistered, Schedule
  <2>2. survey' \in SurveyState
    BY <1>1, <1>3, <2>1 DEF SurveyState
  <2> QED BY <1>1, <2>1, <2>2 DEF SurveyGrows, SurveyState
<1>8. CASE AnalysisRequested \/ AIConfirmed \/ OutdatedRerun \/ \E i \in JobIds : CancelRequested(i)
  BY <1>2, <1>8 DEF AnalysisRequested, AIConfirmed, OutdatedRerun, CancelRequested, Schedule
<1>9. CASE TimeNext \/ ProcessNext
  BY <1>2, <1>9 DEF TimeNext, ProcessNext, LeaseExpires, BackoffElapses, Killed, Restarted, Upgraded
<1>10. ASSUME NEW w \in Workers, Poll(w) \/ Work(w) \/ WorkRaises(w)
       PROVE  SurveyGrows
  BY <1>2, <1>10 DEF Poll, Claim, PollFindsNothing, Work, WorkRaises, LosesLease, Prepare,
         ReadStatistics, ReadText, PersistSnapshot, ReadyToPublish, PublishSnapshot,
         AISuperseded, CheckRefused, StartAI, GenerateStages, ReadyToPublishAI, PublishStages
<1> QED BY <1>4, <1>5, <1>6, <1>7, <1>8, <1>9, <1>10 DEF Next, UserNext

\* The types of all variables are kept by every step.
LEMMA TypeStep == TypeOK /\ [Next]_vars => TypeOK'
<1> SUFFICES ASSUME TypeOK, [Next]_vars
             PROVE  TypeOK'
  OBVIOUS
<1>1. CASE UNCHANGED vars
  BY <1>1 DEF TypeOK, vars
<1>2. CASE Next
  <2>1. RowsStep /\ SurveyGrows
    BY <1>2, ActionRows, SurveySteps
  <2>2. WorkersOK /\ FilesOK /\ PublishedOK
    BY <1>2, WorkTypes, EnvironmentTypes DEF Next, ProcessNext
  <2>3. code' \in [Workers -> Nat] /\ events' \in Nat
    <3>1. code \in [Workers -> Nat] /\ events \in Nat
      BY DEF TypeOK
    <3>2. ASSUME NEW kind, Disturbance(kind)
          PROVE  events' \in Nat
      BY <3>1, <3>2 DEF Disturbance
    <3>3. CASE UserNext \/ TimeNext
      BY <3>1, <3>2, <3>3 DEF UserNext, TimeNext, InputChanges, ConfigChanges, AnalysisToggled,
             SourceRegistered, AnalysisRequested, AIConfirmed, OutdatedRerun, CancelRequested,
             LeaseExpires, BackoffElapses, EnvUnchanged
    <3>4. CASE ProcessNext
      BY <3>1, <3>2, <3>4 DEF ProcessNext, Killed, Restarted, Upgraded
    <3>5. ASSUME NEW w \in Workers, Poll(w) \/ Work(w) \/ WorkRaises(w)
          PROVE  UNCHANGED code /\ events' \in Nat
      BY <3>1, <3>2, <3>5 DEF Poll, Claim, PollFindsNothing, EnvUnchanged, Work, WorkRaises, LosesLease,
             Prepare, ReadStatistics, ReadText, PersistSnapshot, ReadyToPublish, PublishSnapshot,
             AISuperseded, CheckRefused, StartAI, GenerateStages, ReadyToPublishAI, PublishStages
    <3> QED BY <1>2, <3>1, <3>3, <3>4, <3>5 DEF Next
  <2> QED BY <2>1, <2>2, <2>3 DEF TypeOK, RowsStep, SurveyGrows, WorkersOK, FilesOK, PublishedOK
<1> QED BY <1>1, <1>2

LEMMA InitType == Init => TypeOK
<1> SUFFICES ASSUME Init
             PROVE  TypeOK
  OBVIOUS
<1>1. survey \in SurveyState
  BY DEF Init, SurveyState
<1>2. jobs \in [JobIds -> Job]
  <2>1. NewJob(survey, survey.src, "deterministic") \in Job
    BY <1>1, NewJobType DEF SurveyState, Executors
  <2>2. [NewJob(survey, survey.src, "deterministic") EXCEPT !.status = "unused"] \in Job
    BY <2>1 DEF Job
  <2> QED BY <2>2 DEF Init
<1>3. worker \in [Workers -> Worker] /\ \A w \in Workers : MemoryOK(worker[w])
  BY IdleOK DEF Init
<1> QED BY <1>1, <1>2, <1>3 DEF Init, TypeOK, Maybe

\* Every table, file and process memory keeps its shape, and no step of a worker reads
\* a result that no earlier step has left there.
THEOREM TypeCorrect == Spec => []TypeOK
BY InitType, TypeStep, PTL DEF Spec

-----------------------------------------------------------------------------
(* Retry and cancellation: consequences of the life of a row *)

AttemptsOK(j) == j.attempts <= MaxAttempts /\ (j.status = "pending" => j.attempts < MaxAttempts)

LEMMA AttemptsStep ==
    ASSUME NEW j \in Job, NEW sv \in SurveyState, NEW k, RowStep(j, k, sv), AttemptsOK(j)
    PROVE  AttemptsOK(k)
<1>1. MaxAttempts \in Nat \ {0} /\ j.attempts \in Nat
  BY ConstantsAssumption DEF Job
<1>2. CASE k = j \/ k = CancelAsked(j)
  BY <1>1, <1>2 DEF AttemptsOK, Job, CancelAsked
<1>3. ASSUME NEW src, NEW executor, k = NewJob(sv, src, executor)
      PROVE  AttemptsOK(k)
  BY <1>1, <1>3 DEF AttemptsOK, NewJob
<1>4. CASE k \in {Coalesced(j, sv), [j EXCEPT !.status = "cancelled"], [j EXCEPT !.due = TRUE]}
  BY <1>1, <1>4 DEF AttemptsOK, Job, Coalesced
<1>5. CASE Eligible(j) /\ k = Claimed(j)
  BY <1>1, <1>5 DEF AttemptsOK, Job, Eligible, Claimed
<1>6. CASE k \in {[j EXCEPT !.lease = "expired"], [j EXCEPT !.status = "failed", !.token = 0],
                  Released(j, "cancelled"), Released(j, "succeeded")} /\ j.status = "running"
  BY <1>1, <1>6 DEF AttemptsOK, Job, Released
<1>7. ASSUME NEW retryable \in BOOLEAN, k = Failed(j, retryable)
      PROVE  AttemptsOK(k)
  BY <1>1, <1>7 DEF AttemptsOK, Job, Released, Failed
<1> QED BY <1>2, <1>3, <1>4, <1>5, <1>6, <1>7 DEF RowStep

\* No chain of failures, lost leases, reclaims, coalescing and re-queueing gives a row
\* more attempts than AnalysisJob.max_attempts.
THEOREM RetryCorrect == Spec => []RetryIsFinite
<1>1. Init => RetryIsFinite
  <2>1. MaxAttempts \in Nat \ {0}
    BY ConstantsAssumption
  <2>2. Init => \A i \in JobIds : jobs[i].attempts = 0 /\ jobs[i].status = "unused"
    BY DEF Init, NewJob
  <2> QED BY <2>1, <2>2 DEF RetryIsFinite
<1>2. TypeOK /\ RetryIsFinite /\ [Next]_vars => RetryIsFinite'
  <2> SUFFICES ASSUME TypeOK, RetryIsFinite, [Next]_vars
               PROVE  RetryIsFinite'
    OBVIOUS
  <2>1. CASE UNCHANGED vars
    BY <2>1 DEF vars, RetryIsFinite
  <2>2. CASE Next
    <3>1. RowsStep /\ SurveyGrows
      BY <2>2, ActionRows, SurveySteps
    <3> QED BY <3>1, AttemptsStep DEF RowsStep, SurveyGrows, TypeOK, RetryIsFinite, AttemptsOK
  <2> QED BY <2>1, <2>2
<1> QED BY <1>1, <1>2, TypeCorrect, PTL DEF Spec

CancelOK(j) == j.cancel => j.status \in {"running", "cancelled", "failed"}

LEMMA CancelStep ==
    ASSUME NEW j \in Job, NEW sv \in SurveyState, NEW k, RowStep(j, k, sv), CancelOK(j)
    PROVE  CancelOK(k)
<1>1. CASE k = j \/ k = CancelAsked(j)
  BY <1>1 DEF CancelOK, Job, CancelAsked
<1>2. ASSUME NEW src, NEW executor, k = NewJob(sv, src, executor)
      PROVE  CancelOK(k)
  BY <1>2 DEF CancelOK, NewJob
<1>3. CASE /\ k \in {Coalesced(j, sv), [j EXCEPT !.status = "cancelled"], [j EXCEPT !.due = TRUE]}
           /\ j.status = "pending"
  BY <1>3 DEF CancelOK, Job, Coalesced
<1>4. CASE Eligible(j) /\ k = Claimed(j)
  BY <1>4 DEF CancelOK, Job, Eligible, Claimed
<1>5. CASE k \in {[j EXCEPT !.lease = "expired"], [j EXCEPT !.status = "failed", !.token = 0],
                  Released(j, "cancelled")} /\ j.status = "running"
  BY <1>5 DEF CancelOK, Job, Released
<1>6. CASE ~j.cancel /\ k = Released(j, "succeeded")
  BY <1>6 DEF CancelOK, Job, Released
<1>7. ASSUME NEW retryable \in BOOLEAN, k = Failed(j, retryable)
      PROVE  CancelOK(k)
  BY <1>7 DEF CancelOK, Job, Released, Failed
<1> QED BY <1>1, <1>2, <1>3, <1>4, <1>5, <1>6, <1>7 DEF RowStep

\* Work that was asked to stop is never published, at whatever step of its worker the
\* request arrives.
THEOREM CancellationCorrect == Spec => []CancelledWorkIsNotPublished
<1>1. Init => CancelledWorkIsNotPublished
  BY DEF Init, NewJob, CancelledWorkIsNotPublished
<1>2. TypeOK /\ CancelledWorkIsNotPublished /\ [Next]_vars => CancelledWorkIsNotPublished'
  <2> SUFFICES ASSUME TypeOK, CancelledWorkIsNotPublished, [Next]_vars
               PROVE  CancelledWorkIsNotPublished'
    OBVIOUS
  <2>1. CASE UNCHANGED vars
    BY <2>1 DEF vars, CancelledWorkIsNotPublished
  <2>2. CASE Next
    <3>1. RowsStep /\ SurveyGrows
      BY <2>2, ActionRows, SurveySteps
    <3> QED BY <3>1, CancelStep DEF RowsStep, SurveyGrows, TypeOK, CancelledWorkIsNotPublished, CancelOK
  <2> QED BY <2>1, <2>2
<1> QED BY <1>1, <1>2, TypeCorrect, PTL DEF Spec

-----------------------------------------------------------------------------
(* Leases *)

\* A process holds the token of an attempt that its job has had, and no two processes
\* hold the same one.
TokensHeld ==
    /\ \A i \in JobIds : jobs[i].status = "unused" => jobs[i].attempts = 0
    /\ \A w \in Workers :
          worker[w].job # None => /\ worker[w].job \in JobIds
                                 /\ 1 <= worker[w].token
                                 /\ worker[w].token <= jobs[worker[w].job].attempts
    /\ \A v, w \in Workers :
          v # w /\ worker[v].job # None /\ worker[v].job = worker[w].job
             => worker[v].token # worker[w].token

\* A row never loses attempts, and it runs on under the same token and for the same
\* versions or under the token of a new attempt.
LEMMA RowKeeps ==
    ASSUME NEW j \in Job, NEW sv \in SurveyState, NEW k, RowStep(j, k, sv),
           j.status = "unused" => j.attempts = 0
    PROVE  /\ k.attempts >= j.attempts
           /\ k.status = "unused" => k.attempts = 0
           /\ k.status = "running" =>
                /\ k.src = j.src /\ k.input = j.input /\ k.config = j.config
                /\ k.token = j.attempts + 1 \/ (k.token = j.token /\ j.status = "running")
<1>1. j.attempts \in Nat
  BY DEF Job
<1> DEFINE same == k.attempts = j.attempts /\ k.status # "unused"
<1> DEFINE onward == /\ k.src = j.src /\ k.input = j.input /\ k.config = j.config
                    /\ k.token = j.token /\ k.attempts = j.attempts /\ k.status = j.status
<1>2. k = j => onward
  OBVIOUS
<1>3. k = CancelAsked(j) => onward \/ (same /\ k.status = "cancelled")
  BY DEF Job, CancelAsked
<1>4. ASSUME NEW src, NEW executor, k = NewJob(sv, src, executor), j.status = "unused"
      PROVE  k.attempts = j.attempts /\ k.status = "pending"
  BY <1>1, <1>4 DEF NewJob
<1>5. k \in {Coalesced(j, sv), [j EXCEPT !.due = TRUE]} => k.attempts = j.attempts /\ k.status = j.status
  BY DEF Job, Coalesced
<1>6. k = [j EXCEPT !.status = "cancelled"] => same /\ k.status = "cancelled"
  BY DEF Job
<1>7. k = Claimed(j) => /\ k.src = j.src /\ k.input = j.input /\ k.config = j.config
                        /\ k.token = j.attempts + 1 /\ k.attempts = j.attempts + 1
                        /\ k.status = "running"
  BY DEF Job, Claimed
<1>8. k = [j EXCEPT !.lease = "expired"] => onward
  BY DEF Job
<1>9. k \in {[j EXCEPT !.status = "failed", !.token = 0], Released(j, "cancelled"), Released(j, "succeeded")}
         => same /\ k.status # "running"
  BY DEF Job, Released
<1>10. ASSUME NEW retryable \in BOOLEAN, k = Failed(j, retryable)
       PROVE  same /\ k.status \in {"cancelled", "failed", "pending"}
  BY <1>1, <1>10 DEF Job, Released, Failed
<1> QED BY <1>1, <1>2, <1>3, <1>4, <1>5, <1>6, <1>7, <1>8, <1>9, <1>10 DEF RowStep

KeepsOrDrops(v) ==
    \/ worker'[v].job = None
    \/ worker'[v].job = worker[v].job /\ worker'[v].token = worker[v].token

\* A process gets a job and a token by a claim and in no other way.
LEMMA OnlyClaimsGiveTokens ==
    ASSUME TypeOK, Next
    PROVE  \/ \E w \in Workers, i \in JobIds : Claim(w, i)
           \/ \A v \in Workers : KeepsOrDrops(v)
<1>1. worker \in [Workers -> Worker] /\ Idle.job = None /\ Down.job = None
  BY DEF TypeOK, Idle, Down
<1>2. CASE UNCHANGED worker
  BY <1>2 DEF KeepsOrDrops
<1>3. ASSUME NEW w \in Workers, worker' = [worker EXCEPT ![w] = Idle] \/ worker' = [worker EXCEPT ![w] = Down]
      PROVE  \A v \in Workers : KeepsOrDrops(v)
  BY <1>1, <1>3 DEF KeepsOrDrops
<1>4. ASSUME NEW w \in Workers, NEW retryable, FailJob(w, retryable) \/ Supersede(w)
      PROVE  \A v \in Workers : KeepsOrDrops(v)
  BY <1>3, <1>4 DEF FailJob, Supersede
<1>5. ASSUME NEW w \in Workers, NEW m, m.job = worker[w].job, m.token = worker[w].token,
             worker' = [worker EXCEPT ![w] = m]
      PROVE  \A v \in Workers : KeepsOrDrops(v)
  BY <1>1, <1>5 DEF KeepsOrDrops
<1>6. \A w \in Workers : \A pc : Goto(w, pc) => \A v \in Workers : KeepsOrDrops(v)
  BY <1>1 DEF Goto, KeepsOrDrops, Worker
<1>7. ASSUME NEW w \in Workers, Work(w) \/ WorkRaises(w)
      PROVE  \A v \in Workers : KeepsOrDrops(v)
  <2>1. CASE LosesLease(w) \/ WorkRaises(w) \/ AISuperseded(w) \/ CheckRefused(w)
    BY <1>3, <1>4, <2>1 DEF LosesLease, WorkRaises, AISuperseded, CheckRefused
  <2>2. CASE Prepare(w)
    <3>1. \A target, a : /\ Cached(worker[w], target, a).job = worker[w].job
                         /\ Cached(worker[w], target, a).token = worker[w].token
      BY <1>1 DEF Cached, Worker
    <3>2. CASE worker' = [worker EXCEPT ![w].pc = "statistics", ![w].target = TargetOf(w, MyJob(w))]
      BY <1>1, <3>2 DEF KeepsOrDrops, Worker
    <3> QED BY <1>4, <1>5, <2>2, <3>1, <3>2 DEF Prepare
  <2>3. CASE ReadStatistics(w)
    BY <1>1, <2>3 DEF ReadStatistics, KeepsOrDrops, Worker
  <2>4. CASE ReadText(w)
    BY <1>1, <2>4 DEF ReadText, KeepsOrDrops, Worker
  <2>5. CASE PersistSnapshot(w) \/ ReadyToPublish(w) \/ GenerateStages(w) \/ ReadyToPublishAI(w)
    BY <1>4, <1>6, <2>5 DEF PersistSnapshot, ReadyToPublish, GenerateStages, ReadyToPublishAI
  <2>6. CASE StartAI(w)
    <3>1. CASE worker' = [worker EXCEPT ![w].pc = "generate", ![w].target = base.snap]
      BY <1>1, <3>1 DEF KeepsOrDrops, Worker
    <3> QED BY <1>4, <2>6, <3>1 DEF StartAI
  <2>7. CASE PublishSnapshot(w) \/ PublishStages(w)
    BY <1>3, <1>4, <2>7 DEF PublishSnapshot, PublishBase, PublishStages
  <2> QED BY <1>7, <2>1, <2>2, <2>3, <2>4, <2>5, <2>6, <2>7 DEF Work
<1>8. CASE UserNext
  BY <1>2, <1>8 DEF UserNext, InputChanges, ConfigChanges, AnalysisToggled, SourceRegistered,
                    AnalysisRequested, AIConfirmed, OutdatedRerun, CancelRequested, EnvUnchanged
<1>9. CASE TimeNext
  BY <1>2, <1>9 DEF TimeNext, LeaseExpires, BackoffElapses, EnvUnchanged
<1>10. CASE ProcessNext
  BY <1>3, <1>10 DEF ProcessNext, Killed, Restarted, Upgraded
<1>11. ASSUME NEW w \in Workers, Poll(w)
       PROVE  (\E u \in Workers, i \in JobIds : Claim(u, i)) \/ UNCHANGED worker
  <2>1. PollFindsNothing(w) => UNCHANGED worker
    BY DEF PollFindsNothing, EnvUnchanged
  <2> QED BY <1>11, <2>1 DEF Poll
<1> QED BY <1>2, <1>7, <1>8, <1>9, <1>10, <1>11 DEF Next

LEMMA TokensStep == TypeOK /\ TokensHeld /\ [Next]_vars => TokensHeld'
<1> SUFFICES ASSUME TypeOK, TokensHeld, [Next]_vars
             PROVE  TokensHeld'
  OBVIOUS
<1>1. CASE UNCHANGED vars
  BY <1>1 DEF vars, TokensHeld
<1>2. CASE Next
  <2>1. RowsStep /\ SurveyGrows
    BY <1>2, ActionRows, SurveySteps
  <2>2. \A i \in JobIds : /\ jobs'[i].attempts >= jobs[i].attempts
                          /\ jobs'[i].status = "unused" => jobs'[i].attempts = 0
    BY <2>1, RowKeeps DEF RowsStep, SurveyGrows, TypeOK, TokensHeld
  <2>3. \A i \in JobIds : jobs[i].attempts \in Nat /\ jobs'[i].attempts \in Nat
    BY <2>1 DEF RowsStep, TypeOK, Job
  <2>4. \A w \in Workers : worker[w].token \in Nat
    BY DEF TypeOK, Worker
  <2>5. CASE \A v \in Workers : KeepsOrDrops(v)
    BY <2>2, <2>3, <2>4, <2>5 DEF TokensHeld, KeepsOrDrops
  <2>6. ASSUME NEW w \in Workers, NEW i \in JobIds, Claim(w, i)
        PROVE  TokensHeld'
    <3>1. jobs'[i].token = jobs[i].attempts + 1 /\ jobs'[i].attempts = jobs[i].attempts + 1
      <4>1. Eligible(jobs[i]) /\ jobs[i] \in Job
        BY <2>6 DEF Claim, Claimable, TypeOK
      <4>2. Swept[i] = jobs[i]
        BY <4>1, ConstantsAssumption DEF Swept, Eligible, Exhausted, Job
      <4>3. jobs'[i] = Claimed(jobs[i])
        BY <2>6, <4>2 DEF Claim, Swept
      <4> QED BY <4>1, <4>3 DEF Claimed, Job
    <3>2. /\ worker'[w].job = i /\ worker'[w].token = jobs[i].attempts + 1
          /\ \A v \in Workers \ {w} : worker'[v] = worker[v]
      BY <2>6, <3>1 DEF Claim, TypeOK, Idle
    <3> QED BY <2>2, <2>3, <2>4, <3>1, <3>2 DEF TokensHeld
  <2> QED BY <1>2, <2>5, <2>6, OnlyClaimsGiveTokens
<1> QED BY <1>1, <1>2

LEMMA TokensCorrect == Spec => []TokensHeld
<1>1. Init => TokensHeld
  BY DEF Init, TokensHeld, NewJob, Idle
<1> QED BY <1>1, TokensStep, TypeCorrect, PTL DEF Spec

\* Two processes never both own one job: the one that woke up late, was reclaimed from
\* or lost its lease is refused by its token.
THEOREM OwnerCorrect == Spec => []OneOwnerPerJob
<1>1. TokensHeld => OneOwnerPerJob
  BY DEF TokensHeld, OneOwnerPerJob, HoldsClaim, MyJob
<1> QED BY <1>1, TokensCorrect, PTL

-----------------------------------------------------------------------------
(* What is published *)

\* Versions and what was computed from them.
Between(target, v) ==
    /\ target.input <= v.input /\ v.input <= survey.input
    /\ target.config <= v.config /\ v.config <= survey.config

VersionsBehind ==
    /\ \A i \in JobIds : jobs[i].input <= survey.input /\ jobs[i].config <= survey.config
    /\ base # None => base.input <= survey.input /\ base.config <= survey.config

\* The target of a worker that still holds its claim is what the claim is for.
TargetOfClaim(w) ==
    worker[w].pc \in BuildSteps \union Built /\ HoldsClaim(w) =>
        /\ worker[w].target.src = MyJob(w).src
        /\ worker[w].target.input = MyJob(w).input
        /\ worker[w].target.config = MyJob(w).config

\* Everything read for a target is not older than the target.
ResultsFresh ==
    /\ \A w \in Workers :
          /\ worker[w].pc \in BuildSteps \union Built => Between(worker[w].target, CurrentVersion)
          /\ worker[w].pc \in {"text"} \union Built => Between(worker[w].target, worker[w].stats)
          /\ worker[w].pc \in Built => Between(worker[w].target, worker[w].text)
    /\ \A a \in artifacts : Between(a.file[2], a.stats) /\ Between(a.file[2], a.text)

SavedSnapshots ==
    \A w \in Workers : worker[w].pc \in {"saved", "publish"} => MySnapshot(w) \in snapshots

PublicationInv ==
    /\ VersionsBehind /\ ResultsFresh /\ SavedSnapshots
    /\ \A w \in Workers : TargetOfClaim(w)

\* The steps of one process that concern the results it holds.
ResultStep(v) ==
    \/ worker'[v] = worker[v]
    \/ worker'[v].pc \notin BuildSteps \union Built
    \/ /\ worker'[v].job = worker[v].job /\ worker'[v].token = worker[v].token
       /\ worker'[v].target = TargetOf(v, MyJob(v))
       /\ worker[v].job \in JobIds /\ HoldsClaim(v)
       /\ \/ worker'[v].pc = "statistics"
          \/ /\ worker'[v].pc = "built"
             /\ \E a \in artifacts : /\ a.file[2] = worker'[v].target
                                     /\ worker'[v].stats = a.stats /\ worker'[v].text = a.text
    \/ /\ worker'[v].job = worker[v].job /\ worker'[v].token = worker[v].token
       /\ worker'[v].target = worker[v].target
       /\ \/ /\ worker[v].pc = "statistics" /\ worker'[v].pc = "text"
             /\ worker'[v].stats = CurrentVersion
          \/ /\ worker[v].pc = "text" /\ worker'[v].pc = "built"
             /\ worker'[v].stats = worker[v].stats /\ worker'[v].text = CurrentVersion
          \/ /\ worker[v].pc \in Built /\ worker'[v].pc \in {"saved", "publish"}
             /\ worker'[v].stats = worker[v].stats /\ worker'[v].text = worker[v].text
             /\ worker[v].pc = "built" => MySnapshot(v) \in snapshots'

ArtifactsStep ==
    \A a \in artifacts' :
        \/ a \in artifacts
        \/ \E v \in Workers :
              /\ worker[v].pc = "text" /\ a.file[2] = worker[v].target
              /\ a.stats = worker[v].stats /\ a.text = CurrentVersion

BaseStep(w) ==
    /\ At(w, "publish") /\ HoldsClaim(w) /\ ClaimIsCurrent(MyJob(w))
    /\ base' = ManifestOf(w) /\ UNCHANGED <<survey, snapshots>>

LEMMA FilesAndBaseSteps ==
    ASSUME TypeOK, Next
    PROVE  /\ snapshots \subseteq snapshots' /\ ArtifactsStep
           /\ UNCHANGED base \/ \E w \in Workers : BaseStep(w)
<1>1. CASE UNCHANGED <<artifacts, snapshots, base>>
  BY <1>1 DEF ArtifactsStep
<1>2. CASE UserNext
  BY <1>1, <1>2 DEF UserNext, InputChanges, ConfigChanges, AnalysisToggled, SourceRegistered,
         AnalysisRequested, AIConfirmed, OutdatedRerun, CancelRequested, EnvUnchanged, files, published
<1>3. CASE TimeNext \/ ProcessNext
  BY <1>1, <1>3 DEF TimeNext, ProcessNext, LeaseExpires, BackoffElapses, EnvUnchanged, Killed,
         Restarted, Upgraded, files, published
<1>4. ASSUME NEW w \in Workers, Poll(w) \/ WorkRaises(w) \/ (Work(w) /\ ~ReadText(w) /\ ~PersistSnapshot(w) /\ ~PublishSnapshot(w))
      PROVE  UNCHANGED <<artifacts, snapshots, base>>
  BY <1>4 DEF Poll, Claim, PollFindsNothing, EnvUnchanged, files, published, Work, WorkRaises, LosesLease,
         Prepare, ReadStatistics, ReadyToPublish, AISuperseded, CheckRefused, StartAI, GenerateStages,
         ReadyToPublishAI, PublishStages
<1>5. ASSUME NEW w \in Workers, ReadText(w)
      PROVE  UNCHANGED <<snapshots, base>> /\ ArtifactsStep
  BY <1>5 DEF ReadText, At, published, ArtifactsStep
<1>6. ASSUME NEW w \in Workers, PersistSnapshot(w)
      PROVE  UNCHANGED <<artifacts, base>> /\ snapshots \subseteq snapshots'
  BY <1>6 DEF PersistSnapshot, published
<1>7. ASSUME NEW w \in Workers, PublishSnapshot(w)
      PROVE  UNCHANGED <<artifacts, snapshots>> /\ (UNCHANGED base \/ BaseStep(w))
  BY <1>7 DEF PublishSnapshot, PublishBase, ClaimRefused, BaseStep, files
<1>8. ASSUME NEW w \in Workers, Poll(w) \/ Work(w) \/ WorkRaises(w)
      PROVE  /\ snapshots \subseteq snapshots' /\ ArtifactsStep
             /\ UNCHANGED base \/ BaseStep(w)
  <2>1. UNCHANGED artifacts => ArtifactsStep
    BY DEF ArtifactsStep
  <2> QED BY <1>4, <1>5, <1>6, <1>7, <1>8, <2>1
<1> QED BY <1>2, <1>3, <1>8 DEF Next

LEMMA ResultSteps ==
    ASSUME TypeOK, Next
    PROVE  \A v \in Workers : ResultStep(v)
<1>1. worker \in [Workers -> Worker] /\ \A w \in Workers : MemoryOK(worker[w])
  BY DEF TypeOK
<1>2. CASE UNCHANGED worker
  BY <1>2 DEF ResultStep
<1>3. ASSUME NEW w \in Workers, NEW n, n.pc \notin BuildSteps \union Built,
             worker' = [worker EXCEPT ![w] = n]
      PROVE  \A v \in Workers : ResultStep(v)
  BY <1>1, <1>3 DEF ResultStep
<1>4. \A w \in Workers : \/ worker' = [worker EXCEPT ![w] = Idle]
                         \/ worker' = [worker EXCEPT ![w] = Down]
                         => \A v \in Workers : ResultStep(v)
  <2>1. Idle.pc \notin BuildSteps \union Built /\ Down.pc \notin BuildSteps \union Built
    BY DEF Idle, Down, BuildSteps, Built
  <2> QED BY <1>3, <2>1
<1>5. ASSUME NEW w \in Workers, NEW retryable, FailJob(w, retryable) \/ Supersede(w)
      PROVE  \A v \in Workers : ResultStep(v)
  BY <1>4, <1>5 DEF FailJob, Supersede
<1>6. CASE UserNext \/ TimeNext
  BY <1>2, <1>6 DEF UserNext, TimeNext, InputChanges, ConfigChanges, AnalysisToggled, SourceRegistered,
         AnalysisRequested, AIConfirmed, OutdatedRerun, CancelRequested, LeaseExpires,
         BackoffElapses, EnvUnchanged
<1>7. CASE ProcessNext
  BY <1>4, <1>7 DEF ProcessNext, Killed, Restarted, Upgraded
<1>8. ASSUME NEW w \in Workers, Poll(w)
      PROVE  \A v \in Workers : ResultStep(v)
  <2>1. CASE PollFindsNothing(w)
    BY <1>2, <2>1 DEF PollFindsNothing, EnvUnchanged
  <2>2. ASSUME NEW i \in JobIds, Claim(w, i)
        PROVE  \A v \in Workers : ResultStep(v)
    <3> DEFINE n == [Idle EXCEPT !.pc = FirstStep(jobs[i].executor), !.job = i, !.token = jobs'[i].token]
    <3>1. n.pc \notin BuildSteps \union Built
      BY DEF Idle, FirstStep, BuildSteps, Built
    <3>2. worker' = [worker EXCEPT ![w] = n]
      BY <2>2 DEF Claim
    <3> HIDE DEF n
    <3> QED BY <1>3, <3>1, <3>2
  <2> QED BY <1>8, <2>1, <2>2 DEF Poll
<1>9. ASSUME NEW w \in Workers, Work(w) \/ WorkRaises(w)
      PROVE  \A v \in Workers : ResultStep(v)
  <2>1. ASSUME NEW n, worker' = [worker EXCEPT ![w] = n], ResultStep(w)
        PROVE  \A v \in Workers : ResultStep(v)
    BY <1>1, <2>1 DEF ResultStep
  <2>2. CASE LosesLease(w) \/ WorkRaises(w) \/ AISuperseded(w) \/ CheckRefused(w)
    BY <1>4, <1>5, <2>2 DEF LosesLease, WorkRaises, AISuperseded, CheckRefused
  <2>3. CASE Prepare(w)
    <3>1. worker[w].job \in JobIds /\ HoldsClaim(w)
      BY <1>1, <2>3 DEF Prepare, At, MemoryOK, HeartbeatAccepted
    <3>2. CASE \E a \in artifacts : /\ a.file = <<RootOf[w], TargetOf(w, MyJob(w))>>
                                    /\ worker' = [worker EXCEPT ![w] = Cached(@, TargetOf(w, MyJob(w)), a)]
      <4>1. PICK a \in artifacts : /\ a.file = <<RootOf[w], TargetOf(w, MyJob(w))>>
                                  /\ worker' = [worker EXCEPT ![w] = Cached(@, TargetOf(w, MyJob(w)), a)]
        BY <3>2
      <4>2. ResultStep(w)
        <5>1. worker'[w] = Cached(worker[w], TargetOf(w, MyJob(w)), a)
          BY <1>1, <4>1
        <5>2. /\ worker'[w].job = worker[w].job /\ worker'[w].token = worker[w].token
              /\ worker'[w].target = TargetOf(w, MyJob(w)) /\ worker'[w].pc = "built"
              /\ worker'[w].stats = a.stats /\ worker'[w].text = a.text
          BY <1>1, <5>1 DEF Cached, Worker
        <5>3. a.file[2] = worker'[w].target
          BY <4>1, <5>2
        <5> QED BY <3>1, <5>2, <5>3 DEF ResultStep
      <4> QED BY <2>1, <4>1, <4>2
    <3>3. CASE worker' = [worker EXCEPT ![w].pc = "statistics", ![w].target = TargetOf(w, MyJob(w))]
      <4>1. ResultStep(w)
        BY <1>1, <3>1, <3>3 DEF ResultStep, Worker
      <4> QED BY <2>1, <3>3, <4>1
    <3> QED BY <1>5, <2>3, <3>2, <3>3 DEF Prepare
  <2>4. CASE ReadStatistics(w)
    <3>1. ResultStep(w)
      BY <1>1, <2>4 DEF ReadStatistics, At, ResultStep, Worker
    <3> QED BY <2>1, <2>4, <3>1 DEF ReadStatistics
  <2>5. CASE ReadText(w)
    <3>1. ResultStep(w)
      BY <1>1, <2>5 DEF ReadText, At, ResultStep, Worker
    <3> QED BY <2>1, <2>5, <3>1 DEF ReadText
  <2>6. CASE PersistSnapshot(w)
    <3>1. CASE MySnapshot(w) \in snapshots' /\ Goto(w, "saved")
      <4>1. ResultStep(w)
        BY <1>1, <2>6, <3>1 DEF PersistSnapshot, At, Goto, ResultStep, Worker, Built
      <4> QED BY <2>1, <3>1, <4>1 DEF Goto
    <3> QED BY <1>5, <2>6, <3>1 DEF PersistSnapshot
  <2>7. CASE ReadyToPublish(w)
    <3>1. ResultStep(w)
      BY <1>1, <2>7 DEF ReadyToPublish, At, Goto, ResultStep, Worker, Built
    <3> QED BY <2>1, <2>7, <3>1 DEF ReadyToPublish, Goto
  <2>8. CASE GenerateStages(w) \/ ReadyToPublishAI(w) \/ StartAI(w)
    <3>1. CASE \E pc \in {"generated", "publish_ai"} : worker' = [worker EXCEPT ![w].pc = pc]
      BY <1>1, <1>3, <3>1 DEF Worker, BuildSteps, Built
    <3>2. CASE worker' = [worker EXCEPT ![w].pc = "generate", ![w].target = base.snap]
      BY <1>1, <1>3, <3>2 DEF Worker, BuildSteps, Built
    <3> QED BY <1>5, <2>8, <3>1, <3>2 DEF GenerateStages, ReadyToPublishAI, StartAI, Goto
  <2>9. CASE PublishSnapshot(w) \/ PublishStages(w)
    BY <1>4, <1>5, <2>9 DEF PublishSnapshot, PublishBase, PublishStages
  <2> QED BY <1>9, <2>2, <2>3, <2>4, <2>5, <2>6, <2>7, <2>8, <2>9 DEF Work
<1> QED BY <1>6, <1>7, <1>8, <1>9 DEF Next

LEMMA RowVersions ==
    ASSUME NEW j \in Job, NEW sv \in SurveyState, NEW k, RowStep(j, k, sv),
           j.input <= sv.input, j.config <= sv.config
    PROVE  k.input <= sv.input /\ k.config <= sv.config
<1>1. sv.input \in Nat /\ sv.config \in Nat
  BY DEF SurveyState
<1>2. ASSUME NEW src, NEW executor, k = NewJob(sv, src, executor)
      PROVE  k.input = sv.input /\ k.config = sv.config
  BY <1>2 DEF NewJob
<1>3. k = Coalesced(j, sv) => k.input = sv.input /\ k.config = sv.config
  BY DEF Coalesced, Job
<1>4. k \in {j, CancelAsked(j), Claimed(j), [j EXCEPT !.status = "cancelled"], [j EXCEPT !.due = TRUE],
             [j EXCEPT !.lease = "expired"], [j EXCEPT !.status = "failed", !.token = 0],
             Released(j, "cancelled"), Released(j, "succeeded")} => k.input = j.input /\ k.config = j.config
  BY DEF CancelAsked, Claimed, Released, Job
<1>5. ASSUME NEW retryable \in BOOLEAN, k = Failed(j, retryable)
      PROVE  k.input = j.input /\ k.config = j.config
  BY <1>5 DEF Failed, Released, Job
<1> QED BY <1>1, <1>2, <1>3, <1>4, <1>5 DEF RowStep

LEMMA VersionsStep ==
    ASSUME TypeOK, VersionsBehind, Next
    PROVE  VersionsBehind'
<1>1. RowsStep /\ SurveyGrows
  BY ActionRows, SurveySteps
<1>2. survey \in SurveyState /\ jobs \in [JobIds -> Job]
  BY DEF TypeOK
<1>3. /\ survey.input \in Nat /\ survey.config \in Nat
      /\ survey'.input \in Nat /\ survey'.config \in Nat
  BY <1>1, <1>2 DEF SurveyGrows, SurveyState
<1>4. ASSUME NEW i \in JobIds
      PROVE  jobs'[i].input <= survey'.input /\ jobs'[i].config <= survey'.config
  <2>1. jobs[i].input \in Nat /\ jobs[i].config \in Nat
    BY <1>2 DEF Job
  <2>2. jobs[i].input <= survey'.input /\ jobs[i].config <= survey'.config
    BY <1>1, <1>3, <2>1 DEF SurveyGrows, VersionsBehind
  <2> QED BY <1>1, <1>2, <2>2, RowVersions DEF RowsStep, SurveyGrows
<1>5. base' # None => base'.input <= survey'.input /\ base'.config <= survey'.config
  <2>1. CASE UNCHANGED base
    <3>1. base # None => base.input \in Nat /\ base.config \in Nat
      BY DEF TypeOK, Maybe, Manifest
    <3> QED BY <1>1, <1>3, <2>1, <3>1 DEF SurveyGrows, VersionsBehind
  <2>2. ASSUME NEW w \in Workers, BaseStep(w)
        PROVE  base'.input = survey'.input /\ base'.config = survey'.config
    BY <2>2 DEF BaseStep, ManifestOf, ClaimIsCurrent, VersionsAreCurrent
  <2> QED BY <1>3, <2>1, <2>2, FilesAndBaseSteps
<1> QED BY <1>4, <1>5 DEF VersionsBehind

\* What lies between a target and the current versions keeps doing so.
LEMMA BetweenStep ==
    ASSUME TypeOK, SurveyGrows, NEW target \in Target, NEW v \in Version, Between(target, v)
    PROVE  Between(target, v)'
BY DEF TypeOK, SurveyGrows, SurveyState, Target, Version, Between

LEMMA FreshStep ==
    ASSUME TypeOK, VersionsBehind, ResultsFresh, Next
    PROVE  ResultsFresh'
<1>1. SurveyGrows /\ ArtifactsStep /\ \A v \in Workers : ResultStep(v)
  BY SurveySteps, FilesAndBaseSteps, ResultSteps
<1>2. survey \in SurveyState /\ jobs \in [JobIds -> Job] /\ CurrentVersion \in Version
  BY DEF TypeOK, SurveyState, CurrentVersion, Version
<1>3. ASSUME NEW target \in Target, Between(target, CurrentVersion)
      PROVE  Between(target, CurrentVersion)'
  BY <1>1, <1>2, <1>3 DEF SurveyGrows, SurveyState, Target, Between, CurrentVersion
<1>4. ASSUME NEW v \in Workers
      PROVE  /\ worker[v].pc \in {"statistics", "text"} \union Built => worker[v].target \in Target
             /\ worker[v].pc \in {"text"} \union Built => worker[v].stats \in Version
             /\ worker[v].pc \in Built => worker[v].text \in Version
  BY DEF TypeOK, MemoryOK
<1>5. ASSUME NEW a \in artifacts
      PROVE  a.file[2] \in Target /\ a.stats \in Version /\ a.text \in Version
  BY DEF TypeOK
<1>6. ASSUME NEW v \in Workers
      PROVE  /\ worker'[v].pc \in BuildSteps \union Built => Between(worker[v].target, CurrentVersion)'
             /\ worker'[v].pc \in {"text"} \union Built => Between(worker[v].target, worker[v].stats)'
             /\ worker'[v].pc \in Built => Between(worker[v].target, worker[v].text)'
  <2>1. CASE worker'[v] = worker[v]
    BY <1>1, <1>3, <1>4, <2>1, BetweenStep DEF ResultsFresh, BuildSteps
  <2>2. CASE worker'[v].pc \notin BuildSteps \union Built
    BY <2>2 DEF BuildSteps
  <2>3. ASSUME worker[v].job \in JobIds
        PROVE  /\ TargetOf(v, MyJob(v)) \in Target
               /\ Between(TargetOf(v, MyJob(v)), CurrentVersion)
    <3>1. MyJob(v) \in Job /\ code[v] \in Nat
      BY <1>2, <2>3 DEF MyJob, TypeOK
    <3>2. TargetOf(v, MyJob(v)) \in Target
      BY <3>1 DEF TargetOf, Target, Job
    <3>3. MyJob(v).input <= survey.input /\ MyJob(v).config <= survey.config
      BY <2>3 DEF MyJob, VersionsBehind
    <3> QED BY <1>2, <3>1, <3>2, <3>3 DEF TargetOf, Between, CurrentVersion, Job, SurveyState
  <2>4. CASE /\ worker[v].job \in JobIds /\ worker'[v].pc = "statistics"
             /\ worker'[v].target = TargetOf(v, MyJob(v))
    BY <1>3, <2>3, <2>4 DEF Built
  <2>5. CASE /\ worker[v].job \in JobIds /\ worker'[v].pc = "built"
             /\ worker'[v].target = TargetOf(v, MyJob(v))
             /\ \E a \in artifacts : /\ a.file[2] = worker'[v].target
                                     /\ worker'[v].stats = a.stats /\ worker'[v].text = a.text
    <3>1. PICK a \in artifacts : /\ a.file[2] = worker'[v].target
                                /\ worker'[v].stats = a.stats /\ worker'[v].text = a.text
      BY <2>5
    <3>2. Between(a.file[2], a.stats) /\ Between(a.file[2], a.text)
      BY DEF ResultsFresh
    <3>3. Between(a.file[2], a.stats)' /\ Between(a.file[2], a.text)'
      BY <1>1, <1>5, <3>2, BetweenStep
    <3> QED BY <1>3, <2>3, <2>5, <3>1, <3>3
  <2>6. CASE /\ worker'[v].target = worker[v].target
             /\ worker[v].pc = "statistics" /\ worker'[v].pc = "text"
             /\ worker'[v].stats = CurrentVersion
    <3>1. Between(worker[v].target, CurrentVersion)
      BY <2>6 DEF ResultsFresh, BuildSteps
    <3> QED BY <1>1, <1>2, <1>3, <1>4, <2>6, <3>1, BetweenStep DEF Built
  <2>7. CASE /\ worker'[v].target = worker[v].target
             /\ worker[v].pc = "text" /\ worker'[v].pc = "built"
             /\ worker'[v].stats = worker[v].stats /\ worker'[v].text = CurrentVersion
    <3>1. Between(worker[v].target, CurrentVersion) /\ Between(worker[v].target, worker[v].stats)
      BY <2>7 DEF ResultsFresh, BuildSteps
    <3> QED BY <1>1, <1>2, <1>3, <1>4, <2>7, <3>1, BetweenStep
  <2>8. CASE /\ worker'[v].target = worker[v].target
             /\ worker[v].pc \in Built /\ worker'[v].pc \in {"saved", "publish"}
             /\ worker'[v].stats = worker[v].stats /\ worker'[v].text = worker[v].text
    <3>1. /\ Between(worker[v].target, CurrentVersion) /\ Between(worker[v].target, worker[v].stats)
          /\ Between(worker[v].target, worker[v].text)
      BY <2>8 DEF ResultsFresh
    <3> QED BY <1>1, <1>3, <1>4, <2>8, <3>1, BetweenStep
  <2> QED BY <1>1, <2>1, <2>2, <2>4, <2>5, <2>6, <2>7, <2>8 DEF ResultStep
<1>7. ASSUME NEW a \in artifacts'
      PROVE  Between(a.file[2], a.stats)' /\ Between(a.file[2], a.text)'
  <2>1. CASE a \in artifacts
    BY <1>1, <1>5, <2>1, BetweenStep DEF ResultsFresh
  <2>2. ASSUME NEW v \in Workers, worker[v].pc = "text", a.file[2] = worker[v].target,
               a.stats = worker[v].stats, a.text = CurrentVersion
        PROVE  Between(a.file[2], a.stats)' /\ Between(a.file[2], a.text)'
    <3>1. Between(worker[v].target, CurrentVersion) /\ Between(worker[v].target, worker[v].stats)
      BY <2>2 DEF ResultsFresh, BuildSteps
    <3> QED BY <1>1, <1>2, <1>4, <2>2, <3>1, BetweenStep
  <2> QED BY <1>1, <2>1, <2>2 DEF ArtifactsStep
<1> QED BY <1>6, <1>7 DEF ResultsFresh

LEMMA SavedStep ==
    ASSUME TypeOK, SavedSnapshots, Next
    PROVE  SavedSnapshots'
<1>1. snapshots \subseteq snapshots' /\ \A v \in Workers : ResultStep(v)
  BY FilesAndBaseSteps, ResultSteps
<1>2. ASSUME NEW v \in Workers, worker'[v].pc \in {"saved", "publish"}
      PROVE  MySnapshot(v)' \in snapshots'
  <2>1. /\ worker'[v].target = worker[v].target /\ worker'[v].stats = worker[v].stats
        /\ worker'[v].text = worker[v].text
        /\ \/ worker[v].pc \in {"saved", "publish"}
           \/ MySnapshot(v) \in snapshots'
    BY <1>1, <1>2 DEF ResultStep, BuildSteps, Built
  <2>2. MySnapshot(v)' = MySnapshot(v)
    BY <2>1 DEF MySnapshot
  <2> QED BY <1>1, <2>1, <2>2 DEF SavedSnapshots
<1> QED BY <1>2 DEF SavedSnapshots

LEMMA TargetStep ==
    ASSUME TypeOK, TokensHeld, \A w \in Workers : TargetOfClaim(w), Next
    PROVE  \A w \in Workers : TargetOfClaim(w)'
<1> SUFFICES ASSUME NEW w \in Workers, worker'[w].pc \in BuildSteps \union Built, HoldsClaim(w)'
             PROVE  /\ worker'[w].target.src = jobs'[worker'[w].job].src
                    /\ worker'[w].target.input = jobs'[worker'[w].job].input
                    /\ worker'[w].target.config = jobs'[worker'[w].job].config
  BY DEF TargetOfClaim, MyJob
<1> DEFINE i == worker[w].job
<1>1. RowsStep /\ SurveyGrows /\ ResultStep(w) /\ TypeOK'
  BY ActionRows, SurveySteps, ResultSteps, TypeStep
<1>2. /\ worker'[w].job = i /\ worker'[w].token = worker[w].token
      /\ \/ worker[w].pc \in BuildSteps \union Built /\ worker'[w].target = worker[w].target
         \/ HoldsClaim(w) /\ worker'[w].target = TargetOf(w, MyJob(w))
  BY <1>1 DEF ResultStep, BuildSteps
<1>3. i \in JobIds /\ i # None
  <2>1. worker'[w].job \in JobIds
    BY <1>1 DEF TypeOK, MemoryOK, BuildSteps, Built
  <2> QED BY <1>2, <2>1, ConstantsAssumption
<1>4. worker[w].token <= jobs[i].attempts /\ worker[w].token \in Nat /\ jobs[i].attempts \in Nat
  BY <1>3 DEF TokensHeld, TypeOK, Worker, Job
<1>5. jobs'[i].status = "running" /\ jobs'[i].token = worker[w].token
  BY <1>2 DEF HoldsClaim, MyJob
<1>6. /\ jobs'[i].src = jobs[i].src /\ jobs'[i].input = jobs[i].input /\ jobs'[i].config = jobs[i].config
      /\ jobs'[i].token = jobs[i].attempts + 1 \/ (jobs'[i].token = jobs[i].token /\ jobs[i].status = "running")
  BY <1>1, <1>3, <1>5, RowKeeps DEF RowsStep, SurveyGrows, TypeOK, TokensHeld
<1>7. HoldsClaim(w)
  BY <1>4, <1>5, <1>6 DEF HoldsClaim, MyJob
<1>8. CASE worker[w].pc \in BuildSteps \union Built /\ worker'[w].target = worker[w].target
  BY <1>2, <1>6, <1>7, <1>8 DEF TargetOfClaim, MyJob
<1>9. CASE worker'[w].target = TargetOf(w, MyJob(w))
  BY <1>2, <1>6, <1>9 DEF TargetOf, MyJob
<1> QED BY <1>2, <1>8, <1>9

LEMMA PublicationStep == TypeOK /\ TokensHeld /\ PublicationInv /\ [Next]_vars => PublicationInv'
<1> SUFFICES ASSUME TypeOK, TokensHeld, PublicationInv, [Next]_vars
             PROVE  PublicationInv'
  OBVIOUS
<1>1. CASE UNCHANGED vars
  BY <1>1 DEF vars, PublicationInv, VersionsBehind, ResultsFresh, SavedSnapshots, TargetOfClaim,
              Between, CurrentVersion, MySnapshot, HoldsClaim, MyJob
<1>2. CASE Next
  BY <1>2, VersionsStep, FreshStep, SavedStep, TargetStep DEF PublicationInv
<1> QED BY <1>1, <1>2

LEMMA PublicationInvariant == Spec => []PublicationInv
<1>1. Init => PublicationInv
  BY DEF Init, NewJob, Idle, PublicationInv, VersionsBehind, ResultsFresh, SavedSnapshots, TargetOfClaim,
         BuildSteps, Built
<1> QED BY <1>1, PublicationStep, TypeCorrect, TokensCorrect, PTL DEF Spec

\* When a publication passes its checks, the results the worker holds, wherever they
\* came from and whenever they were read, are those of the current versions.
LEMMA PublishesCurrent ==
    ASSUME TypeOK, PublicationInv, NEW w \in Workers, BaseStep(w)
    PROVE  /\ base'.src = base'.snap.src /\ ManifestVersion(base'.snap) = ManifestVersion(base')
           /\ MySnapshot(w) = [target |-> base'.snap, stats |-> ManifestVersion(base'),
                               text |-> ManifestVersion(base')]
           /\ MySnapshot(w) \in snapshots
<1> DEFINE m == worker[w]
<1>1. m.pc = "publish" /\ m.target \in Target /\ m.stats \in Version /\ m.text \in Version
  BY DEF BaseStep, At, TypeOK, MemoryOK, Built
<1>2. /\ m.target.src = MyJob(w).src /\ m.target.input = MyJob(w).input /\ m.target.config = MyJob(w).config
  BY <1>1 DEF BaseStep, PublicationInv, TargetOfClaim, Built
<1>3. MyJob(w).input = survey.input /\ MyJob(w).config = survey.config
  BY DEF BaseStep, ClaimIsCurrent, VersionsAreCurrent
<1>4. Between(m.target, m.stats) /\ Between(m.target, m.text)
  BY <1>1 DEF PublicationInv, ResultsFresh, Built
<1>5. survey.input \in Nat /\ survey.config \in Nat
  BY DEF TypeOK, SurveyState
<1>6. /\ m.stats.input = survey.input /\ m.stats.config = survey.config
      /\ m.text.input = survey.input /\ m.text.config = survey.config
  BY <1>1, <1>2, <1>3, <1>4, <1>5 DEF Between, Version, Target
<1>7. m.stats = [input |-> survey.input, config |-> survey.config] /\ m.text = m.stats
  BY <1>1, <1>6 DEF Version
<1>8. base' = [snap |-> m.target, src |-> MyJob(w).src, input |-> survey.input, config |-> survey.config]
  BY <1>3 DEF BaseStep, ManifestOf
<1>9. MySnapshot(w) \in snapshots
  BY <1>1 DEF PublicationInv, SavedSnapshots
<1> QED BY <1>2, <1>3, <1>7, <1>8, <1>9 DEF ManifestVersion, MySnapshot

\* The published statistics and text were computed from the data that the manifest
\* names, whichever workers, attempts, files and moments they came from.
THEOREM PublicationCorrect == Spec => []PublishedDataMatchesManifest
<1>1. Init => PublishedDataMatchesManifest
  BY DEF Init, PublishedDataMatchesManifest
<1>2. TypeOK /\ PublicationInv /\ PublishedDataMatchesManifest /\ [Next]_vars => PublishedDataMatchesManifest'
  <2> SUFFICES ASSUME TypeOK, PublicationInv, PublishedDataMatchesManifest, [Next]_vars
               PROVE  PublishedDataMatchesManifest'
    OBVIOUS
  <2>1. CASE UNCHANGED <<base, snapshots>>
    BY <2>1 DEF PublishedDataMatchesManifest, ManifestVersion
  <2>2. CASE Next
    <3>1. CASE UNCHANGED base
      <4>1. snapshots \subseteq snapshots'
        BY <2>2, FilesAndBaseSteps
      <4> QED BY <3>1, <4>1 DEF PublishedDataMatchesManifest, ManifestVersion
    <3>2. ASSUME NEW w \in Workers, BaseStep(w)
          PROVE  PublishedDataMatchesManifest'
      <4>1. UNCHANGED snapshots
        BY <3>2 DEF BaseStep
      <4> QED BY <3>2, <4>1, PublishesCurrent DEF PublishedDataMatchesManifest, ManifestVersion
    <3> QED BY <2>2, <3>1, <3>2, FilesAndBaseSteps
  <2> QED BY <2>1, <2>2 DEF vars
<1> QED BY <1>1, <1>2, TypeCorrect, PublicationInvariant, PTL DEF Spec

\* No publication goes back to older answers or older settings.
THEOREM PublicationAdvances == Spec => PublishedNeverRegresses
<1>1. TypeOK /\ PublicationInv /\ [Next]_vars
         => [base # None => base'.input >= base.input /\ base'.config >= base.config]_base
  <2> SUFFICES ASSUME TypeOK, PublicationInv, [Next]_vars, base' # base, base # None
               PROVE  base'.input >= base.input /\ base'.config >= base.config
    OBVIOUS
  <2>1. PICK w \in Workers : BaseStep(w)
    BY FilesAndBaseSteps DEF vars
  <2>2. base'.input = survey.input /\ base'.config = survey.config
    BY <2>1 DEF BaseStep, ManifestOf, ClaimIsCurrent, VersionsAreCurrent
  <2>3. base.input \in Nat /\ base.config \in Nat /\ survey.input \in Nat /\ survey.config \in Nat
    BY DEF TypeOK, Maybe, Manifest, SurveyState
  <2> QED BY <2>2, <2>3 DEF PublicationInv, VersionsBehind
<1> QED BY <1>1, TypeCorrect, PublicationInvariant, PTL DEF Spec, PublishedNeverRegresses

\* AI text is published beside the very base it was generated from, whatever was published,
\* upgraded or queued between the provider calls and the publication.
THEOREM AIKeepsItsBase == Spec => AIPublishedWithItsBase
<1>1. ASSUME TypeOK, Next, ai' # ai
      PROVE  /\ base' = base /\ ai'.snap = base.snap /\ ai'.src = base.src
             /\ ManifestVersion(ai') = ManifestVersion(base)
  <2>1. PICK w \in Workers : PublishStages(w) /\ ai' # ai
    BY <1>1 DEF Next, UserNext, TimeNext, ProcessNext, InputChanges, ConfigChanges, AnalysisToggled,
         SourceRegistered, AnalysisRequested, AIConfirmed, OutdatedRerun, CancelRequested, LeaseExpires,
         BackoffElapses, EnvUnchanged, published, Killed, Restarted, Upgraded, Poll, Claim, PollFindsNothing,
         Work, WorkRaises, LosesLease, Prepare, ReadStatistics, ReadText, PersistSnapshot, ReadyToPublish,
         PublishSnapshot, AISuperseded, CheckRefused, StartAI, GenerateStages, ReadyToPublishAI
  <2>2. BaseIsCurrent(w) /\ ai' = ManifestOf(w) /\ base' = base
    BY <2>1 DEF PublishStages
  <2> QED BY <2>2 DEF BaseIsCurrent, ManifestOf, ManifestVersion
<1>2. TypeOK /\ [Next]_vars =>
         [ai' # ai => /\ base' = base /\ ai'.snap = base.snap /\ ai'.src = base.src
                      /\ ManifestVersion(ai') = ManifestVersion(base)]_published
  BY <1>1 DEF vars, published
<1> QED BY <1>2, TypeCorrect, PTL DEF Spec, AIPublishedWithItsBase

-----------------------------------------------------------------------------
(* No change is lost *)

\* A row that accounts for version sv of the survey.
AccountsFor(j, sv) ==
    /\ j.executor = "deterministic" /\ j.src = sv.src
    /\ j.input = sv.input /\ j.config = sv.config
    /\ \/ j.status \in {"pending", "running", "succeeded", "failed"}
       \/ j.status = "cancelled" /\ j.cancel

Dropped(i) == jobs'[i] # jobs[i] /\ jobs'[i].status = "cancelled" /\ ~jobs'[i].cancel

LEMMA RowAccounts ==
    ASSUME NEW j \in Job, NEW sv \in SurveyState, NEW k, RowStep(j, k, sv), AccountsFor(j, sv),
           k # j => k.status # "cancelled" \/ k.cancel
    PROVE  AccountsFor(k, sv)
<1> DEFINE same == /\ k.executor = j.executor /\ k.src = j.src /\ k.input = j.input /\ k.config = j.config
<1>1. j.status # "unused"
  BY DEF AccountsFor
<1>2. k = j \/ k = CancelAsked(j) => same /\ k.status \in {j.status, "cancelled"}
  BY DEF CancelAsked, Job
<1>3. k = Coalesced(j, sv) =>
        /\ k.executor = j.executor /\ k.src = j.src /\ k.input = sv.input /\ k.config = sv.config
        /\ k.status = j.status
  BY DEF Coalesced, Job
<1>4. k \in {Claimed(j), [j EXCEPT !.status = "cancelled"], [j EXCEPT !.due = TRUE],
             [j EXCEPT !.lease = "expired"], [j EXCEPT !.status = "failed", !.token = 0],
             Released(j, "cancelled"), Released(j, "succeeded")}
         => same /\ k.status \in {j.status, "running", "cancelled", "failed", "succeeded"}
  BY DEF Claimed, Released, Job
<1>5. ASSUME NEW retryable \in BOOLEAN, k = Failed(j, retryable)
      PROVE  same /\ k.status \in {"pending", "failed", "cancelled"}
  BY <1>5 DEF Failed, Released, Job
<1> QED BY <1>1, <1>2, <1>3, <1>4, <1>5 DEF RowStep, AccountsFor

\* A schedule for an enabled survey leaves its statistics row waiting.
LEMMA ScheduleAccounts ==
    ASSUME NEW js \in [JobIds -> Job], NEW sv \in SurveyState, sv.enabled,
           Schedule(js, sv, "deterministic")
    PROVE  \E i \in JobIds : AccountsFor(jobs'[i], sv)
<1> DEFINE kept == CancelPending(js, {sv.src})
<1>1. kept \in [JobIds -> Job] /\ sv.src \in Sources
  BY CancelPendingType DEF SurveyState
<1>2. HasRoom(kept, sv.src, "deterministic") /\ jobs' = EnsurePending(kept, sv, sv.src, "deterministic")
  BY DEF Schedule
<1> HIDE DEF kept
<1>3. PICK i \in JobIds :
        \/ /\ i \in Waiting(kept, sv.src, "deterministic")
           /\ jobs'[i] = Coalesced(kept[i], sv)
        \/ jobs'[i] = NewJob(sv, sv.src, "deterministic")
  BY <1>1, <1>2, EnsurePendingRows DEF Executors
<1>4. kept[i] \in Job
  BY <1>1
<1>5. AccountsFor(NewJob(sv, sv.src, "deterministic"), sv)
  BY DEF NewJob, AccountsFor
<1>6. ASSUME i \in Waiting(kept, sv.src, "deterministic")
      PROVE  AccountsFor(Coalesced(kept[i], sv), sv)
  <2>1. kept[i].status = "pending" /\ kept[i].executor = "deterministic" /\ kept[i].src = sv.src
    BY <1>6 DEF Waiting
  <2> QED BY <1>4, <2>1 DEF Coalesced, AccountsFor, Job
<1> QED BY <1>3, <1>5, <1>6

\* A schedule for the same versions does not drop the rows of the survey's binding.
LEMMA ScheduleKeeps ==
    ASSUME NEW js \in [JobIds -> Job], survey \in SurveyState, survey.enabled,
           NEW executor \in Executors, Schedule(js, survey, executor),
           NEW i \in JobIds, js[i] = jobs[i], jobs[i].src = survey.src
    PROVE  ~Dropped(i)
<1> DEFINE kept == CancelPending(js, {survey.src})
<1>1. kept \in [JobIds -> Job] /\ survey.src \in Sources
  BY CancelPendingType DEF SurveyState
<1>2. HasRoom(kept, survey.src, executor) /\ jobs' = EnsurePending(kept, survey, survey.src, executor)
  BY DEF Schedule
<1>3. kept[i] = jobs[i]
  BY DEF CancelPending
<1> HIDE DEF kept
<1>4. \/ jobs'[i] = jobs[i]
      \/ i \in Waiting(kept, survey.src, executor) /\ jobs'[i] = Coalesced(jobs[i], survey)
      \/ jobs'[i] = NewJob(survey, survey.src, executor)
  BY <1>1, <1>2, <1>3, EnsurePendingRows
<1>5. jobs[i] \in Job
  OBVIOUS
<1>6. Coalesced(jobs[i], survey).status = jobs[i].status
  BY <1>5 DEF Coalesced, Job
<1>7. NewJob(survey, survey.src, executor).status = "pending"
  BY DEF NewJob
<1>8. i \in Waiting(kept, survey.src, executor) => jobs[i].status = "pending"
  BY <1>3 DEF Waiting
<1> QED BY <1>4, <1>6, <1>7, <1>8 DEF Dropped

LEMMA FailJobKeeps ==
    ASSUME TypeOK, NEW w \in Workers, NEW retryable \in BOOLEAN, FailJob(w, retryable)
    PROVE  \A i \in JobIds : ~Dropped(i)
<1>1. jobs \in [JobIds -> Job]
  BY DEF TypeOK
<1>2. \A j \in Job : Failed(j, retryable).status = "cancelled" => Failed(j, retryable).cancel
  BY DEF Failed, Released, Job
<1> QED BY <1>1, <1>2 DEF FailJob, Dropped

\* A claim is superseded only when it is stale.
LEMMA SupersedeKeeps ==
    ASSUME TypeOK, NEW w \in Workers, worker[w].job \in JobIds, HoldsClaim(w),
           ~ClaimIsCurrent(MyJob(w)), Supersede(w), NEW i \in JobIds, ClaimIsCurrent(jobs[i])
    PROVE  ~Dropped(i)
<1> DEFINE ensured == EnsurePending(jobs, survey, survey.src, MyJob(w).executor)
<1>1. jobs \in [JobIds -> Job] /\ survey \in SurveyState /\ i # worker[w].job
  BY DEF TypeOK, MyJob
<1>2. CASE FailJob(w, FALSE)
  BY <1>2, FailJobKeeps
<1>3. CASE /\ HasRoom(jobs, survey.src, MyJob(w).executor)
           /\ jobs' = [ensured EXCEPT ![worker[w].job] = Released(@, "cancelled")]
  <2>1. MyJob(w).executor \in Executors /\ survey.src \in Sources
    BY <1>1 DEF MyJob, Job, SurveyState
  <2>2. /\ ensured \in [JobIds -> Job]
        /\ \/ ensured[i] = jobs[i]
           \/ /\ i \in Waiting(jobs, survey.src, MyJob(w).executor)
              /\ ensured[i] = Coalesced(jobs[i], survey)
           \/ ensured[i] = NewJob(survey, survey.src, MyJob(w).executor)
    BY <1>1, <1>3, <2>1, EnsurePendingRows
  <2> HIDE DEF ensured
  <2>3. jobs'[i] = ensured[i]
    BY <1>1, <1>3, <2>2
  <2>4. Coalesced(jobs[i], survey).status = jobs[i].status
    BY <1>1 DEF Coalesced, Job
  <2>5. NewJob(survey, survey.src, MyJob(w).executor).status = "pending"
    BY DEF NewJob
  <2>6. i \in Waiting(jobs, survey.src, MyJob(w).executor) => jobs[i].status = "pending"
    BY DEF Waiting
  <2> QED BY <2>2, <2>3, <2>4, <2>5, <2>6 DEF Dropped
<1> QED BY <1>2, <1>3 DEF Supersede, MyJob

\* While the versions stay, no step drops a row that accounts for them.
LEMMA WorkKeeps ==
    ASSUME TypeOK, NEW w \in Workers, Work(w) \/ WorkRaises(w),
           NEW i \in JobIds, AccountsFor(jobs[i], survey)
    PROVE  ~Dropped(i)
<1>1. /\ worker[w].job \in JobIds /\ jobs \in [JobIds -> Job] /\ survey \in SurveyState
      /\ ClaimIsCurrent(jobs[i])
  <2>1. worker[w].pc \notin {"idle", "down"}
    BY DEF Work, WorkRaises, At, LosesLease, Prepare, ReadStatistics, ReadText, PersistSnapshot,
           ReadyToPublish, PublishSnapshot, AISuperseded, CheckRefused, StartAI, GenerateStages,
           ReadyToPublishAI, PublishStages, Heartbeats, BuildSteps, Checkpoints
  <2> QED BY <2>1 DEF TypeOK, MemoryOK, AccountsFor, ClaimIsCurrent, VersionsAreCurrent
<1>2. CASE UNCHANGED jobs
  BY <1>2 DEF Dropped
<1>3. ASSUME NEW retryable \in BOOLEAN, FailJob(w, retryable)
      PROVE  ~Dropped(i)
  BY <1>3, FailJobKeeps
<1>4. CASE HoldsClaim(w) /\ ~ClaimIsCurrent(MyJob(w)) /\ Supersede(w)
  BY <1>1, <1>4, SupersedeKeeps
<1>5. ASSUME NEW js \in [JobIds -> Job], js[i].status = "cancelled" => js[i] = jobs[i],
             jobs' = Succeeded(js, worker[w].job)
      PROVE  ~Dropped(i)
  <2>1. Released(js[worker[w].job], "succeeded").status = "succeeded"
    BY <1>1, <1>5 DEF Released, Job
  <2> QED BY <1>1, <1>5, <2>1 DEF Succeeded, Dropped
<1>6. CASE LosesLease(w)
  <2>1. CASE /\ MyJob(w).cancel
             /\ jobs' = [jobs EXCEPT ![worker[w].job] = Released(@, "cancelled")]
    <3>1. MyJob(w).cancel => Released(MyJob(w), "cancelled").cancel
      BY <1>1 DEF MyJob, Released, Job
    <3> QED BY <1>1, <2>1, <3>1 DEF MyJob, Dropped
  <2> QED BY <1>3, <1>6, <2>1 DEF LosesLease
<1>7. CASE Prepare(w) \/ PersistSnapshot(w) \/ StartAI(w) \/ CheckRefused(w) \/ WorkRaises(w)
  BY <1>2, <1>3, <1>7 DEF Prepare, PersistSnapshot, StartAI, CheckRefused, WorkRaises
<1>8. CASE ReadStatistics(w) \/ ReadText(w) \/ ReadyToPublish(w) \/ GenerateStages(w) \/ ReadyToPublishAI(w)
  BY <1>2, <1>8 DEF ReadStatistics, ReadText, ReadyToPublish, GenerateStages, ReadyToPublishAI
<1>9. CASE AISuperseded(w)
  BY <1>4, <1>9 DEF AISuperseded, HeartbeatAccepted
<1>10. CASE PublishStages(w)
  BY <1>1, <1>3, <1>4, <1>5, <1>10 DEF PublishStages, ClaimRefused
<1>11. CASE PublishSnapshot(w)
  <2>1. CASE PublishBase(w)
    <3> DEFINE ensured == EnsurePending(jobs, survey, MyJob(w).src, "ai")
    <3>1. CASE ~AutoAI
      BY <1>1, <1>5, <2>1, <3>1 DEF PublishBase
    <3>2. CASE AutoAI
      <4>1. MyJob(w).src \in Sources /\ HasRoom(jobs, MyJob(w).src, "ai")
        BY <1>1, <2>1, <3>2 DEF PublishBase, MyJob, Job
      <4>2. /\ ensured \in [JobIds -> Job]
            /\ \/ ensured[i] = jobs[i]
               \/ i \in Waiting(jobs, MyJob(w).src, "ai") /\ ensured[i] = Coalesced(jobs[i], survey)
               \/ ensured[i] = NewJob(survey, MyJob(w).src, "ai")
        BY <1>1, <4>1, EnsurePendingRows DEF Executors
      <4>3. jobs' = Succeeded(ensured, worker[w].job)
        BY <2>1, <3>2 DEF PublishBase
      <4>4. i \notin Waiting(jobs, MyJob(w).src, "ai")
        BY DEF Waiting, AccountsFor
      <4>5. NewJob(survey, MyJob(w).src, "ai").status = "pending"
        BY DEF NewJob
      <4> HIDE DEF ensured
      <4> QED BY <1>5, <4>2, <4>3, <4>4, <4>5
    <3> QED BY <3>1, <3>2
  <2> QED BY <1>3, <1>4, <1>11, <2>1 DEF PublishSnapshot, ClaimRefused
<1> QED BY <1>6, <1>7, <1>8, <1>9, <1>10, <1>11 DEF Work

LEMMA UpdateStep ==
    ASSUME TypeOK, NoLostUpdate, Next
    PROVE  NoLostUpdate'
<1>1. /\ jobs \in [JobIds -> Job] /\ survey \in SurveyState
      /\ RowsStep /\ SurveyGrows /\ survey' \in SurveyState
  BY ActionRows, SurveySteps DEF TypeOK, SurveyGrows
<1>2. ASSUME NEW i \in JobIds, AccountsFor(jobs'[i], survey')
      PROVE  NoLostUpdate'
  BY <1>2 DEF NoLostUpdate, AccountsFor, ClaimIsCurrent, VersionsAreCurrent
<1>3. ASSUME NEW sv \in SurveyState, Schedule(jobs, sv, "deterministic")
      PROVE  NoLostUpdate'
  <2>1. survey' = sv
    BY <1>3 DEF Schedule
  <2>2. CASE sv.enabled
    BY <1>1, <1>2, <1>3, <2>1, <2>2, ScheduleAccounts
  <2>3. CASE ~sv.enabled
    BY <2>1, <2>3 DEF NoLostUpdate
  <2> QED BY <2>2, <2>3
<1>4. ASSUME UNCHANGED survey, \A i \in JobIds : AccountsFor(jobs[i], survey) => ~Dropped(i)
      PROVE  NoLostUpdate'
  <2>1. CASE ~survey.enabled \/ ~(survey.input + survey.config > 0)
    BY <1>4, <2>1 DEF NoLostUpdate
  <2>2. CASE survey.enabled /\ survey.input + survey.config > 0
    <3>1. PICK i \in JobIds : AccountsFor(jobs[i], survey)
      BY <2>2 DEF NoLostUpdate, AccountsFor, ClaimIsCurrent, VersionsAreCurrent
    <3>2. AccountsFor(jobs'[i], survey)
      <4>1. jobs'[i] # jobs[i] => jobs'[i].status # "cancelled" \/ jobs'[i].cancel
        BY <1>4, <3>1 DEF Dropped
      <4>2. RowStep(jobs[i], jobs'[i], survey)
        BY <1>1, <1>4 DEF RowsStep
      <4> QED BY <1>1, <3>1, <4>1, <4>2, RowAccounts
    <3> QED BY <1>2, <1>4, <3>2
  <2> QED BY <2>1, <2>2
<1>5. CASE InputChanges \/ ConfigChanges \/ AnalysisToggled \/ SourceRegistered
  <2>1. survey.input + 1 \in Nat /\ survey.config + 1 \in Nat /\ (~survey.enabled) \in BOOLEAN
    BY <1>1 DEF SurveyState
  <2>2. /\ [survey EXCEPT !.input = @ + 1] \in SurveyState
        /\ [survey EXCEPT !.config = @ + 1] \in SurveyState
        /\ [survey EXCEPT !.config = @ + 1, !.enabled = ~@] \in SurveyState
        /\ \A src \in Sources :
              [survey EXCEPT !.input = @ + 1, !.config = @ + 1, !.src = src] \in SurveyState
    BY <1>1, <2>1 DEF SurveyState
  <2> QED BY <1>3, <1>5, <2>2 DEF InputChanges, ConfigChanges, AnalysisToggled, SourceRegistered
<1>6. CASE AnalysisRequested \/ OutdatedRerun
  BY <1>1, <1>3, <1>6 DEF AnalysisRequested, OutdatedRerun
<1>7. CASE AIConfirmed
  <2>4. PICK obsolete \in InFlight("ai") \union {None} :
            Schedule([i \in JobIds |-> IF i = obsolete THEN CancelAsked(jobs[i]) ELSE jobs[i]],
                     survey, "ai")
    BY <1>7 DEF AIConfirmed
  <2> DEFINE js == [i \in JobIds |-> IF i = obsolete THEN CancelAsked(jobs[i]) ELSE jobs[i]]
  <2>1. js \in [JobIds -> Job]
    BY <1>1, CancelAskedType
  <2>2. survey.enabled /\ Schedule(js, survey, "ai") /\ UNCHANGED survey
    BY <1>7, <2>4 DEF AIConfirmed, Schedule
  <2>3. ASSUME NEW i \in JobIds, AccountsFor(jobs[i], survey)
        PROVE  ~Dropped(i)
    <3>1. js[i] = jobs[i] /\ jobs[i].src = survey.src
      BY ConstantsAssumption, <2>3, <2>4 DEF InFlight, AccountsFor
    <3> HIDE DEF js
    <3> QED BY <1>1, <2>1, <2>2, <3>1, ScheduleKeeps DEF Executors
  <2> QED BY <1>4, <2>2, <2>3
<1>8. ASSUME NEW i \in JobIds, CancelRequested(i)
      PROVE  NoLostUpdate'
  <2>1. CancelAsked(jobs[i]) # jobs[i] => CancelAsked(jobs[i]).cancel
    BY <1>1 DEF CancelAsked, Job
  <2> QED BY <1>1, <1>4, <1>8, <2>1 DEF CancelRequested, Dropped
<1>9. ASSUME NEW i \in JobIds, LeaseExpires(i) \/ BackoffElapses(i)
      PROVE  NoLostUpdate'
  <2>1. \A k \in JobIds : jobs'[k] = jobs[k] \/ jobs'[k].status \in {"running", "pending"}
    BY <1>1, <1>9 DEF LeaseExpires, BackoffElapses, Job
  <2> QED BY <1>4, <1>9, <2>1 DEF LeaseExpires, BackoffElapses, Dropped
<1>10. CASE ProcessNext
  BY <1>4, <1>10 DEF ProcessNext, Killed, Restarted, Upgraded, Dropped
<1>11. ASSUME NEW w \in Workers, Poll(w)
       PROVE  NoLostUpdate'
  <2>1. \A k \in JobIds : Swept[k] = jobs[k] \/ Swept[k].status = "failed"
    BY <1>1 DEF Swept, Job
  <2>2. Swept \in [JobIds -> Job]
    BY <1>1, SweptRows
  <2>3. \A k \in JobIds : Claimed(Swept[k]).status = "running"
    BY <2>2 DEF Claimed, Job
  <2> HIDE DEF Swept
  <2>4. \A k \in JobIds : jobs'[k] = jobs[k] \/ jobs'[k].status \in {"failed", "running"}
    BY <1>11, <2>1, <2>2, <2>3 DEF Poll, PollFindsNothing, Claim
  <2>5. UNCHANGED survey
    BY <1>11 DEF Poll, PollFindsNothing, Claim
  <2> QED BY <1>4, <2>4, <2>5 DEF Dropped
<1>12. ASSUME NEW w \in Workers, Work(w) \/ WorkRaises(w)
       PROVE  NoLostUpdate'
  <2>1. UNCHANGED survey
    BY <1>12 DEF Work, WorkRaises, LosesLease, Prepare, ReadStatistics, ReadText, PersistSnapshot,
           ReadyToPublish, PublishSnapshot, AISuperseded, CheckRefused, StartAI, GenerateStages,
           ReadyToPublishAI, PublishStages
  <2> QED BY <1>4, <1>12, <2>1, WorkKeeps
<1> QED BY <1>5, <1>6, <1>7, <1>8, <1>9, <1>10, <1>11, <1>12 DEF Next, UserNext, TimeNext

\* Coalescing, supersession, failure and publication never leave the current versions of
\* an enabled survey without statistics work that waits, runs or ended visibly.
THEOREM UpdatesCorrect == Spec => []NoLostUpdate
<1>1. Init => NoLostUpdate
  BY DEF Init, NoLostUpdate
<1>2. TypeOK /\ NoLostUpdate /\ UNCHANGED vars => NoLostUpdate'
  BY DEF vars, NoLostUpdate, ClaimIsCurrent, VersionsAreCurrent
<1> QED BY <1>1, <1>2, UpdateStep, TypeCorrect, PTL DEF Spec

=============================================================================
