# Verification of the Feedback Insight Hub

TLA+ models of the parts of this repository whose correctness depends on the
order of events: a queue whose workers die and lose leases, replies handed from
the website to a node over calls that may be lost, results uploaded more than
once, definitions edited while a node copies them, mail that may go out once,
calls that cost money, imports that meet. Beside them stand the computations
whose results are trusted without being looked at: which evidence goes to an AI
provider and what becomes of its answer. TLC checks the models on small
instances, TLAPS proves the invariants of the core for every value of the
constants.

## 1. The system

A Django website (Render, PostgreSQL) keeps survey definitions, an inbox of
replies, and published results. A Windows node keeps the replies themselves and
computes: it pulls definitions and replies, analyses them in a background
queue, and uploads what it published. Both are the same code base; the
`feedback` application holds surveys and analysis, `cloudapi` the website's side
of the exchange, `cloudsync` the node's side, `node` and `desktop_app` the
node's console and launcher.

| Component | State | Operations | Hard behaviour | What makes it correct |
| --- | --- | --- | --- | --- |
| Analysis queue, `feedback/analysis_jobs.py` | rows of `feedback_analysis_jobs`: status, versions, token, lease, attempts, cancellation; survey versions; publication manifest | schedule and coalesce, claim, heartbeat, cancel, fail, supersede, publish | workers that outlive their lease; changes during work; the unique pending row | one owner per claim; no change without work; nothing stale or cancelled published; finite retry |
| Statistics and text worker, `feedback/analysis_worker.py` | artifact files and lock files, snapshot rows | read statistics, read text, write artifact, persist, publish | data read at two moments; results of a killed attempt found by another | published text and statistics belong to the manifest's versions |
| Statistics and text computation, `feedback/local_service.py`, `background_analysis.py`, `ai_snapshot_service.py` | none | charts, tests, words and mood; the evidence for the AI stages | small groups, merged groups, equal names | no evidence about one or two people; a citation names one row |
| AI worker, `feedback/ai_worker.py` | the base it started from | checkpoints, three provider calls, publish | the base is replaced during a call | AI text only beside its own statistics |
| AI stages, `ai_stage_service.py`, `ai_*_service.py`, `ai_grounding.py` | stage rows | aliases, sanitising, validation, what is stored | answers that cite, quote or count wrongly | no number that its evidence does not give; one bad finding costs nothing else |
| Worker loop, `run_analysis_worker.py` | what one process holds in memory | poll, work, exception clauses | exceptions raised by the exception clauses | the loop survives every failure |
| Signals and sources, `feedback/signals.py`, `analysis_sources.py` | input and config version, active binding | raise a version and schedule, in the transaction of the change | a change while a job runs | every change is analysed |
| Cloud inbox, `cloudapi/inbox.py` | receipts, pending bodies, per-survey sequence and capacity counter | accept, list, ACK, quarantine, requeue, abandon | resends, repeated and late ACKs, the limit | a reply is in exactly one place and never lost unasked |
| Node intake, `cloudsync/inbox.py`, `models.py` | replies, `PendingAck`, inbox sequences, watermark | write once, ACK when durable, advance | crash between write and ACK; gaps; power loss | nothing acknowledged that is not durable; the watermark never skips |
| Result upload, `cloudsync/results.py`, `cloudapi/results.py` | upload rows, the numbers given out and reported; the website's shown result and its history | freeze, number, send, apply, refuse, make up, retry | lost answers, resends, a restored node | one identity, one content; true acknowledgements; the newest is shown |
| Sync cycle, `cloudsync/runner.py`, `client.py` | link, back-off, progress | definitions, inbox, results, in order | one failing step, time-outs | progress despite failures |
| Definition writes, `cloudapi/writes.py`, `views.py`, `external_sources.py`, `prune_survey_changes.py` | revisions and versions, change log and clock, pruned cursor | edit, publish, assign, register a data set, delete, prune | concurrent editors; pruning under a reader; clock and survey locks | no lost edit, no missed change |
| Definition sync, `cloudsync/definitions.py`, `datasets.py` | cursor, link generation, local definitions, bound data set | snapshot, page of changes, 410, apply, bind, re-link | link replaced during a page; registrations that cross | the node's definitions converge; a cursor serves the link it was got under |
| Questions and the form, `cloudapi/builder.py`, `definition.py`, `schema_conversion.py`, `feedback/views.py`, `local_service.py` | questions with option codes, replies, receipts, preferences | card edits, publication, migration, open, post, resend | codes over versions, two tabs, a lost answer | a code keeps its meaning; one reply per customer; thanks only for what is stored |
| Improvements and notices, `improvement_workflow.py`, `notice_service.py` | items and history, notice, dispatch rows | create, import, move, draft, confirm, claim, send, retry | two managers; a process killed while it sends; consent withdrawn | one item per draft; mail as confirmed, once, to whom it may go |
| Paid AI grants, `node/gemini.py` | grants, calls, API key | preview, confirm, reserve, call, settle, cancel | a call whose result nobody knows; changes between consent and call | every call reserved and consented to; none after an unknown one |
| Data set import, `feedback/importing/service.py` | batches, source rows | read, sample, chunk, bulk insert and fallback | two importers; errors halfway | what a completed batch stands for is stored; the analysis is told |
| Local data sets, `importing/local_dataset.py`, `external_dataset.py` | Parquet files, report, manifest, registered versions | download, clean, report, register, analyse | crashes between files; files changed by hand | a manifest is true; results come from what was registered |
| Launcher, supervisor, `desktop_app` | lock, port, state and heartbeat files, worker processes | start, restart, give up, shut down, leave | crash loops; exit during a restart; a launcher that dies | a crash loop is seen; no orphan stays |
| Job display, accounts, organizations, page views, admin, seed scripts | - | pages and set-up | none of the above kinds | outside these models |

They interact through the database alone: a mutation raises versions and
schedules a row in one transaction; a worker polls rows; a publication writes
the manifest that the uploader reads; between website and node there are only
HTTP calls that the node makes and that may be lost on either way.
`PROJECT.json` lists every component with its status and the hazards, each at
its line.

## 2. Modules

| Module | What it is |
| --- | --- |
| `AnalysisJobs` | the background-analysis queue of one survey, its deterministic and AI workers and their loop |
| `AnalysisJobsProofs` | theorems about `AnalysisJobs`, with their proofs |
| `InboxSync` | the way of a reply from the browser through the cloud inbox to the node's database |
| `InboxSyncProofs` | theorems about `InboxSync`, with their proofs |
| `ReplyCustody` | the abstract specification that `InboxSync` implements: who answers for a reply |
| `ResultPublish` | the way of a published analysis from the node to the website |
| `ResultPublishProofs` | theorems about `ResultPublish`, with their proofs |
| `DefinitionSync` | survey definitions on the website, their change log, and a node that copies and edits them |
| `DefinitionSyncProofs` | theorems about `DefinitionSync`, with their proofs |
| `QuestionSchema`, `SurveyReplies` | what a question is, and the life of a survey from its draft to its stored replies |
| `SurveyRepliesProofs` | theorems about both, with their proofs |
| `Improvements` | improvement items and the notice that tells customers of one |
| `ImprovementsProofs` | theorems about `Improvements`, with their proofs |
| `PaidAnalysis` | the paid AI work of a node: consent, calls, and how they are settled |
| `SurveyStatistics`, `EvidenceCatalog` | who is behind a statistic, and which of them become evidence |
| `StageAnswers` | what becomes of an answer of the AI provider |
| `PaidAnalysisProofs` | theorems about `PaidAnalysis`, `EvidenceCatalog` and `StageAnswers`, with their proofs |
| `DatasetImport` | two imports of replies into the database |
| `LocalDataset` | data sets in Parquet files, from their preparation to their analysis |
| `DatasetProofs` | theorems about `DatasetImport` and `LocalDataset`, with their proofs |
| `NodeLauncher` | the node's program, its supervisor and its workers |
| `MCAnalysisJobs`, `MCInboxSync`, `MCResultPublish`, `MCDefinitionSync`, `MCSurveyReplies`, `MCImprovements`, `MCPaidAnalysis`, `MCDatasetImport`, `MCLocalDataset`, `MCNodeLauncher` | the small instances that the `.cfg` files check |
| `MCStageAnswers` | bounded comparisons of `StageAnswers` with its reference definitions |

`EvidenceCatalog` is built on `SurveyStatistics`, `SurveyReplies` on
`QuestionSchema`; the other models meet at their borders, each of which is named
where it is crossed: `SettleReceipt` of `SurveyReplies` is what `InboxSync` does in
full, `ReplyWritten` of `ResultPublish` is its intake, `Analyse` of `PaidAnalysis`
is a publication of `AnalysisJobs`, `Redefine` of `Improvements` an edit of
`DefinitionSync`.

`PROJECT.json` maps every definition to the lines it stands for.

### AnalysisJobs

One survey. `jobs` holds the rows of `feedback_analysis_jobs`, `survey` the
versions, the active binding and `analysis_enabled`, `worker[w]` what the
process `w` has in memory: the position in its job, the claimed row, the token,
the artifact's identity and the two results. `base` and `ai` are the entries of
the publication manifest.

| Actions | Code |
| --- | --- |
| `InputChanges`, `ConfigChanges`, `AnalysisToggled`, `SourceRegistered` | a mutation and `schedule_survey_analysis` in its transaction |
| `AnalysisRequested`, `CancelRequested`, `AIConfirmed`, `OutdatedRerun` | requests of users, of the node's console and of the launcher |
| `LeaseExpires`, `BackoffElapses` | time |
| `Claim`, `PollFindsNothing` | `claim_next_job` with its sweep |
| `LosesLease`, `WorkRaises` | a heartbeat that is refused, any other exception; both include `fail_job` in the exception clause |
| `Prepare` ... `PublishSnapshot` | `execute_deterministic_job`, `_write_artifact`, `publish_analysis_snapshot` |
| `StartAI` ... `PublishStages`, `AISuperseded`, `CheckRefused` | `execute_ai_job`, `publish_analysis_stages` |
| `Killed`, `Restarted`, `Upgraded` | processes |

Decisions that a reader of the code should know:

- A database transaction is one step. On SQLite every transaction begins
  `IMMEDIATE` (`config/settings.py:235`), so writers run one after the other; on
  PostgreSQL each one locks the survey's state row or the job row before it
  looks. A read of the data is one step with
  the heartbeat that ends it (`ReadStatistics`, `ReadText`), other work with the
  heartbeat that starts it (`Prepare`, `PersistSnapshot`). A heartbeat that is
  accepted would have been accepted at the read as well, because a lease that
  was lost never comes back under the same token; one that is refused after the
  read is `LosesLease` in the next position.
- A lease token is a random UUID; the model writes the number of the attempt
  that drew it, which is unique per row in the same way.
- `claim_next_job` orders by priority and age. The model lets it take any
  eligible row of the executor, deterministic work first. Every order the code
  can choose is among them.
- An analysis result is abstracted to the survey versions at the moment its
  data was read. That is what the publication must get right; numbers and
  texts are not told apart.
- `claim_next_job` is modelled with its exclusion of rows that were asked to
  stop, its sweep that leaves `lease_expires_at`, and its two eligibility
  branches as they are written. Two disagreements of section 6 come from there.
- Left out: progress and stage fields for display, the heartbeat file, the
  filter by which a node claims only AI work with a grant (`PaidAnalysis` has it), bindings whose data
  set does not exist, several surveys (no transaction touches the rows of two).

### InboxSync and ReplyCustody

One node and one published survey. `receipt`, `body` and `occupied` are the
website's `SubmissionReceipt`, `InboxSubmission` and `InboxCounter`; `db` is the
node's database and `disk` the part of it that survives a power failure;
`cycle` is the memory of the running sync cycle; `late` holds the requests on
which the node's client timed out.

| Actions | Code |
| --- | --- |
| `Submit`, `Publish`, `Toggle` | `accept_submission` with its answer, the survey's phase |
| `StartCycle` | the start of a cycle with `sync_definitions` |
| `SendAcks`, `WithholdAcks` | `_send_acks` on the node with `ack_items` on the website |
| `Fetch`, `Duplicate`, `WriteReply`, `Refuse`, `DefinitionUnavailable`, `SendQuarantine` | the intake of a page with `list_inbox` and `quarantine_items` |
| `Heartbeat` | `_apply_abandoned` |
| `CallLost`, `LateRequest` | a call that ends in a timeout, and what becomes of it |
| `Requeue`, `Abandon` | the operator's two ways out of quarantine |
| `Crash`, `PowerFails`, `Flush` | the node's machine |

- A call that succeeds is one step on both sides: between the website's
  transaction and the node's next one, the node holds nothing that another
  actor reads. A call that fails (the client gives up after 15 seconds,
  `cloudsync/client.py`) ends the cycle; its request stays in `late` and the
  website carries it out item by item at any later time or never. Each item is
  a transaction of its own on the website, so a part of a batch may be carried
  out.
- The answer to the browser may be lost as well (`Submit` leaves `shown` as it
  was); the form is sent again with the same identifier.
- The published form of a survey never changes (`cloudapi/writes.py` refuses
  it), so a reply's payload hash depends on its content alone and
  `definition_outdated` cannot be reached.
- A commit under `synchronous=NORMAL` reaches the disk later (`Flush`) and is
  lost by a power failure, but not by the end of the process. `durable` is what
  `commits_are_durable` reports; a restart may change it. `StartCycle` always
  commits (the definition cursor is saved), and a durable commit carries all
  earlier ones with it: that is why acknowledging at the beginning of a cycle is
  safe after a restart with other settings, and the proof needs it.
- One cycle at a time: the launcher holds a single-instance lock, the timer and
  the console run the cycle in the same process under `_cycle_lock`.
- Left out: the byte limit of the inbox and the size of an item, the self-test
  scope, the release of bodies by a purge, other surveys, and
  `schedule_survey_analysis` at the end of `advance_and_schedule`, which is
  `InputChanges` of `AnalysisJobs` and not composed with it yet.

`ReplyCustody` says what the whole exchange promises in four actions: a reply
goes from the respondent to the website, from there to the node, where it
stays, or an operator gives it up. `InboxSync` implements it under the mapping
`CustodyOf`: the node answers for what is *on its disk*, the website for what it
holds a body of. `HandOver` also takes replies that were given up; the code does
that (section 6).

### ResultPublish

One node and one survey. `node` is the part of the node's database that the
upload needs: the watermark, the definition's version, what is published
(`shown`), the numbers reported by the website and given out
(`cloudSeq`, `localSeq`) and the rows of `ResultUpload`. `website` is the
website's `SurveyAnalysisState`, `records` its history, `backup` an earlier copy
of the node's database, `late` the uploads on which the node's client timed out.

| Actions | Code |
| --- | --- |
| `PublishAnalysis` | the end of a publication with `record_publication` in its transaction |
| `Heartbeat` | `_apply_publish_sequences` |
| `BackfillPublications` | `backfill_publications`, and the query with which `upload_results` starts |
| `UploadAnswered`, `LateUpload` | one round of `upload_results` with `apply_upload` on the website, in time or late |
| `UploadRefused`, `UploadLost`, `CycleEnds` | the other ends of a round and of the cycle |
| `RetryFailed` | `retry_failed`, from the node's console |
| `ReplyArrives`, `ReplyWritten`, `RepliesConfirmed`, `DefinitionChanges`, `DefinitionSynced` | what results are computed from, as numbers that grow; `InboxSync` has the first three in full |
| `Backup`, `Restore` | a copy of the database is made, and put in the place of the database between two cycles |

- A result is its `published_at`, its watermark and the version of the
  definition it was computed from; nothing else decides what becomes of it. The
  hash of a content is the content.
- `publish_uuid` and `published_at` are drawn from one counter: each is unique,
  and a backup does not bring a drawn one back.
- A publication carries the watermark of the moment it is made. In the code the
  scope is captured earlier, but every advance of the watermark raises the
  survey's versions in the same transaction, and only work at the current
  versions is published (`PublishedDataMatchesManifest` of `AnalysisJobs`).
- A node may have published a survey before its definition was synced
  (`origin`): such a publication has no upload until `backfill_publications`
  makes one.
- The website deletes the bodies of confirmed replies (`released`), so a
  restored node gets back only what it had not confirmed.
- Left out: uploads of external data sets, whose source must match as well; a
  second node that knows another node's identity; display of the status.

### DefinitionSync

Two kinds of survey, node-owned ones and ones that stand for a data set, on the
website and one node. `revision[s]` is the row of revisions of a survey, the last
of them its live definition; `clock` and `changes` are the change log; `link`,
`token`, `local` and `sync` are the node; `write`, `reg` and `connect` hold what
an edit, a registration and the connection page know between two steps.

| Actions | Code |
| --- | --- |
| `Edit`, `FinishEdit` | a page of the builder, of the website or through the node, with `_locked_write`, `change_definition`, `_lifecycle`, `tick_clock` |
| `CloudSteps` | `assign_survey_to_node`, `delete_or_archive`, `prune_survey_changes` |
| `Registration` | `mapping_definition`, `register_node_dataset`, `register_dataset` with its answer |
| `SyncSteps`, `SyncFails` | `sync_definitions`: snapshot, pages, 410, `update_if_current` |
| `Linking`, `ResetLink`, `NodeCrash` | the connection page, `relink` and `unlink`, the node's processes |

- A transaction holds the survey's row and the clock's row until it ends, so it
  is two steps, one that takes the locks and one that commits or rolls back.
  Reads of the website are single statements and interleave with both: the two
  reads of a page of changes (`ChangesClock`, `ChangesRows`) are two steps.
- Questions and settings are stamps, the version whose write last changed them.
  `NoEditIsLost` says what a stamp may become.
- A registration rewrites the analysis settings from its mapping, so registering
  an archived data set again takes it out of the archive without saying so. That
  is why `NoEditIsLost` is about the other surveys.
- Left out: surveys from before the exchange that only the website uses, revoked devices, the
  validation of questions (`QuestionSchema`), the purge of surveys with replies.

### QuestionSchema and SurveyReplies

`QuestionSchema` holds the rules of a single question as operators: which cards
are accepted, how they are stored, how an answer is encoded, how the statistics
class it. `SurveyReplies` is a survey in time: `revision` with its questions,
`setting` (open, closed, archived), `tab` the open forms, `reply` what is stored
under a form's key (a submission on the website, a receipt in the inbox).

| Actions | Code |
| --- | --- |
| `AddQuestion`, `UpdateQuestion`, `DuplicateQuestion`, `DeleteQuestion`, `Publish`, `ChangeSetting` | `builder_post` with `_save_card`, `_check_choice_codes`, `apply_definition` |
| `ConvertDefinitions` | the migration of the questions and answers of older surveys |
| `OpenForm`, `PreferFirst`, `Post`, `PreferAfterwards`, `Thank` | `SurveyDetailView`, in the order of the website and of the inbox |
| `Submit`, `Accept` | `submit_survey_payload`, `accept_submission` with their checks for a repeat and a resend |
| `Kill`, `Return`, `SettleReceipt` | a process ends or its answer is lost, the browser sends again, the node reports |
| `ToggleGlobal`, `ToggleSurvey` | the customer's preferences |

- Labels and codes are small sets in the instance, any strings and numbers in the
  proofs; code *n* is `c<n>`. The counter of a question
  only grows, and `CodesAreNotReused` compares all triples of revisions.
- The code's list comprehensions with a condition (rows that are not blank, options
  that are analysed, codes that were checked) are all `Selected`: the members at some
  positions, in their order. Check boxes arrive in any order of their codes.
- `NoReply` stands for a key without a row, so that `reply` has one type.
- Left out: copying a survey, the order of questions, optional questions that
  are left blank, labels beyond the set. `SurveyFormOutdated` cannot be reached:
  `published_version` never changes after the publication.
- Behaviour that the properties allow and a reader should know: the inbox does
  not judge repeats at all (`cloudapi/inbox.py:98`), and a label equal to
  another option's code is read as that code (`local_service.py:1138`). A resend
  with a changed consent is refused (`local_service.py:1166`), and the inbox saves
  a preference also from a post that it refuses (`views.py:1133`).

### Improvements

`item` and `history` are improvement items; `notice`, `dispatch`, `mails` one
notice with its rows and the mails that the server accepted for each; `email` the
addresses of accounts and replies; `request[r]` a request of the website between its
transactions.

| Actions | Code |
| --- | --- |
| `CreateItem`, `RecordInitialStatus`, `OpenMove`, `TransitionImprovement` | creation and `improvement_workflow.py` |
| `OpenImport` ... `CommitImport` | `NodeAIImprovementDraftCreateView`, an item from an AI draft of a node |
| `OpenDraft`, `SaveDraft`, `OpenEdit`, `SaveEdit`, `Preview`, `Confirm`, `BeginRetry` | the notice, up to `prepare_notice_dispatches` and `begin_notice_retry` |
| `ListRows`, `ClaimDispatch`, `SendMail`, `MarkDispatch`, `FinalizeNotice` | `send_notice_batch` |
| `Publish`, `Redefine`, `ChangeConsent`, `ChangeAddress`, `Killed` | a new publication or definition, a customer, the end of a process |

- `unsure` counts the deliveries that the server took although it reported an
  error; only those may lead to a second mail. `late` holds who withdrew during
  their delivery, between `_claim_dispatch` and the server's answer.
- A row stands for the address its recipient had at the confirmation
  (`recipient_key`); the mail goes to the address the account has when the row is
  claimed. A customer may change it at any time, to one that another recipient has or
  to none that is valid (`ChangeAddress`, `CustomerProfileForm`; `moved` remembers who
  did so after the confirmation). `NoSecondMail` speaks of the row, and says that only
  those who moved are mailed elsewhere. That an *address* gets one mail,
  `OneMailPerAddress`, fails with `Improvements.cfg`, without any error of the server:
  bob takes anna's address after the confirmation, and both rows are mailed there.
  It holds there when `"address"` is no disturbance.
- A delivery whose process is killed stays `sending` for ever: whether it went out
  is unknown and nobody may send it again, which `NoSecondMail` says and
  `BatchFinishes` pays for (it excludes killed processes).
- Left out: `AIStageImprovementDraftCreateView`, the same with the website's own
  drafts; reading notices and the statistics of the notice centre. The row that
  `views.py:1875` locks is not used afterwards, and `views.py:1254` saves an item
  before its first history row: both are in the model, as they are.

### PaidAnalysis

One survey of a node. `token[t]` is what a confirmation was signed for, `job` and
`grant` are the rows, `worker[w]` the process between two transactions, `sent`
the calls that reached the provider, `lost` whether one has an unknown result.
`key` is the vault: the keys that were stored since the generation was written, the
last of them there now, the generation, and how many requests are between their two
writes; `worker[w].secret` is the key its client has read.

| Actions | Code |
| --- | --- |
| `Preview`, `Confirm`, `CancelJob`, `RevokeOwner` | `node/views.py`, `gemini.confirm` |
| `WriteKey`, `WriteGeneration` | the two writes of `gemini.set_key` |
| `Claim`, `Sweep` | `claim_next_job` as a node uses it, by grant |
| `Begin`, `Checkpoint`, `LoadBase`, `Prepare` | `execute_confirmed`, `execute_ai_job`, `generate_stage`, `prepare_stage` |
| `Heartbeat`, `Reserve`, `Send`, `Receive`, `Raise`, `Validate` | `AuthorizedClient.generate_content`, `_provider_error`, the compact attempt |
| `Publish`, `Complete`, `FailGrant`, `FinishJob` | the publication and the ends of a job and of its grant |
| `Kill`, `ExpireHeld`, `ExpireAbandoned`, `ExpireGrant`, `ChangeAnswers`, `Analyse`, `Improve` | the process, time, and changes of what was confirmed |

- The reservation commits before the call is sent, and the answer is recorded after:
  a process that ends between the two leaves `in_flight`, and the consent uncertain.
- The compact retry after a rate limit (`docs/technical-showcase.md:59`) does not
  happen on a node: the client marks the grant failed first and the second
  reservation is refused.
- The vault takes no part in the locks of the database. `WriteGeneration` is under no
  fairness: a request that is killed, or that the vault refuses, between the writes
  never takes it. `confirm` and the preview read both entries; whatever is written
  between the two reads, they find what they would have found at one of them, or
  what the next reservation refuses, so they read at once here.
- Abstractions: the survey reads its own answers and stays enabled; cancelling
  merges `request_job_cancel` and the grant's update; rows that failed or are being
  generated, and the fifteen minutes of a signed preview, are left out.

### SurveyStatistics, EvidenceCatalog and StageAnswers

Pure computation, without variables. `SurveyStatistics` keeps of each chart, test
and word *who* is behind it, a set of replies, and leaves the arithmetic out.
`EvidenceCatalog` says which of these become rows of the evidence catalogue, the
only thing a finding may cite. The inputs of the two early stages also have the
snapshot's statistics and text analysis (`ai_statistics_service.py:99`,
`ai_text_service.py:102`), so what is said of the catalogue is not said of
everything the provider is sent. `StageAnswers` says what becomes of the provider's
answer: numbers in thousandths with the decimals they are written with, references
and aliases, the order of sanitising and validating for the early stages and the
synthesis.
`PaidAnalysis` sees of all this only whether an attempt was valid.

`MCStageAnswers` compares them with what they are for on small inputs; it is
extended by `MCPaidAnalysis`, so TLC evaluates its assumptions in each of its
runs. Section 4 says what is proved of them. What a reader should know:

- `MinResponses` protects charts, tests and moods, but a correlation has no
  groups: what protects it is the literal 3 in `local_service.py:1022`. The
  theorem therefore assumes `MinResponses <= MinPairs`; raising
  `AI_REPORT_MIN_RESPONSES` alone would break it.
- A keyword needs enough *occurrences*; one person may be behind all of them.
- `assemble_input` passes on twenty values of a chart, and the sample of a
  single-choice distribution is the sum of what was passed on.
- Two options that clean to the same text get one evidence id, and the registry
  keeps one row; an option whose label starts like the merged one is left out.
- A row that is cited by its alias and by its id is stored twice. In the early
  stages too many findings fail the stage even when most are bad; in the
  synthesis the bad ones are dropped before they are counted.
- `_build_anonymous_snapshot`, `_claim_snapshot_row` and `build_or_reuse_snapshot`
  are not called by the running system and are not modelled.

### DatasetImport

Two processes import overlapping files. `stored` holds the source rows under
their unique key, `batches` the batches with their counters, `waiting` what the
analysis has not been told of, `importer[i]` a process.

| Actions (all in `Step`) | Code |
| --- | --- |
| `Start`, `Read`, `SampleRow`, `Sampled` | `import_dataset`, `_iter_prepared_rows`, the reservoir of `_prepare_sample` |
| `LookUp`, `Open`, `Refuse` | `_ensure_survey_and_questions`, the batch |
| `ReadRow`, `BeginChunk`, `BulkInsert`, `BulkFails`, `CheckRow`, `InsertRow`, `InsertFails`, `SaveChunk` | `_chunks`, `_import_chunk` with its fallback |
| `Complete`, `Raise`, `Fail`, `Error`, `Deadlock`, `Kill` | the ends of an import |

- A process holds its `chunk`, the `candidates` in it that it will insert and those
  `left` to try, as sets of positions; the fallback takes the first one left (`Least`)
  and goes on to the next (`Tried`).
- READ COMMITTED as PostgreSQL has it: an insert waits for the transaction that
  holds its key, two such waits in a circle end one of them (`Deadlock`).
- Known and allowed: a killed import leaves its batch running and its committed
  replies unannounced; a batch that failed counts records of a chunk that was
  rolled back; rows of the fallback have no `definition_version`; two imports
  that both create the survey end one of them before its batch exists.

### LocalDataset

A locked Parquet file from its download to a published analysis: `files` are the
files with what they contain, `prep` the preparation, `verify` the console's and
the worker's validation, `versions` and `active` the registered versions.

| Actions | Code |
| --- | --- |
| `Prepare` | `prepare_local_dataset`: `_cached_manifest`, `download_locked_file`, `build_clean_layer`, the report, the manifest, with `Crash` between any two of them |
| `Hash`, `Parse`, `Register` | `validate_external_dataset`, `register_external_dataset_version` |
| `Analyse` | `execute_deterministic_job` with `ParquetInput` |
| `Hands` | somebody changes or removes a file |

- The cleaning is computed on real rows: which rule excludes which row, exact
  repetitions, contradictions. `ManifestIsTrue` recomputes it in another way.
- A change is `Unguarded` when nothing that the worker compares shows it: of any file
  between its validation and the signature of the input, and of the mapping already
  while it validates, since a mapping that is put back before the hashes are compared
  leaves no trace, and still after the signature (`SignInput`), which does not cover
  it, until it is read (`ReadMapping`).
- The initial predicate, the next-state relation and the type invariant are called
  `LocalInit`, `LocalNext` and `LocalTypeOK`, so that one module can hold the theorems
  about both kinds of data set.
- Left out: two preparations at once (they would share their `.part` files), the
  statistics of the report, `latest_at`. A crash between the report and the
  manifest makes every later preparation refuse until the files are removed.
  `NULL` and the text `<NULL>` have one hash (`local_dataset.py:399`).

### NodeLauncher

Two starts of the program, their supervisors, the worker processes, and the three
files they share (port, worker state, heartbeat).

| Actions | Code |
| --- | --- |
| `Launch`, `Start`, `StartFails` | `run_launcher` up to its threads: lock, probe, bind, migrate |
| `Supervise`, `RestartFails`, `WindowPasses` | `WorkerSupervisor.poll` in steps |
| `Exit`, `Shutdown`, `KillLauncher` | the tray menu, `shutdown` in steps, a kill |
| `Boot`, `Poll`, `Claim`, `Finish`, `Crash`, `OrphanLeaves`, `GrowStale` | the worker with its heartbeat and `watch_parent` |

- A restart that fails ends the supervising thread without a trace
  (`node_runtime.py:157`); what `CrashIsDetected` says ends with it. A process
  number that is used again would defeat `watch_parent`. A migration may run
  while an orphan still has up to five seconds (`node_launcher.py:101`).
- Left out: first-run setup and the update check.

## 3. Runs

| Run | Instance | Shows |
| --- | --- | --- |
| `JobsLease` | 2 workers, one artifact directory, 4 rows, AI queued with each publication, 1 change, 1 disturbance of 5 kinds | published text and statistics are those of the manifest; no change is lost; cancelled work is not published; no regression; AI text beside its own base |
| `JobsProgress` | 1 worker, 7 rows, AI queued with each publication, 4 courses of changes of 2 versions of a data set and of the switch, 1 kill, fairness | every change settles |
| `Inbox` | 3 replies (1 conflicting), room for 2, pages of 1, ACK calls of 2, 2 disturbances, fairness | the counter is exact; the watermark skips nothing; what was analysed stays; custody is kept; every cycle ends, every reply moves on and the watermark catches up |
| `Result` | 2 publications, 1 reply, 2 definitions, 2 disturbances, fairness | frozen identities, true acknowledgements, only what was superseded is stale, the newest is shown or its failure is |
| `Definitions` | 2 surveys and a data set, 2 devices, 8 casts of actors, pages of 1, 1 disturbance, fairness | no change is missed, no edit lost, cursors and data sets fit, the copies converge |
| `Replies` | a draft of 4 versions or an older survey with 1 reply; a survey with 2 open forms, 2 events | codes keep their meaning, answers stay valid, one reply per customer, thanks are true |
| `Improvements` | 2 items or 1 notice to 3 people at 2 addresses, 2 requests, 2 disturbances, fairness | one item per draft, mail as confirmed and once for each row, withdrawal respected, batches end |
| `Paid` | 2 workers or 2 confirmations, 3 jobs, 2 disturbances, fairness | calls are reserved and consented to, none follows an unknown one, grants settle |
| `PaidBlocked` | the same | a claim of the code's comments that fails, section 6 |
| `Import` | 2 importers, 3 keys, chunks of 2, 1 error or kill | completed means stored; ended imports are announced |
| `Dataset` | files of up to 3 rows, 2 preparations, 2 jobs, 2 disturbances | manifests are true; results come from what was registered |
| `Launcher` | 2 starts, 1 restart allowed, 3 disturbances, fairness | crash loops are seen, orphans leave |

**Bounds.** Each bound is a constant of the module that it bounds and has its value
in the `.cfg`. They were chosen by the mutations that have to be noticed: for each
property there is a plausible error in the code that TLC finds under the run's own
instance.

- `JobIds`: a schedule that finds no unused row cannot happen. A row superseded
  while another waits, or a retry against a taken slot, needs three rows, the AI
  row of a publication a fourth. Two attempts show a first, a last and an exhausted
  one. Two workers are the most that contend for a row, a
  third would lose to the same token.
- `JobsProgress`: two changes of each kind in any order would be too many states, so
  the survey takes one of four *courses* (`Courses` in `MCAnalysisJobs`): a new
  version of the data set after a first change, so that rows of the old one wait,
  run or are published meanwhile; a change of the configuration after a new version;
  back to the old version; analysis off and on again. With them a publication meets
  a row whose binding is no longer the active one, and an AI row of the other version
  that waits (`AIQueueClash`), and a worker that lost its lease meets a taken slot;
  `NoLostUpdate` holds there as well. `OnCourse` is an action constraint that only
  the survey's changes can violate, never a fair step. Seven rows are one more than
  a course uses, so that no step waits for a row. Out of reach stays the collision inside `Supersede` (`PendingClash`
  there): it needs a second worker and a third change.
- `Inbox`: room for two fills the inbox with three replies, and pages of one then
  leave a rest on the website, so that a cycle goes on to a second page or stops.
  Two disturbances allow a lost ACK that arrives late, a requeue between two
  refusals, or a power failure after a lost call.
- `Result`: two publications with one reply and two definitions have an older and
  a newer one in each of the three numbers; two disturbances allow a lost upload
  that arrives late and a restored database.
- `Definitions`, `Improvements`, `Paid`, `Replies`: a *scenario* says who acts in a
  behaviour, because all actors at once would be too many states. The scenarios
  are pairs of actors that meet on the same rows (two editors, an editor and an
  owner change, a registration and a re-link, a sender and a retry); two requests
  are enough, as a third would meet the same row locks. Version bounds of two or
  three allow one version that a reader has and one that it misses.
- `Import`: chunks of two with files of up to four records have a full and a short
  chunk, repetitions inside a chunk and across chunks, and a contradiction.
- `Dataset`: three rows are needed for an exact repetition beside a contradiction.
- `Launcher`: one restart allowed makes the second crash the one that gives up.

Symmetry is used in `JobsLease` only, over workers that have the same directory.

**Fairness.** Only what the code schedules by itself is fair, never a user.

| Module | Fair | Why |
| --- | --- | --- |
| `AnalysisJobs` | the steps of each process, its restart, time | the worker loop polls for ever; `WorkerSupervisor` starts it again (it gives up after four crashes in 300 seconds: there is one kill, and a worker that ends on a taken slot has first lost a lease of 600 seconds); leases and back-offs end |
| `InboxSync`, `ResultPublish` | the cycle | `run_periodically` starts one every five minutes whatever became of the last |
| `DefinitionSync` | the sync, the end of a transaction, the end of a re-link | the same timer; a transaction commits or rolls back |
| `Improvements` | the sending of a batch | it runs in the request and goes on unless its process is killed |
| `PaidAnalysis` | polls and steps of a worker, the lease of an abandoned job | the worker loop; a call of the provider has a timeout |
| `NodeLauncher` | the main and supervising threads, a worker's start, an orphan's look at its launcher | threads run; `watch_parent` looks every five seconds |

Lost calls, crashes and requeues are disturbances and so finitely many; the website
carries out late requests without any promise. The bound on requeues matters: an
operator who put the oldest refused reply back before every page would starve the
later ones behind it, since a page starts with the oldest.

`CHECK_DEADLOCK FALSE` stands wherever the system may rest: a queue without work, an
inbox without replies, a survey nobody edits, files that are imported. In
`ResultPublish` a cycle follows a cycle, and its run checks for deadlock.

## 4. Theorems

`AnalysisJobsProofs` proves for every number of workers, rows, sources,
attempts, changes and disturbances:

| Theorem | Statement |
| --- | --- |
| `TypeCorrect` | `Spec => []TypeOK` |
| `RetryCorrect` | `Spec => []RetryIsFinite` |
| `CancellationCorrect` | `Spec => []CancelledWorkIsNotPublished` |
| `OwnerCorrect` | `Spec => []OneOwnerPerJob` |
| `PublicationCorrect` | `Spec => []PublishedDataMatchesManifest` |
| `AIKeepsItsBase` | `Spec => AIPublishedWithItsBase` |
| `PublicationAdvances` | `Spec => PublishedNeverRegresses` |
| `UpdatesCorrect` | `Spec => []NoLostUpdate` |

They rest on `ConstantsAssumption` alone. The argument:

1. *The life of a row* (`RowStep`). Every action changes each row in one of a
   few ways: it stays, is created, coalesced, claimed, cancelled, released, put
   back. `ActionRows` proves it action by action once, and the invariants about
   rows are then proved for these few ways instead of for each action.
   `RetryIsFinite` and `CancelledWorkIsNotPublished` are inductive in this form.
2. *Types with memory* (`TypeOK`, with `MemoryOK`). A worker's memory has what
   its next step reads. This makes the steps' field accesses meaningful, so
   every later proof starts here.
3. *Tokens* (`TokensHeld`). `OneOwnerPerJob` alone is not inductive: a claim must
   draw a token that nobody holds, not even a process that lost its lease long
   ago. The invariant says that no token a process holds is above the attempts
   of its row and that no two processes hold the same token of one row.
4. *Publication* (`PublicationInv`). Versions only grow, so data that was read for
   a target is of no older version than the target names (`ResultsFresh`, for
   workers and artifact files), and no version is ahead of the survey's
   (`VersionsBehind`). When the publication finds the row's versions current,
   both bounds meet. `TargetOfClaim` ties what a worker has built to the row it
   holds, `SavedSnapshots` to the snapshot row it published.
5. *Updates*. `NoLostUpdate` is kept because a step that cancels a row that
   accounts for the current versions without a request (`Dropped`) queues the
   current versions in the same transaction.

`InboxSyncProofs` proves for every set of replies, every capacity and every
bound on disturbances, with and without durable commits:

| Theorem | Statement |
| --- | --- |
| `TypeCorrect` | `Spec => []TypeOK` |
| `NoReplyLost` | `Spec => []NothingIsLost` |
| `WatermarkCorrect` | `Spec => []WatermarkIsSound` |
| `AnalysedRepliesFrozen` | `Spec => AnalysedRepliesAreFrozen` |
| `CapacityCorrect` | `Spec => []CapacityIsExact` |
| `RefusalCorrect` | `Spec => RefusedIsNotKept` |
| `CustodyCorrect` | `Spec => CustodyIsKept`, the refinement of `ReplyCustody` |

They rest on `InboxAssumption` alone. The argument:

1. *The life of a reply on the website* (`StepOfOne`, `CloudSteps`). A call, in
   time or late, changes a reply in one of five ways: accepted, confirmed,
   quarantined, put back, given up. The rest of the proof is about these five
   and not about the calls that make them.
2. *The invariant* (`Inv`). `NothingIsLost` is not inductive, because the reply
   may be confirmed by a request that was sent before a power failure.
   `DiskOK` therefore says that a late confirmation names a reply on the disk,
   as a confirmed one does, and that a durable node's disk is its database while
   a cycle runs: a confirmation is sent only after such a commit. `CycleOK` says
   of the cycle's memory that what it will confirm waits for its confirmation in
   the database, and that a fetched reply which is not written is above the
   watermark. `AcceptedOK` ties status, body and sequence number.
3. *The watermark* (`Truthful`, `PassedOver`). The statement about the watermark
   must hold of the database as it is and as a power failure would leave it, so
   it is a predicate on a database and is proved of both. `PassedOver` is the
   step that matters: the plan of the cycle moves the watermark only over
   replies that are written, confirmed or given up.
4. *Capacity*. Every step adds or removes at most the bodies that it counts; the
   theorems on finite sets give the rest. `TypeOK` needs this result, because
   the counter is a natural number only as long as it is exact.
5. *Refinement* (`OneSideAtATime`, `HandsOver`, `WebsiteRefines`). A step either
   moves replies on the website or writes them to the disk, never both, and what
   the website releases is on the disk already by `DiskOK`. Each kind of step is
   then one step of `ReplyCustody` or a stutter.

`ResultPublishProofs` proves for every number of publications, replies,
definitions and disturbances:

| Theorem | Statement |
| --- | --- |
| `TypeCorrect` | `Spec => []TypeOK` |
| `IdentityCorrect` | `Spec => []IdentityIsFrozen` |
| `AcknowledgementCorrect` | `Spec => []AcknowledgementIsTrue` |
| `SupersededCorrect` | `Spec => []OnlySupersededIsStale` |

They rest on `PublishAssumption` alone. The argument:

1. *Rows* (`MarkedRows`, `RetriedRows`, `RecordedRows`). What a step makes of the
   upload rows is said once: a row keeps its identity, number and hash, its
   status changes in a few ways, and at most one row is new.
2. *Identity* (`IdentityInv`, `RowsInv`). The statement must cover every copy of
   an upload: the rows of the database and of the backup, the cycle's memory and
   the late ones. A new identity is above all drawn ones; what the cycle will
   send are pending rows of the database, so a content that was dropped is never
   sent.
3. *Display* (`DisplayInv`). `AcknowledgementIsTrue` needs to know that what is
   shown is in the history, and that a stale row is in the history without being
   shown. It is stated of the backup as well, because a restored database must
   not tell more than it knew.
4. *Order* (`NumbersInv`, `SupersededInv`). While no backup is restored, number,
   watermark and definition are in one order over all uploads, wherever they
   are, and no number is above the last one given out. A number that is higher
   than the one shown then always passes the two other comparisons.

`PaidAnalysisProofs` proves for every set of jobs, workers, tokens and contents,
every bound and every scenario:

| Theorem | Statement |
| --- | --- |
| `TypeCorrect` | `Spec => []TypeOK` |
| `CallsAreCountedFirst` | `Spec => []CallsAreReserved` |
| `ConsentPaysOnce` | `Spec => []ConsentIsSpentOnce` |
| `CallsExclude` | `Spec => []OneCallAtATime` |
| `UncertaintyStopsCalls` | `Spec => NoCallAfterUncertainty` |
| `CallsSendWhatWasConfirmed` | `Spec => PaidForWhatWasConfirmed` |

They rest on `ContentAssumption`, `BoundAssumption`, `ScenarioAssumption`,
`KeyAssumption` and `NoneAssumption`. The argument:

1. *Kinds of steps* (`StepKinds`). A step is a confirmation, a step of a call
   (`Calls`: its reservation, its sending, its answer), or it is `Quiet`: it makes
   no call, leaves the calls of the living workers alone, puts no grant into force
   and forgets no mark. The invariant about calls is proved for these kinds.
2. *Types with memory* (`TypeInv`). A worker that is not idle has a job with a
   grant, and one that computes a stage knows its number and its base; every
   grant that exists carries the identity it was confirmed for.
3. *Calls* (`CallsInv`). `CallsAreReserved` is not inductive. `Counted` adds that
   a worker that is about to send has a call in reserve, that its grant is
   marked in flight, and that no two workers call for one job; `OneInFlight`
   that a mark in flight is the only one of the survey and excludes another
   consent in force; `LostCall` that the mark of a call whose worker died is
   never taken for the mark of a living one. The action property about
   uncertainty is a consequence of the last two.
4. *Versions* (`VersionsInv`). The published version grows; a worker's base lies
   between the version its grant was signed for and the published one. The
   reservation compares only those two, and when they are equal the worker's base
   is both, so what it sends is what was confirmed.
5. *Keys* (`KeysInv`). No consent names a generation that is not written yet. A
   client of a job whose consent names the present one has a key that was stored
   under it: keys are only added under a generation, and when the next one is
   written the consent has the wrong one for ever. That there may be two keys under
   a generation is a disagreement of section 6.

`ImprovementsProofs` proves for every set of requests, people and items, every
finite set of addresses and every scenario, with accounts that change their address:

| Theorem | Statement |
| --- | --- |
| `TypeCorrect` | `Spec => []TypeOK` |
| `DraftsBecomeOneItem` | `Spec => []OneItemPerDraft` |
| `MailsAreAsConfirmed` | `Spec => []MailIsAsConfirmed` |
| `NoDeliveryIsMailedTwice` | `Spec => []NoSecondMail` |
| `WithdrawnPeopleGetNoMail` | `Spec => WithdrawalIsRespected` |

They rest on `AddressAssumption`, `NoneAssumption` and `ScenarioAssumption`. That
addresses are finite is needed by the page of a batch, which is chosen by size.
The argument:

1. *Types with memory* (`TypeInv`). A request between its transactions knows an
   item that exists, or the row, the person and the address it is about to mail.
2. *Drafts* (`DraftsInv`). Between the check and the insertion of an import the
   survey's lock is held: one request imports, and what it imports is no item yet.
3. *The notice* (`NoticeInv`). While the notice is a draft, nothing was mailed and
   nobody sends; from its confirmation on, its content is the confirmed one. A
   preview is not ahead of the notice's token, and with the same token it shows
   the same content, so the confirmation compares what the owner saw.
4. *Deliveries* (`DeliveryInv`). A row that a request tries is `sending`, and no
   second request tries it. A row that may be tried again was mailed at most as
   often as the server answered with an error after it had taken the mail
   (`unsure`); `NoSecondMail` allows for no more than those.
5. *Addresses* (`AddressInv`). Rows exist from the confirmation on, each for a person
   who has its address or has changed it since; so has the request that is about to
   mail, and so have the mails. With 4 this is `NoSecondMail`.
6. *Consent* (`ConsentInv`). Who is about to be mailed may be notified or withdrew
   after the request had looked.

`DefinitionSyncProofs` proves for every set of surveys, devices and sources, every
page size and every scenario, with an edit on each side and two tabs of the console:

| Theorem | Statement |
| --- | --- |
| `TypeCorrect` | `Spec => []TypeOK` |
| `CursorIsTheLinks` | `Spec => []CursorBelongsToLink` |
| `CopiesAreBoundToTheirSource` | `Spec => []NodeSourceMatchesDefinition` |
| `EditsAreKept` | `Spec => []NoEditIsLost` |
| `WritesAreTheOwners` | `Spec => []OnlyTheOwnerWrites` |
| `ChangesAreNotMissed` | `Spec => []NoChangeIsMissed`, when no pruning commits inside a request (`"late_prune" \notin Disturbances`) |

They rest on `DevicesAssumption`, `ExternalAssumption`, `PageAssumption` and
`ScenarioAssumption`. The hypothesis of the last theorem is the line between what
the code guarantees and what it does not: section 6 gives the run that loses a
change when a pruning commits between the two statements of a page. The argument:

1. *Kinds of steps* (`CloudKind`, `WriteKind`, `RegKind`, `LocalKind`, `SyncKind`).
   Each group of variables changes in a few ways, and every action is one way of
   each group.
2. *Types with memory* (`TypeInv`). Every version that a copy, a change, a page or
   a reply names is a version of its survey; a survey that was purged does not
   come back; a locked survey has one writer, and a number is drawn under the lock
   of the clock, so it is above all numbers of the log.
3. *Cursors* (`SyncInv`). A cycle whose link is still the one it started with holds
   the link's cursor, and nothing that a request has read is ahead of the clock.
4. *Edits* (`EditsInv`). An edit was made to the settings and questions of the
   version it expects; with the lock, the version it expects is the version that
   is replaced. An edit of the node that passed its check is of the owner.
5. *Changes* (`MissInv`, `PageIsAPrefix`, `PagesAreComplete`, `PagesAreApplied`).
   `NoChangeIsMissed` needs to know what is on the way: for each survey that the
   node copies, either its last version is local, or on the page, or the change to
   it is after the cursor that the page brings. A page is a prefix of the log from
   the cursor, which is not below what was pruned.

`SurveyRepliesProofs` proves for every set of cards and old questions, with any number
of options, every set of users and forms, and every scenario:

| Theorem | Statement |
| --- | --- |
| `TypeCorrect` | `Spec => []TypeOK` |
| `NamesAreForever` | `Spec => []CodesAreNotReused` |
| `AnswersAreClassed` | `Spec => []NoAnswerIsInvalid` |
| `RepliesAreSingle` | `Spec => []OneReplyPerCustomer` |
| `ThanksAreDue` | `Spec => []ThankedMeansStored` |
| `MailsAreSingle` | `Spec => []OneMailPerReply` |

They rest on `UsersAssumption`, `ScenarioAssumption`, `CardsAssumption` (a card is
what `QuestionCardForm` can post; the question of a survey that starts out published
was accepted) and `LegacyAssumption` (the replies to an old scale hold points that its
form offered, and no line of an old question is blank). The argument:

1. *Selections* (`SelectedIs`, `SelectAll`, `SelectedAsMany`). The n-th member of a
   selection is the one whose position has rank n. A finite set of numbers has exactly
   one member of each rank (`RankExists`, `DifferentRanks`), so a selection has each
   selected member once, nothing else, and is the whole sequence when all are selected.
   No induction over sequences is needed.
2. *Questions* (`NormalizeIs`, `StoredCodes`, `NormalizedAlready`, `AcceptableKept`).
   A stored question is a fixed point of `normalize_question`: its rows are not blank,
   each has a code, and the counter is above all codes. New codes are numbers from
   the counter on, all different, so an accepted card is accepted after storing.
3. *Revisions* (`RevisionsContinue`). `CodesAreNotReused` is about three revisions and
   not inductive. `Continues` is about two: counters do not fall, and what a later
   revision has below an earlier counter, the earlier one had. It is reflexive and
   transitive, so each edit needs it only of the live definition and the next.
4. *Answers* (`FormsAreFilledIn`, `RepliesAreReadable`). What is posted was offered;
   what is stored names options of the question, or points of its scale, because the
   definition is fixed while forms are open. The migration is the same claim for the
   values of old replies (`ConvertedIsReadable`), from what `_problems` refuses.
5. *Replies* (`OneReplyPerCustomer`, `StoredBeforeThanks`, `MailsFollowReplies`). The
   first is inductive with the fact that a reply of the website is never abandoned:
   `has_submitted` then overlooks none. Between a new reply and its success page the
   reply is the post's, and its mail has not been sent.

Of `EvidenceCatalog` `PaidAnalysisProofs` proves for every set of replies, columns, texts and every threshold:

| Theorem | Statement |
| --- | --- |
| `StatisticsRowsAreSound` | a statistical row of the catalogue counts at least `MinResponses` replies, all of them in its sample |
| `TextRowsAreSound` | the same of the catalogue's words and moods, with occurrences for words |
| `MergedAreSeveral` | what is shown as merged are at least two groups |
| `DistributionIdsAreUnique` | rows with one id are one row, when no two options clean to the same text |

The counts are cardinalities of subsets of a finite set, so each follows from the
guard that admits the row and the theorems on finite sets; `MergedAreSeveral` needs
that a hidden group is below the threshold and the merged sum is not.

Of `StageAnswers` it proves for every catalogue, registry and answer:

| Theorem | Statement |
| --- | --- |
| `StoredReferenceNamesTheSameRow` | a reference and the id stored for it name the same row, even when an id looks like an alias |
| `BadFindingsDoNotCostTheStage` | an answer of the right shape is accepted once sanitised |
| `StoredFindingsAreGrounded` | every number in a stored finding is one that its cited rows give |
| `SynthesisSurvivesBadRows` | a synthesis fails only by its frame or by too many good rows |

`MalformedIsNoList` says that the constant for "no list" is none of the lists and records
it stands beside. Otherwise the hypotheses are those of the code: the aliases differ
from one another, the answer has the shape that the parser lets through.

`DatasetProofs` proves for every set of importers, files, keys and contents, every chunk
size and every bound:

| Theorem | Statement |
| --- | --- |
| `TypesAreCorrect` | `Spec => []TypeOK` |
| `NoRecordIsLost` | `Spec => []CompletedMeansStored` |
| `ImportsAreAnnounced` | `Spec => []EndedImportsAreAnnounced` |
| `CountersAreTrue` | `Spec => []BatchCountsAreTrue` |
| `RecordsAreNeverReplaced` | `Spec => RecordsStay` |

They rest on `BoundAssumption`, `NoneAssumption` and `CaseAssumption`. The argument:

1. *Reading* (`ReadIs`, `ReadSees`). What one row does to an importer is said once: it
   is accepted and then seen, or exactly one of the counters goes up.
2. *What an import has read* (`ReadSoFar`, `NothingIsDropped`). `CompletedMeansStored` is
   about the end of an import and not inductive. Until then, every key the importer has
   seen is stored, or among what it inserted and has not committed, or at hand: in the
   rows of its sample or chunk. The rows of a chunk leave only for the other two.
3. *The transaction of a chunk* (`Transaction`, `KeysAreHeldOnce`). What was inserted are
   candidates already tried; nobody else has a transaction or a committed record with
   their keys. So a commit adds records and replaces none (`RecordsStay`, stated beside
   its proof).
4. *The order of the fallback* (`LeastIs`). It takes the first candidate left, which
   exists because numbers are well founded.
5. *Counters* (`RepliesAreCounted`, `RowsAreCounted`, `StoredInBatches`). A batch has
   counted what is stored for it, also while it runs and after a kill; the rows read are
   those imported, skipped, repeated, or at hand.
6. *Announcement* (`Announced`). What waits was stored by a batch that has not ended: the
   status and the announcement change in one step, or the import was killed and its batch
   stays open.

Of `LocalDataset` it proves for every locked file, every set of mappings and any number of
preparations, jobs, crashes, failed downloads and hands on the files:

| Theorem | Statement |
| --- | --- |
| `LocalTypesAreCorrect` | `LocalSpec => []LocalTypeOK` |
| `ManifestsAreTrue` | `LocalSpec => []ManifestIsTrue` |
| `ResultsAreOfTheVersion` | `LocalSpec => []PublishedIsRegistered` |
| `FilesAreNeverOverwritten` | `LocalSpec => NothingIsOverwritten` |

They rest on `DatasetsAssumption`, `LocalBoundAssumption`, `MissingAssumption` and
`MappingAssumption`. The argument:

1. *The clean layer* (`ThreePartsOf`, `ReportReconciles`, `CleanIsExact`). Kept, removed
   and conflicting rows divide the eligible ones, so the counts of the report add up to
   the rows of the file; a key whose rows agree has exactly one kept row, its first.
2. *The preparation* (`NotYetWritten`, `WrittenFromLocked`, `VouchesForLocked`). What a
   preparation has yet to write is not there, so it never overwrites; what it has written,
   when no hand came between, is computed from the locked bytes. With the first point
   the manifest is true.
3. *The analysis* (`Snapshots`, `OneVersionEach`, `ReadsRegistered`, `Signed`). A
   validation compares the files with what it hashed and parsed before. From then on the
   clean file has the registered content as long as its modification time is the one that
   was signed: the signature is never ahead of the clock of the file, and a preparation
   cannot replace a file that is there.

The attempt to prove `PublishedIsRegistered` corrected it: four hands refute it when only
changes after the validation count as unnoticed. The mapping is changed after it was hashed
and put back after it was parsed, once while the console validates and once while the
worker does; both hashes agree, and the analysis reads another mapping than the registered
one. The run has two hands and could not show it. A mapping touched while the worker
validates is therefore `Unguarded`.

## 5. Only model-checked

- Everything under fairness: `ChangesSettle`, `IntakeCatchesUp`, `NewestIsShown`,
  `NodeCatchesUp`, `BatchFinishes`, `GrantSettles`, `CrashIsDetected`, `OrphansLeave`.
  TLAPS has no rules for `ENABLED`.
- The properties of `NodeLauncher`, most of which are about what eventually happens.
- `NoChangeIsMissed` together with a pruning inside a request: it does not hold there (section 6).
- The assumptions of `MCStageAnswers` about number texts: whether a sentence is
  covered by its evidence is a recursive computation over text.
- The counterexamples of section 6.

Some definitions are properties without a run of their own, because another one says
more or fails with them. They hold under the instance of their module's run, with
the property put in the place of the listed ones: the `TypeOK` of every module with
variables; in `AnalysisJobs` `RetryIsFinite`, `OneOwnerPerJob` (both proved) and
`RunningEnds`; in `InboxSync` `NothingIsLost`, `RefusedIsNotKept` (both proved)
and `AcksAreConfirmed`; in `Improvements` `HistoryExplainsItem`,
`FinishedCountsAddUp`, `NoNoticeForArchived`; in `DefinitionSync` `PublishedIsFrozen`,
`AnalysisVersionNamesOneConfiguration`, `OnlyTheOwnerWrites` (proved); in `PaidAnalysis`
`OneCallAtATime` (proved); in `DatasetImport` `BatchCountsAreTrue` and in `LocalDataset`
`NothingIsOverwritten` (both proved); in `NodeLauncher` `FilesAreOwn`, `OneSupervisedWorker`; in
`SurveyReplies` `OneMailPerReply` (proved).

## 6. Where code and documentation disagree

`PaidBlocked` is a run because it is a plain error of the code: a comment in
`confirm` says that an obsolete consent does not block a new version
(`node/gemini.py:110`), but a job that goes back to pending for a retry keeps its failed
grant. No worker of the node claims it, and every later confirmation finds that row
and tries to give it a second grant, which the one-to-one key refuses
(`node/gemini.py:115`), until the owner cancels the job. `NewConsentIsAccepted` says
what the comment says.

The others are defined as properties of their modules and fail under the instance
that is given, a `.cfg` with the change that is named:

| Property and instance | Documentation | Code |
| --- | --- | --- |
| `LoopSurvivesFailures` with `JobsProgress.cfg` | the command keeps claiming work (`run_analysis_worker.py:28`) | `fail_job` may violate the one-pending-row index inside the exception clause, and the process ends (`run_analysis_worker.py:57`) |
| `DisabledSurveyIsNotAnalysed` with `JobsProgress.cfg` | `analysis_enabled` controls analysis (`docs/architecture.md:214`) | a job that runs when analysis is switched off is queued again at the new versions and published (`analysis_jobs.py:461`) |
| `CancellationEnds` with `JobsProgress.cfg`, `Disturbances = {"kill", "cancel"}`, `MaxEvents = 2` | the queue supports cancellation (`README.md:62`) | a row whose cancellation was requested is not reclaimed: if its worker dies before the last attempt, it runs for ever (`analysis_jobs.py:272`) |
| `CallUsesConfirmedKey` with `Paid.cfg` | each confirmation is bound to the version of the credential (`README.md:160`); after a change old confirmations become void (`node/views.py:129`) | `set_key` writes the key (`node/gemini.py:46`) and then its generation (`:52`), two entries of the vault: between the writes, and for good when the process dies there, a client reads the new key while the reservation still finds the old generation. `PaidForWhatWasConfirmed` says what does hold: the key was stored under the confirmed generation |
| `AbandonedIsLost` with `Inbox.cfg` | an abandoned reply is lost (`cloudapi/inbox.py:273`) | a quarantine request carried out late can quarantine a reply that the node has fetched meanwhile: it is abandoned and analysed (`cloudapi/inbox.py:194`) |
| `NextPublicationReplaces` with `Result.cfg`, `MaxPublications = 3` | what is stale because its number was used is replaced by the next publication, which takes a new number (`docs/superpowers/specs/2026-10-01-cloud-sync-design.md:263`) | numbers overlap only after a restored backup, and the restored watermark stays below the one shown when confirmed replies are gone with their bodies: every later publication is stale as well (`cloudapi/results.py:152`) |
| `NoChangeIsMissed` with `Definitions.cfg`, `Scenarios <- SlowReader`, "late_prune" for "prune" there | a reader whose cursor was pruned is told to start again (`2026-10-01-cloud-sync-design.md:140`, `:156`, `prune_survey_changes.py:11`) | the page compares the cursor with `pruned_through` and reads its rows in two statements (`cloudapi/views.py:53`, `:55`): a pruning that commits between them (`prune_survey_changes.py:24`) leaves a page with a hole and no 410 |
| `FailuresCanBeRetried` with `Improvements.cfg`, `Scenarios <- Interrupted` | where deliveries failed, a retry is offered (`2026-10-29-notice-loop-design.md:50`) | not while a delivery of a killed process is still `sending` (`notice_service.py:388`), which is for ever |
| `ConflictsAreReported` with `Import.cfg` | a record with a known key and other content is listed as a conflict (`docs/external-dataset-import.md:122`, `docs/architecture.md:215`) | the fallback counts every integrity error as a repetition, also where another importer has stored other content since the chunk was checked (`importing/service.py:526`) |
| `ChangesFailClosed` with `Dataset.cfg` | changes between validation and the worker's use fail closed (`external_dataset.py:53`, `docs/external-dataset-import.md:19`) | the worker validates the files (`analysis_worker.py:107`) and takes the signature that it watches afterwards: a change between the two is analysed, and one of the mapping up to its read after the signature; so is a mapping that is changed and put back while the console, and again while the worker, validates (`external_dataset.py`; this takes four hands) |

Three more are read from the code without a model: the inbox has no check for repeats
when a form is posted, only the page that shows it has (`cloudapi/inbox.py:98`,
`views.py:1095`; `2026-10-29-notice-loop-design.md:79`); the compact retry after a rate
limit never happens on a node (`docs/technical-showcase.md:59`); a restart that
fails ends the supervision without a trace (`node_runtime.py:157`), while the console
shows a busy worker as well on the word of the supervisor (`node/status.py:63`).

## 7. Not modelled

- *Job display* (`job_progress.py`, `node/job_display.py`, the display part of
  `published_analysis.py`): functions of rows that other modules write.
- *Accounts* (but for the consent and the address that `Improvements` lets a customer
  change), *organizations, admin and the pages that only read*: Django's own
  machinery, or queries without a state change.
- *Seed and demonstration scripts*: they write once, into an empty database.
- *The purge of surveys with replies*, the release of bodies with it, and surveys
  from before the exchange.
- *The arithmetic* of charts and tests, word segmentation and mood scores, the
  wording of prompts and the counts of tokens: functions of their inputs; what the
  models keep of them is who is behind a result.
- *Uploads of external data sets* in `ResultPublish`, the byte limit of the inbox, the
  self-test scope, first-run setup and the update check.

## 8. Plan

1. The watermark of `InboxSync` composed with `InputChanges` of `AnalysisJobs`; an
   abstract life of a job row that `AnalysisJobs` and `PaidAnalysis` implement.
2. Uploads of external data sets, the purge.
