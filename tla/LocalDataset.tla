------------------------------ MODULE LocalDataset ------------------------------
(***************************************************************************)
(* A large external data set on a local node. prepare_local_dataset        *)
(* (feedback/importing/local_dataset.py) downloads a locked Parquet file,  *)
(* cleans its rows and leaves a clean file, a report and a manifest that   *)
(* vouches for them; the console registers what a manifest and a mapping   *)
(* say (feedback/external_dataset.py, node/datasets.py); and the worker    *)
(* analyses the registered version (feedback/analysis_adapters.py,         *)
(* analysis_worker.py). The three only share files. A preparation may fail *)
(* or be killed at any step and be run again; a person may change or       *)
(* remove any of the files at any time.                                    *)
(*                                                                         *)
(* A file's content stands for its bytes and its SHA-256. A row is its     *)
(* identity (hotel, user and date), everything else it says, and the first *)
(* rule that excludes it. One preparation runs at a time.                  *)
(***************************************************************************)
EXTENDS Integers, FiniteSets, Sequences

CONSTANTS
    Datasets,        \* rows of the locked file
    Mappings,        \* contents of the mapping file that belong to the same survey
    MaxPreparations, \* bound on preparations
    MaxJobs,         \* bound on registrations and on jobs
    MaxHands,        \* bound on failed downloads, crashes and hands on the files
    Locked,          \* the bytes of the locked file
    Other, Short,    \* other bytes, as many as the locked ones or fewer
    Missing

FileRow == [key : {"k1", "k2"}, text : {"a", "b"}, reason : {Missing, "missing_text", "invalid_overall"}]

ASSUME DatasetsAssumption == \A rs \in Datasets : rs \in Seq(FileRow)
ASSUME LocalBoundAssumption == MaxPreparations \in Nat /\ MaxJobs \in Nat /\ MaxHands \in Nat
ASSUME MissingAssumption ==
    Missing \notin {Other, Short, Locked} /\ Other \notin {Short, Locked} /\ Short # Locked
ASSUME MappingAssumption == Mappings # {} /\ Missing \notin Mappings

VARIABLES
    locked,         \* the rows of the locked file
    files,          \* the content of each file, Missing when it is not there
    stamp,          \* the modification time of the clean file
    prep,           \* the preparation
    verify,         \* validate_external_dataset of the console and of the worker
    versions,       \* the registered versions, each with its location
    active,         \* the content of the version the survey uses
    job,            \* the worker's job
    published,      \* the published result
    runs, hands     \* preparations and jobs, and disturbances, so far

localVars == <<locked, files, stamp, prep, verify, versions, active, job, published, runs, hands>>

(***************************************************************************)
(* The clean layer: build_clean_layer                                      *)
(***************************************************************************)

Eligible(rs) == {n \in DOMAIN rs : rs[n].reason = Missing}
SameKey(rs, n) == {m \in Eligible(rs) : rs[m].key = rs[n].key}
Texts(rs, n) == {rs[m].text : m \in SameKey(rs, n)}
Unanimous(rs, n) == Cardinality(Texts(rs, n)) = 1

\* One row of each key whose rows all say the same.
Kept(rs) == {n \in Eligible(rs) : Unanimous(rs, n) /\ \A m \in SameKey(rs, n) : n <= m}

Clean(rs) == [n \in Kept(rs) |-> rs[n]]

\* Rows of a key that says the same more than once, and rows of keys that contradict themselves.
Removed(rs) == {n \in Eligible(rs) : Unanimous(rs, n) /\ \E m \in SameKey(rs, n) : m < n}
Conflicting(rs) == {n \in Eligible(rs) : ~Unanimous(rs, n)}

Report(rs) ==
    [input |-> Len(rs), retained |-> Cardinality(Kept(rs)),
     excluded |-> Len(rs) - Cardinality(Eligible(rs)),
     removed |-> Cardinality(Removed(rs)), conflicting |-> Cardinality(Conflicting(rs))]

Reconciled(r) == r.retained + r.excluded + r.removed + r.conflicting = r.input

\* What the bytes of a raw file say. Other bytes are some other table.
RowsOf(raw) == IF raw = Locked THEN locked ELSE <<>>

(***************************************************************************)
(* Preparing                                                               *)
(***************************************************************************)

NoPrep == [pc |-> "idle", attempt |-> 0, outcome |-> Missing, clean |-> Missing, report |-> Missing,
           untouched |-> TRUE]

Prepared == {"raw", "clean", "report", "manifest"}

\* The manifest is there and every artifact it lists has the size and the hash it says.
Cached ==
    /\ files.manifest \notin {Missing, Other, Short}
    /\ \A f \in {"raw", "clean", "report"} : files[f] # Missing /\ files[f] = files.manifest[f]

At(pc) == prep.pc = pc
Stop == prep' = NoPrep
Unprepared == UNCHANGED <<locked, verify, versions, active, job, published>>

Occupied == \E f \in {"manifest", "clean", "report"} : files[f] # Missing

\* A valid manifest is used again; anything else that is there is never overwritten.
Begin ==
    /\ At("idle") /\ runs.prepare < MaxPreparations
    /\ runs' = [runs EXCEPT !.prepare = @ + 1]
    /\ IF Cached \/ Occupied
         THEN Stop
         ELSE prep' = [NoPrep EXCEPT !.pc = "raw"]
    /\ Unprepared /\ UNCHANGED <<files, stamp, hands>>

\* A raw file that is there is used only when it has the locked size and hash.
FindRaw ==
    /\ At("raw")
    /\ CASE files.raw = Locked -> prep' = [prep EXCEPT !.pc = "build"]
         [] files.raw = Missing -> prep' = [prep EXCEPT !.pc = "download"]
         [] files.raw \in {Other, Short} -> Stop
    /\ Unprepared /\ UNCHANGED <<files, stamp, runs, hands>>

\* The stream writes a .part file: all of it, or other bytes, or not all of them.
Stream ==
    /\ At("download")
    /\ \E part \in {Locked, Other, Short} :
          /\ part # Locked => hands < MaxHands
          /\ files' = [files EXCEPT !.part = part]
          /\ hands' = IF part = Locked THEN hands ELSE hands + 1
    /\ prep' = [prep EXCEPT !.pc = "downloaded"]
    /\ Unprepared /\ UNCHANGED <<stamp, runs>>

\* Mutant: the size is checked, the hash is not.
AcceptedBySize == files.part # Short

AcceptedPart == files.part = Locked

PublishRaw ==
    /\ At("downloaded") /\ AcceptedPart
    /\ files' = [files EXCEPT !.raw = files.part, !.part = Missing]
    /\ prep' = [prep EXCEPT !.pc = "build"]
    /\ Unprepared /\ UNCHANGED <<stamp, runs, hands>>

\* One retry.
DropPart ==
    /\ At("downloaded") /\ ~AcceptedPart
    /\ files' = [files EXCEPT !.part = Missing]
    /\ IF prep.attempt = 0 THEN prep' = [prep EXCEPT !.pc = "download", !.attempt = 1] ELSE Stop
    /\ Unprepared /\ UNCHANGED <<stamp, runs, hands>>

\* The rows are read and cleaned into a .part file; their counts must reconcile.
Build ==
    /\ At("build")
    /\ IF files.raw # Missing /\ Reconciled(Report(RowsOf(files.raw)))
         THEN prep' = [prep EXCEPT !.pc = "report", !.clean = Clean(RowsOf(files.raw)),
                                   !.report = Report(RowsOf(files.raw))]
         ELSE Stop
    /\ Unprepared /\ UNCHANGED <<files, stamp, runs, hands>>

WriteReport ==
    /\ At("report")
    /\ files' = [files EXCEPT !.report = prep.report]
    /\ prep' = [prep EXCEPT !.pc = "clean"]
    /\ Unprepared /\ UNCHANGED <<stamp, runs, hands>>

PublishClean ==
    /\ At("clean")
    /\ files' = [files EXCEPT !.clean = prep.clean]
    /\ stamp' = stamp + 1
    /\ prep' = [prep EXCEPT !.pc = "manifest"]
    /\ Unprepared /\ UNCHANGED <<runs, hands>>

\* The sizes and hashes of the files as they are now; of the raw file the hash of the download,
\* which with another size is the hash of nothing.
\* (untouched is history: nobody changed a file while this preparation ran.)
Manifest ==
    [raw |-> IF files.raw = Short THEN Missing ELSE Locked, clean |-> files.clean, report |-> files.report,
     rows |-> prep.report.retained, untouched |-> prep.untouched]

WriteManifest ==
    /\ At("manifest")
    /\ files' = IF \A f \in {"raw", "clean", "report"} : files[f] # Missing
                THEN [files EXCEPT !.manifest = Manifest] ELSE files
    /\ Stop
    /\ Unprepared /\ UNCHANGED <<stamp, runs, hands>>

\* The process is killed, or a step raises: what it has published stays.
Crash ==
    /\ ~At("idle") /\ hands < MaxHands
    /\ hands' = hands + 1
    /\ Stop
    /\ Unprepared /\ UNCHANGED <<files, stamp, runs>>

Prepare ==
    \/ Begin \/ FindRaw \/ Stream \/ PublishRaw \/ DropPart \/ Build
    \/ WriteReport \/ PublishClean \/ WriteManifest \/ Crash

(***************************************************************************)
(* Validating a manifest and a mapping: validate_external_dataset          *)
(***************************************************************************)

Users == {"console", "worker"}
NoVerify == [pc |-> "idle", hashed |-> Missing, read |-> Missing]
Verifying(u, pc) == verify[u].pc = pc
Unverified == UNCHANGED <<locked, files, stamp, prep, published, hands>>

Here == [manifest |-> files.manifest, mapping |-> files.mapping]
Readable(h) == h.manifest \notin {Missing, Other, Short} /\ h.mapping # Missing

\* The console may validate at any time; the worker validates for its job.
Hash(u) ==
    /\ Verifying(u, "idle") /\ (u = "worker" => job.pc = "claimed")
    /\ u = "console" => runs.register < MaxJobs
    /\ runs' = IF u = "console" THEN [runs EXCEPT !.register = @ + 1] ELSE runs
    /\ verify' = [verify EXCEPT ![u] = [NoVerify EXCEPT !.pc = "hashed", !.hashed = Here]]
    /\ job' = IF u = "worker" THEN [job EXCEPT !.pc = "validating"] ELSE job
    /\ Unverified /\ UNCHANGED <<versions, active>>

Parse(u) ==
    /\ Verifying(u, "hashed")
    /\ verify' = [verify EXCEPT ![u].pc = "parsed", ![u].read = Here]
    /\ Unverified /\ UNCHANGED <<versions, active, job, runs>>

\* The clean file is as the manifest says, and both files are as they were hashed.
Valid(u) ==
    /\ Readable(verify[u].read) /\ Readable(verify[u].hashed)
    /\ verify[u].read.manifest.rows > 0
    /\ files.clean = verify[u].read.manifest.clean
    /\ files.report \notin {Other, Short}
    /\ Here = verify[u].hashed

\* source_version, counts, mapping and the date of the latest row, which the report tells.
Registration(u) ==
    [content |-> verify[u].read.manifest.clean, rows |-> verify[u].read.manifest.rows,
     mapping |-> verify[u].read.mapping, latest |-> files.report]

(***************************************************************************)
(* Registering: register_local_dataset                                     *)
(***************************************************************************)

\* The version with the files it was read from.
Located(registration) == [registration |-> registration, location |-> verify["console"].hashed]

\* A version is known by its content and immutable: registered again, it must say the same.
\* Its location follows the files; the survey uses the version registered last.
Register ==
    /\ Verifying("console", "parsed")
    /\ verify' = [verify EXCEPT !["console"] = NoVerify]
    /\ LET new == Registration("console")
           known == {v \in versions : v.registration.content = new.content}
       IN  IF Valid("console") /\ \A v \in known : v.registration = new
             THEN versions' = (versions \ known) \union {Located(new)} /\ active' = new.content
             ELSE UNCHANGED <<versions, active>>
    /\ Unverified /\ UNCHANGED <<job, runs>>

(***************************************************************************)
(* Analysing: input_for_job, ParquetInput, execute_deterministic_job       *)
(***************************************************************************)

NoJob == [pc |-> "idle", version |-> Missing, mapping |-> Missing, signature |-> 0,
          statistics |-> Missing, text |-> Missing, raced |-> FALSE]
JobAt(pc) == job.pc = pc

Claim ==
    /\ JobAt("idle") /\ active # Missing /\ runs.job < MaxJobs
    /\ runs' = [runs EXCEPT !.job = @ + 1]
    /\ job' = [NoJob EXCEPT !.pc = "claimed", !.version = active]
    /\ Unverified /\ UNCHANGED <<verify, versions, active>>

Version == CHOOSE v \in versions : v.registration.content = job.version

\* The files are those of the location, and they say what was registered.
Bound(u) ==
    /\ verify[u].hashed = Version.location
    /\ Registration(u) = Version.registration

CheckLocation ==
    /\ JobAt("validating") /\ Verifying("worker", "parsed")
    /\ verify' = [verify EXCEPT !["worker"] = NoVerify]
    /\ job' = IF Valid("worker") /\ Bound("worker") THEN [job EXCEPT !.pc = "validated"] ELSE NoJob
    /\ Unverified /\ UNCHANGED <<versions, active, runs>>

\* The manifest is read again; the clean file must have its hash, and that of the version.
InputMatches ==
    /\ Readable(Here)
    /\ files.clean = files.manifest.clean
    /\ files.manifest.clean = job.version

OpenInput ==
    /\ JobAt("validated")
    /\ job' = IF InputMatches THEN [job EXCEPT !.pc = "opened"] ELSE NoJob
    /\ Unverified /\ UNCHANGED <<verify, versions, active, runs>>

\* The signature of the clean file is taken ...
SignInput ==
    /\ JobAt("opened")
    /\ job' = IF files.clean # Missing THEN [job EXCEPT !.pc = "signed", !.signature = stamp] ELSE NoJob
    /\ Unverified /\ UNCHANGED <<verify, versions, active, runs>>

\* ... and then the mapping is read.
ReadMapping ==
    /\ JobAt("signed")
    /\ job' = IF files.mapping # Missing
              THEN [job EXCEPT !.pc = "statistics", !.mapping = files.mapping] ELSE NoJob
    /\ Unverified /\ UNCHANGED <<verify, versions, active, runs>>

Statistics ==
    /\ JobAt("statistics")
    /\ job' = IF files.clean # Missing THEN [job EXCEPT !.pc = "text", !.statistics = files.clean] ELSE NoJob
    /\ Unverified /\ UNCHANGED <<verify, versions, active, runs>>

Text ==
    /\ JobAt("text")
    /\ job' = IF files.clean # Missing THEN [job EXCEPT !.pc = "verify", !.text = files.clean] ELSE NoJob
    /\ Unverified /\ UNCHANGED <<verify, versions, active, runs>>

\* Mutant: the file is not looked at again.
UnchangedByTrust == TRUE

Unchanged == files.clean # Missing /\ stamp = job.signature

VerifyUnchanged ==
    /\ JobAt("verify")
    /\ job' = IF Unchanged THEN [job EXCEPT !.pc = "publish"] ELSE NoJob
    /\ Unverified /\ UNCHANGED <<verify, versions, active, runs>>

Publish ==
    /\ JobAt("publish")
    /\ published' = [version |-> Version.registration, statistics |-> job.statistics,
                     text |-> job.text, mapping |-> job.mapping, raced |-> job.raced]
    /\ job' = NoJob
    /\ UNCHANGED <<locked, files, stamp, prep, verify, versions, active, runs, hands>>

Analyse ==
    \/ Claim \/ CheckLocation \/ OpenInput \/ SignInput \/ ReadMapping
    \/ Statistics \/ Text \/ VerifyUnchanged \/ Publish

(***************************************************************************)
(* Hands on the files                                                      *)
(***************************************************************************)

\* Between the validation and the signature of the input a change is not noticed, of the mapping
\* not until it is read; nor is one of the mapping that is taken back before the validation
\* compares the hashes. raced is history for the properties.
Unguarded(f) ==
    job.pc \in {"validated", "opened"} \/ (job.pc \in {"validating", "signed"} /\ f = "mapping")

Touch(f, content) ==
    /\ files[f] # Missing /\ hands < MaxHands
    /\ hands' = hands + 1
    /\ files' = [files EXCEPT ![f] = content]
    /\ stamp' = IF f = "clean" THEN stamp + 1 ELSE stamp
    /\ prep' = IF At("idle") THEN prep ELSE [prep EXCEPT !.untouched = FALSE]
    /\ job' = IF Unguarded(f) THEN [job EXCEPT !.raced = TRUE] ELSE job
    /\ UNCHANGED <<locked, verify, versions, active, published, runs>>

Hands ==
    \/ \E f \in Prepared, content \in {Other, Short, Missing} : Touch(f, content)
    \/ \E content \in Mappings : content # files.mapping /\ Touch("mapping", content)

LocalInit ==
    /\ locked \in Datasets
    /\ files = [raw |-> Missing, part |-> Missing, clean |-> Missing, report |-> Missing,
                manifest |-> Missing, mapping |-> CHOOSE content \in Mappings : TRUE]
    /\ stamp = 0
    /\ prep = NoPrep
    /\ verify = [u \in Users |-> NoVerify]
    /\ versions = {} /\ active = Missing /\ published = Missing
    /\ job = NoJob
    /\ runs = [prepare |-> 0, register |-> 0, job |-> 0]
    /\ hands = 0

LocalNext ==
    \/ Prepare
    \/ \E u \in Users : Hash(u) \/ Parse(u)
    \/ Register \/ Analyse \/ Hands

LocalSpec == LocalInit /\ [][LocalNext]_localVars

-----------------------------------------------------------------------------

\* A registered version has rows and a mapping of this survey; the survey uses one of them.
IsVersion(v) == v.registration.rows \in Nat \ {0} /\ v.registration.mapping \in Mappings
Selectable == {Missing} \union {v.registration.content : v \in versions}

\* A version is registered once for each content, the survey uses one of them, and the worker
\* has what an earlier step read.
LocalTypeOK ==
    /\ \A v, u \in versions : v.registration.content = u.registration.content => v = u
    /\ \A v \in versions : IsVersion(v)
    /\ active \in Selectable
    /\ job.pc # "idle" => \E v \in versions : v.registration.content = job.version
    /\ job.pc \in {"statistics", "text", "verify", "publish"} => job.mapping \in Mappings
    /\ published # Missing => published.version.mapping \in Mappings
    /\ runs.prepare \in 0 .. MaxPreparations /\ runs.register \in 0 .. MaxJobs /\ runs.job \in 0 .. MaxJobs
    /\ hands \in 0 .. MaxHands

\* A clean layer is exact when it keeps one row of each key that an eligible row has and whose
\* eligible rows agree, and none of a key whose rows contradict each other.
Exact(clean) ==
    LET eligible == {locked[n] : n \in {m \in DOMAIN locked : locked[m].reason = Missing}}
        kept(k) == {n \in DOMAIN clean : clean[n].key = k}
        texts(k) == {r.text : r \in {e \in eligible : e.key = k}}
    IN  \A k \in {"k1", "k2"} :
            /\ Cardinality(kept(k)) = IF Cardinality(texts(k)) = 1 THEN 1 ELSE 0
            /\ \A n \in kept(k) : clean[n] \in eligible

\* A manifest written by a preparation that nobody interfered with vouches for the exact clean
\* layer of the locked bytes and for a report that accounts for every row, whatever failed
\* downloads, crashes, leftovers and changed files came before it.
ManifestIsTrue ==
    files.manifest \notin {Missing, Other, Short} /\ files.manifest.untouched =>
        /\ files.manifest.raw = Locked
        /\ Exact(files.manifest.clean)
        /\ files.manifest.report.input = Len(locked)
        /\ files.manifest.report.retained = Cardinality(DOMAIN files.manifest.clean)
        /\ Reconciled(files.manifest.report)

\* A published result comes from the registered bytes and mapping in both of its parts, unless
\* the mapping changed between the start of the worker's validation and its read of the mapping,
\* or any other file between the validation and the signature of the input.
PublishedIsRegistered ==
    published # Missing /\ ~published.raced =>
        /\ published.statistics = published.version.content
        /\ published.text = published.version.content
        /\ published.mapping = published.version.mapping

\* Changes between the validation and the worker's use of the files fail closed.
ChangesFailClosed ==
    published # Missing =>
        /\ published.statistics = published.version.content
        /\ published.text = published.version.content
        /\ published.mapping = published.version.mapping

\* What a preparation published it never replaces, nor does a later one: a published file
\* changes only by another hand.
NothingIsOverwritten ==
    [][\A f \in Prepared : files[f] # Missing /\ hands' = hands => files'[f] = files[f]]_localVars

=============================================================================
