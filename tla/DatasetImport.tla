----------------------------- MODULE DatasetImport -----------------------------
(***************************************************************************)
(* Importing a small external data set into a survey                       *)
(* (feedback/importing/service.py, import_feedback_dataset): a process     *)
(* reads a file row by row, keeps the valid rows that it has not seen or a *)
(* sample of them, and writes them chunk by chunk, each chunk in one       *)
(* transaction with the counters of its batch. A record of the source is   *)
(* stored at most once, under a unique key; two processes may import at    *)
(* the same time, any of them may fail or be killed, and be run again.     *)
(*                                                                         *)
(* The database is PostgreSQL at READ COMMITTED: a statement sees what is  *)
(* committed, and an insert waits for the other transaction that holds its *)
(* key. SQLite runs one of these transactions at a time, which is one of   *)
(* the orders below. What a row says is its content; how its cells are     *)
(* normalised only decides whether it is valid and what the content is.    *)
(***************************************************************************)
EXTENDS Integers, FiniteSets, Sequences

CONSTANTS
    Importers,      \* processes that import
    Keys,           \* stable keys of source records
    Contents,       \* what a record may say
    Questions,      \* codes of questions
    Cases,          \* an importer's file, its limit, its mapping's questions and the survey at first
    ChunkSize,      \* import_dataset: batch_size
    MaxRuns,        \* bound on the times one importer is started
    MaxEvents,      \* bound on errors and kills
    None

Invalid == [key |-> None, content |-> None]
Row == [key : Keys, content : Contents]
Surveys == [exists : BOOLEAN, published : BOOLEAN, questions : SUBSET Questions]

ASSUME BoundAssumption == ChunkSize \in Nat \ {0} /\ MaxRuns \in Nat /\ MaxEvents \in Nat
ASSUME NoneAssumption ==
    None \notin Keys \union Contents \union
               [key : Keys, content : Contents, batch : Nat, versioned : BOOLEAN]
ASSUME CaseAssumption ==
    \A c \in Cases :
        /\ c.file \in [Importers -> Seq(Row \union {Invalid})]
        /\ c.limit \in [Importers -> (Nat \ {0}) \union {None}]
        /\ c.mapping \in [Importers -> SUBSET Questions]
        /\ c.survey \in Surveys

VARIABLES
    case,       \* the files, limits and mappings of this behaviour
    survey,     \* the survey the mapping names
    stored,     \* ImportedSubmissionSource rows by key, each with its reply
    batches,    \* DatasetImportBatch rows
    waiting,    \* keys stored since the analysis was last told that the replies changed
    importer,   \* what each process is doing
    events      \* errors and kills so far

vars == <<case, survey, stored, batches, waiting, importer, events>>

Zero == [read |-> 0, sampled |-> 0, imported |-> 0, skipped |-> 0, duplicate |-> 0, conflict |-> 0]
Idle == [pc |-> "idle", runs |-> 0, at |-> 0, seen |-> [k \in Keys |-> None], rows |-> <<>>,
         chunk |-> <<>>, candidates |-> {}, left |-> {}, own |-> {}, result |-> Zero, batch |-> 0, saw |-> FALSE]

File(i) == case.file[i]
Limit(i) == case.limit[i]
AllRows(i) == Limit(i) = None

\* Where the process is inside the try of import_dataset.
Importing(i) == importer[i].pc \in {"chunks", "bulk", "check", "insert", "saving"}

Add(result, name, n) == [result EXCEPT ![name] = @ + n]
Skip(result) == Add(result, "skipped", 1)
Duplicate(result) == Add(result, "duplicate", 1)
Conflict(result) == Add(Skip(result), "conflict", 1)
Same(result, known, row) == IF known = row.content THEN Duplicate(result) ELSE Conflict(result)

(***************************************************************************)
(* Reading the file                                                        *)
(***************************************************************************)

Start(i) ==
    /\ importer[i].pc = "idle" /\ importer[i].runs < MaxRuns
    /\ importer' = [importer EXCEPT ![i] =
           [Idle EXCEPT !.pc = IF AllRows(i) THEN "looking" ELSE "sampling",
                        !.runs = importer[i].runs + 1]]
    /\ UNCHANGED <<case, survey, stored, batches, waiting, events>>

\* A row is valid, or skipped, or repeats one of this file.
Read(p, row) ==
    LET r == Add(p.result, "read", 1)
        known == p.seen[row.key]
    IN  CASE row = Invalid -> [p EXCEPT !.at = @ + 1, !.result = Skip(r)]
          [] row # Invalid /\ known # None -> [p EXCEPT !.at = @ + 1, !.result = Same(r, known, row)]
          [] row # Invalid /\ known = None ->
                [p EXCEPT !.at = @ + 1, !.result = r, !.seen[row.key] = row.content]

Accepted(p, row) == row # Invalid /\ p.seen[row.key] = None

\* The sample fills up, then a new row takes a random place or none.
Reservoir(sample, limit, row) ==
    IF Len(sample) < limit
      THEN {Append(sample, row)}
      ELSE {sample} \union {[sample EXCEPT ![n] = row] : n \in 1 .. limit}

SampleRow(i) ==
    /\ importer[i].pc = "sampling" /\ importer[i].at < Len(File(i))
    /\ LET p == importer[i]
           row == File(i)[p.at + 1]
       IN  \E sample \in IF Accepted(p, row) THEN Reservoir(p.rows, Limit(i), row) ELSE {p.rows} :
              importer' = [importer EXCEPT ![i] = [Read(p, row) EXCEPT !.rows = sample]]
    /\ UNCHANGED <<case, survey, stored, batches, waiting, events>>

Sampled(i) ==
    /\ importer[i].pc = "sampling" /\ importer[i].at = Len(File(i))
    /\ importer' = [importer EXCEPT ![i].pc = "looking", ![i].result.sampled = Len(importer[i].rows)]
    /\ UNCHANGED <<case, survey, stored, batches, waiting, events>>

(***************************************************************************)
(* The survey and the batch                                                *)
(***************************************************************************)

Mapping(i) == case.mapping[i]
Compatible(i) == Mapping(i) \subseteq survey.questions \/ ~survey.published

\* The survey is looked up by its slug.
LookUp(i) ==
    /\ importer[i].pc = "looking"
    /\ importer' = [importer EXCEPT ![i].pc = "opening", ![i].saw = survey.exists]
    /\ UNCHANGED <<case, survey, stored, batches, waiting, events>>

NewBatch(i) ==
    [importer |-> i, status |-> "running", count |-> importer[i].result]

\* A published survey is created, or the questions of an unpublished one are completed, and
\* the batch is recorded with it.
Open(i) ==
    /\ importer[i].pc = "opening"
    /\ importer[i].saw \/ ~survey.exists
    /\ ~survey.exists \/ Compatible(i)
    /\ survey' = IF survey.exists THEN [survey EXCEPT !.questions = @ \union Mapping(i)]
                 ELSE [exists |-> TRUE, published |-> TRUE, questions |-> Mapping(i)]
    /\ batches' = Append(batches, NewBatch(i))
    /\ importer' = [importer EXCEPT ![i].pc = "chunks", ![i].batch = Len(batches) + 1]
    /\ UNCHANGED <<case, stored, waiting, events>>

\* The questions do not fit, or another process created the survey meanwhile.
Refuse(i) ==
    /\ importer[i].pc = "opening"
    /\ survey.exists /\ (~importer[i].saw \/ ~Compatible(i))
    /\ importer' = [importer EXCEPT ![i] = [Idle EXCEPT !.runs = importer[i].runs]]
    /\ UNCHANGED <<case, survey, stored, batches, waiting, events>>

(***************************************************************************)
(* Chunks                                                                  *)
(***************************************************************************)

\* The rows of a chunk are taken in their order: left are the candidates still to be tried.
Least(S) == CHOOSE n \in S : \A m \in S : n <= m
Candidate(i) == importer[i].chunk[Least(importer[i].left)]
KeysOf(rows) == {row.key : row \in rows}

\* Another transaction has inserted the key and not ended: an insert of it waits.
Held(key, i) == \E j \in Importers \ {i} : key \in KeysOf(importer[j].own)

ReadRow(i) ==
    /\ importer[i].pc = "chunks" /\ AllRows(i)
    /\ importer[i].at < Len(File(i)) /\ Len(importer[i].rows) < ChunkSize
    /\ LET p == importer[i]
           row == File(i)[p.at + 1]
       IN  importer' = [importer EXCEPT ![i] =
               IF Accepted(p, row)
                 THEN [Read(p, row) EXCEPT !.rows = Append(@, row), !.result.sampled = @ + 1]
                 ELSE Read(p, row)]
    /\ UNCHANGED <<case, survey, stored, batches, waiting, events>>

ChunkReady(i) ==
    /\ importer[i].rows # <<>>
    /\ AllRows(i) => Len(importer[i].rows) = ChunkSize \/ importer[i].at = Len(File(i))

ChunkOf(rows) == SubSeq(rows, 1, IF Len(rows) < ChunkSize THEN Len(rows) ELSE ChunkSize)

\* The keys already stored are read in one query at the start of the transaction; their rows
\* count as duplicates or conflicts, the others are the candidates.
BeginChunk(i) ==
    /\ importer[i].pc = "chunks" /\ ChunkReady(i)
    /\ LET p == importer[i]
           chunk == ChunkOf(p.rows)
           new == {n \in DOMAIN chunk : stored[chunk[n].key] = None}
           same == {n \in (DOMAIN chunk) \ new : stored[chunk[n].key].content = chunk[n].content}
           conflicts == (DOMAIN chunk) \ (new \union same)
       IN  importer' = [importer EXCEPT ![i] =
               [p EXCEPT !.rows = SubSeq(p.rows, Len(chunk) + 1, Len(p.rows)),
                         !.chunk = chunk, !.candidates = new, !.left = new,
                         !.result = Add(Add(Add(p.result, "duplicate", Cardinality(same)),
                                            "skipped", Cardinality(conflicts)),
                                        "conflict", Cardinality(conflicts)),
                         !.pc = IF new = {} THEN "saving" ELSE "bulk"]]
    /\ UNCHANGED <<case, survey, stored, batches, waiting, events>>

Reply(i, row, versioned) ==
    [key |-> row.key, content |-> row.content, batch |-> importer[i].batch, versioned |-> versioned]

Tried(p) == [p EXCEPT !.left = @ \ {Least(@)}]

\* One row of the statement that inserts all candidates; they count when all are in.
BulkInsert(i) ==
    /\ importer[i].pc = "bulk" /\ stored[Candidate(i).key] = None /\ ~Held(Candidate(i).key, i)
    /\ LET p == Tried(importer[i])
           inserted == [p EXCEPT !.own = @ \union {Reply(i, Candidate(i), survey.published)}]
       IN  importer' = [importer EXCEPT ![i] =
               IF p.left # {} THEN inserted
               ELSE [inserted EXCEPT !.result = Add(@, "imported", Cardinality(p.candidates)),
                                     !.pc = "saving"]]
    /\ UNCHANGED <<case, survey, stored, batches, waiting, events>>

\* Mutant: the other process is taken to have imported the whole chunk.
BulkFailsAsDuplicates(i) ==
    /\ importer[i].pc = "bulk" /\ stored[Candidate(i).key] # None
    /\ importer' = [importer EXCEPT
           ![i].own = {}, ![i].left = {}, ![i].pc = "saving",
           ![i].result = Add(@, "duplicate", Cardinality(importer[i].candidates))]
    /\ UNCHANGED <<case, survey, stored, batches, waiting, events>>

\* An IntegrityError undoes the statement; the rows are then tried one by one.
BulkFails(i) ==
    /\ importer[i].pc = "bulk" /\ stored[Candidate(i).key] # None
    /\ importer' = [importer EXCEPT ![i].own = {}, ![i].left = importer[i].candidates, ![i].pc = "check"]
    /\ UNCHANGED <<case, survey, stored, batches, waiting, events>>

\* The loop over the candidates goes on.
Continue(p) ==
    LET tried == Tried(p)
    IN  [tried EXCEPT !.pc = IF tried.left # {} THEN "check" ELSE "saving"]

CheckRow(i) ==
    /\ importer[i].pc = "check"
    /\ LET p == importer[i]
           known == stored[Candidate(i).key]
       IN  importer' = [importer EXCEPT ![i] =
               IF known = None THEN [p EXCEPT !.pc = "insert"]
               ELSE Continue([p EXCEPT !.result = Same(@, known.content, Candidate(i))])]
    /\ UNCHANGED <<case, survey, stored, batches, waiting, events>>

InsertRow(i) ==
    /\ importer[i].pc = "insert" /\ stored[Candidate(i).key] = None /\ ~Held(Candidate(i).key, i)
    /\ LET p == importer[i]
       IN  importer' = [importer EXCEPT ![i] =
               Continue([p EXCEPT !.own = @ \union {Reply(i, Candidate(i), FALSE)},
                                  !.result = Add(@, "imported", 1)])]
    /\ UNCHANGED <<case, survey, stored, batches, waiting, events>>

\* A second IntegrityError: the record counts as a duplicate, whatever it says.
InsertFails(i) ==
    /\ importer[i].pc = "insert" /\ stored[Candidate(i).key] # None
    /\ importer' = [importer EXCEPT ![i] =
           Continue([importer[i] EXCEPT !.result = Duplicate(@)])]
    /\ UNCHANGED <<case, survey, stored, batches, waiting, events>>

\* The counters are saved with the rows, and the transaction commits.
SaveChunk(i) ==
    /\ importer[i].pc = "saving"
    /\ LET p == importer[i]
       IN  /\ stored' = [k \in Keys |->
                  IF k \in KeysOf(p.own) THEN CHOOSE row \in p.own : row.key = k ELSE stored[k]]
           /\ waiting' = waiting \union KeysOf(p.own)
           /\ batches' = [batches EXCEPT ![p.batch].count = p.result]
           /\ importer' = [importer EXCEPT ![i] =
                  [p EXCEPT !.own = {}, !.chunk = <<>>, !.candidates = {}, !.pc = "chunks"]]
    /\ UNCHANGED <<case, survey, events>>

(***************************************************************************)
(* The end                                                                 *)
(***************************************************************************)

Ended(i) ==
    /\ importer[i].pc = "chunks" /\ importer[i].rows = <<>>
    /\ AllRows(i) => importer[i].at = Len(File(i))

\* The batch gets its status and counters; the analysis is told in the same transaction.
Close(i, status) ==
    /\ batches' = [batches EXCEPT ![importer[i].batch] =
           [@ EXCEPT !.status = status, !.count = importer[i].result]]
    /\ waiting' = IF importer[i].result.imported > 0 THEN {} ELSE waiting
    /\ importer' = [importer EXCEPT ![i] = [Idle EXCEPT !.runs = importer[i].runs]]

Complete(i) == Ended(i) /\ Close(i, "completed") /\ UNCHANGED <<case, survey, stored, events>>

\* Mutant: only a complete import is announced.
FailSilently(i) ==
    /\ importer[i].pc = "failing"
    /\ batches' = [batches EXCEPT ![importer[i].batch].status = "failed"]
    /\ importer' = [importer EXCEPT ![i] = [Idle EXCEPT !.runs = importer[i].runs]]
    /\ UNCHANGED <<case, survey, stored, waiting, events>>

Fail(i) ==
    /\ importer[i].pc = "failing"
    /\ Close(i, "failed")
    /\ UNCHANGED <<case, survey, stored, events>>

\* A chunk is rolled back; what the process has counted stays counted.
Raise(i) ==
    /\ importer' = [importer EXCEPT ![i].own = {}, ![i].pc = "failing"]
    /\ UNCHANGED <<case, survey, stored, batches, waiting>>

Disturbed == events < MaxEvents /\ events' = events + 1

\* The file cannot be read on, or the database fails.
Error(i) == Importing(i) /\ Disturbed /\ Raise(i)

WaitsFor(i, j) ==
    /\ importer[i].pc \in {"bulk", "insert"}
    /\ i # j /\ Candidate(i).key \in KeysOf(importer[j].own)

\* Two transactions that wait for each other: the database ends one of them.
Deadlock(i) ==
    /\ \E j \in Importers : WaitsFor(i, j) /\ WaitsFor(j, i)
    /\ Raise(i)
    /\ UNCHANGED events

Kill(i) ==
    /\ importer[i].pc # "idle" /\ Disturbed
    /\ importer' = [importer EXCEPT ![i] = [Idle EXCEPT !.runs = importer[i].runs]]
    /\ UNCHANGED <<case, survey, stored, batches, waiting>>

Init ==
    /\ case \in Cases
    /\ survey = case.survey
    /\ stored = [k \in Keys |-> None]
    /\ batches = <<>>
    /\ waiting = {}
    /\ importer = [i \in Importers |-> Idle]
    /\ events = 0

Step(i) ==
    \/ Start(i) \/ SampleRow(i) \/ Sampled(i) \/ LookUp(i) \/ Open(i) \/ Refuse(i)
    \/ ReadRow(i) \/ BeginChunk(i) \/ BulkInsert(i) \/ BulkFails(i) \/ CheckRow(i)
    \/ InsertRow(i) \/ InsertFails(i) \/ SaveChunk(i) \/ Complete(i) \/ Fail(i)
    \/ Error(i) \/ Deadlock(i) \/ Kill(i)

Next == \E i \in Importers : Step(i)

Spec == Init /\ [][Next]_vars

-----------------------------------------------------------------------------

Count == [read : Nat, sampled : Nat, imported : Nat, skipped : Nat, duplicate : Nat, conflict : Nat]
Batch == [importer : Importers, status : {"running", "completed", "failed"}, count : Count]
Source == [key : Keys, content : Contents, batch : DOMAIN batches, versioned : BOOLEAN]

\* The state has the types of the rows and of the processes' variables.
TypeOK ==
    /\ case \in Cases /\ survey \in Surveys /\ waiting \subseteq Keys /\ events \in 0 .. MaxEvents
    /\ \A k \in Keys : stored[k] # None => stored[k] \in Source /\ stored[k].key = k
    /\ batches \in Seq(Batch)
    /\ \A i \in Importers :
          /\ importer[i].runs \in 0 .. MaxRuns
          /\ importer[i].pc \in {"idle", "sampling", "looking", "opening", "chunks", "bulk", "check",
                                 "insert", "saving", "failing"}
          /\ Importing(i) => importer[i].batch \in DOMAIN batches

StoredBy(b) == {k \in Keys : stored[k] # None /\ stored[k].batch = b}
FileOf(b) == File(batches[b].importer)
FileKeys(b) == {FileOf(b)[n].key : n \in DOMAIN FileOf(b)} \ {None}

\* The counters of a batch agree with the rows that were committed for it, also while it runs
\* and after a kill; in a completed batch of all rows each row of the file counts once.
BatchCountsAreTrue ==
    \A b \in DOMAIN batches :
        LET count == batches[b].count
        IN  /\ batches[b].status # "failed" => count.imported = Cardinality(StoredBy(b))
            /\ batches[b].status = "completed" /\ AllRows(batches[b].importer) =>
                  /\ count.read = Len(FileOf(b))
                  /\ count.read = count.imported + count.skipped + count.duplicate

\* A completed batch of all rows leaves every valid record of its file stored, whoever stored it.
CompletedMeansStored ==
    \A b \in DOMAIN batches :
        batches[b].status = "completed" /\ AllRows(batches[b].importer) =>
            \A k \in FileKeys(b) : stored[k] # None

\* Replies the analysis has not been told of belong to a batch that has not ended: an import
\* that fails halfway still announces what it committed.
EndedImportsAreAnnounced ==
    \A k \in waiting : batches[stored[k].batch].status = "running"

FirstContent(b, k) ==
    LET n == CHOOSE n \in DOMAIN FileOf(b) :
                 FileOf(b)[n].key = k /\ \A m \in 1 .. n - 1 : FileOf(b)[m].key # k
    IN  FileOf(b)[n].content

\* A record that is stored with another content is reported as a conflict.
ConflictsAreReported ==
    \A b \in DOMAIN batches :
        batches[b].status = "completed" /\ AllRows(batches[b].importer) =>
            Cardinality({k \in FileKeys(b) : stored[k].content # FirstContent(b, k)})
                <= batches[b].count.conflict

=============================================================================
