-------------------------- MODULE PaidAnalysisProofs --------------------------
(***************************************************************************)
(* Theorems about PaidAnalysis for every set of workers and confirmations, *)
(* every scenario and every bound: calls are reserved before they are      *)
(* sent, a consent pays for one job, a call sends what was confirmed, and  *)
(* none follows a call whose result nobody knows.                          *)
(*                                                                         *)
(* The last two sections are about the evidence of a call and what becomes *)
(* of its answer: every catalogue of evidence, whatever was replied, and   *)
(* every AI answer about it. One bad finding does not cost the stage, and  *)
(* nothing is stored that its evidence does not support.                   *)
(***************************************************************************)
EXTENDS PaidAnalysis, EvidenceCatalog, StageAnswers, FiniteSetTheorems, FunctionTheorems, TLAPS

-----------------------------------------------------------------------------
(* The invariants *)

\* A waiting job has an attempt left.
Job == {row \in JobRows : row.status = "pending" => row.attempts < MaxAttempts}

Signed(g) == g = NoGrant \/ (g.token \in Tokens /\ g.identity \in Identities)

\* The worker has read the base its stages work on.
Loaded(state) ==
    \/ state.pc \in {"prepare", "call", "reserve", "send", "wait", "valid", "invalid", "empty",
                     "publish"}
    \/ state.pc = "checkpoint" /\ state.next # "load"

\* A worker's memory has what its next step reads.
Memory(state, table) ==
    /\ state.pc # "idle" => state.job \in Jobs /\ table[state.job] # NoGrant
    /\ state.pc = "checkpoint" => state.next # None
    /\ Loaded(state) => state.base \in Inputs /\ state.stage \in 1 .. 3

\* Types, with the parts of rows and memory that they need to stay so.
TypeInv ==
    /\ TypeOK /\ IsFiniteSet(rows)
    /\ job \in [Jobs -> Job]
    /\ \A j \in Jobs : Signed(grant[j])
    /\ \A w \in Workers : Memory(worker[w], grant)

Calling(state) == state.pc \in {"send", "wait"}

\* Calls are counted and marked before they are sent, and no two workers make calls for one job.
Counted ==
    /\ \A j \in Jobs : sent[j] <= grant[j].calls
    /\ \A w \in Workers : worker[w].pc = "send" => sent[worker[w].job] < Grant(w).calls
    /\ \A w \in Workers : Calling(worker[w]) => Grant(w).inFlight
    /\ \A v, w \in Workers :
           v # w /\ Calling(worker[v]) /\ Calling(worker[w]) => worker[v].job # worker[w].job

\* A call in flight is the only one of the survey, and no other consent is in force.
OneInFlight ==
    \A i, j \in Jobs : grant[i].inFlight /\ i # j => ~grant[j].inFlight /\ ~Active(grant[j])

\* The mark of a call that nobody waits for stays.
LostCall ==
    lost => \E j \in Jobs :
        grant[j].inFlight /\ \A w \in Workers : Calling(worker[w]) => worker[w].job # j

CallsInv == ConsentIsSpentOnce /\ Counted /\ OneInFlight /\ LostCall

\* Versions only grow, and what was signed or read is not newer than what is published.
VersionsInv ==
    /\ base <= input
    /\ \A t \in Tokens : token[t] # None => token[t].base <= base
    /\ \A j \in Jobs : grant[j] # NoGrant => grant[j].identity.base <= base
    /\ \A w \in Workers : Loaded(worker[w]) =>
           Grant(w).identity.base <= worker[w].base /\ worker[w].base <= base
-----------------------------------------------------------------------------
(* What the operators return *)

LEMMA ThreeStages == Len(Stages) = 3 /\ \A n \in 1 .. 3 : Stages[n] \in Range(Stages)
<1>1. Len(Stages) = 3
  BY DEF Stages
<1>2. DOMAIN Stages = 1 .. 3
  BY DEF Stages
<1> QED BY <1>1, <1>2 DEF Range

LEMMA NoJobType ==
    /\ NoJob \in Job /\ NoGrant \in Grants
    /\ Idle \in WorkerStates /\ \A table : Memory(Idle, table)
<1>1. MaxJobs \in Nat /\ MaxInput \in Nat /\ MaxAttempts \in Nat \ {0} /\ MaxCalls \in Nat
  BY BoundAssumption
<1>2. NoJob \in Job
  BY <1>1, NoneAssumption DEF NoJob, Job, JobRows
<1>3. NoGrant \in Grants
  BY <1>1 DEF NoGrant, Grants
<1>4. Idle \in WorkerStates
  BY <1>1, ThreeStages DEF Idle, WorkerStates, Pcs
<1>5. \A table : Memory(Idle, table)
  BY DEF Memory, Idle, Loaded
<1> QED BY <1>2, <1>3, <1>4, <1>5

\* Scheduling coalesces with waiting rows or creates one, and leaves the other rows alone.
LEMMA ScheduledRows ==
    ASSUME NEW table \in [Jobs -> Job], input \in Inputs, NEW outcome \in Scheduled(table)
    PROVE  outcome[1] \in [Jobs -> Job] /\ outcome[2] \in Jobs
<1>1. CASE Pending(table) # {}
  <2>1. outcome[1] = Coalesced(table) /\ outcome[2] \in Pending(table)
    BY <1>1 DEF Scheduled
  <2>2. ASSUME NEW j \in Jobs PROVE [table[j] EXCEPT !.input = input] \in Job
    BY <2>2, BoundAssumption DEF Job, JobRows, Inputs
  <2> QED BY <2>1, <2>2 DEF Coalesced, Pending
<1>2. CASE Pending(table) = {}
  <2>1. PICK j \in FreeJobs(table) : outcome[1] = Created(table, j) /\ outcome[2] = j
    BY <1>2 DEF Scheduled
  <2>2. j \in Jobs
    BY DEF FreeJobs
  <2> DEFINE new == [NoJob EXCEPT !.status = "pending", !.input = input]
  <2>3. input \in 0 .. MaxInput /\ 0 \in 0 .. MaxAttempts /\ 0 < MaxAttempts
    BY BoundAssumption DEF Inputs
  <2>4. new \in JobRows
    BY <2>3 DEF NoJob, JobRows
  <2>5. new.attempts = 0
    BY DEF NoJob
  <2> HIDE DEF new
  <2>6. new \in Job
    BY <2>3, <2>4, <2>5 DEF Job
  <2> QED BY <2>1, <2>2, <2>6 DEF Created, new
<1> QED BY <1>1, <1>2

LEMMA CancelRequestedRows ==
    ASSUME NEW table \in [Jobs -> Job], NEW j \in Jobs
    PROVE  CancelRequested(table, j) \in [Jobs -> Job]
<1>1. table[j] \in Job
  OBVIOUS
<1>2. /\ [table[j] EXCEPT !.status = "cancelled", !.cancel = TRUE] \in Job
      /\ [table[j] EXCEPT !.cancel = TRUE] \in Job
  BY <1>1 DEF Job, JobRows
<1> QED BY <1>2 DEF CancelRequested

LEMMA WithoutObsoleteRows ==
    ASSUME job \in [Jobs -> Job]
    PROVE  WithoutObsolete \in [Jobs -> Job]
<1>1. CASE Obsolete # {}
  <2>1. (CHOOSE j \in Obsolete : TRUE) \in Jobs
    BY <1>1 DEF Obsolete
  <2> QED BY <1>1, <2>1, CancelRequestedRows DEF WithoutObsolete
<1> QED BY <1>1 DEF WithoutObsolete

LEMMA ReleasedRow ==
    ASSUME NEW row \in Job, NEW status \in {"succeeded", "failed", "cancelled"}
    PROVE  Released(row, status) \in Job
BY DEF Released, Job, JobRows

LEMMA SupersededRows ==
    ASSUME job \in [Jobs -> Job], input \in Inputs, NEW w \in Workers, Superseded(w)
    PROVE  job' \in [Jobs -> Job]
<1>1. PICK outcome \in Scheduled(job) :
         job' = [outcome[1] EXCEPT ![worker[w].job] = Released(@, "cancelled")]
  BY DEF Superseded
<1>2. outcome[1] \in [Jobs -> Job]
  BY ScheduledRows
<1>3. CASE worker[w].job \in Jobs
  <2>1. Released(outcome[1][worker[w].job], "cancelled") \in Job
    BY <1>2, <1>3, ReleasedRow
  <2> QED BY <1>1, <1>2, <2>1
<1>4. CASE worker[w].job \notin Jobs
  BY <1>1, <1>2, <1>4
<1> QED BY <1>3, <1>4

LEMMA SweptRows == ASSUME job \in [Jobs -> Job] PROVE Swept \in [Jobs -> Job]
BY ReleasedRow DEF Swept

LEMMA FailedRow ==
    ASSUME NEW row \in Job, NEW outcome
    PROVE  Failed(row, outcome) \in Job
BY DEF Failed, Released, Job, JobRows

LEMMA CurrentIdentityType ==
    ASSUME TypeOK
    PROVE  CurrentIdentity \in Identities \union {None}
BY DEF TypeOK, CurrentIdentity, Identities

\* A consent that is in force is a grant.
LEMMA NoGrantIsInactive == ~Active(NoGrant) /\ ~NoGrant.inFlight /\ NoGrant.token = None
BY NoneAssumption DEF Active, NoGrant

LEMMA RowsStayTyped ==
    ASSUME TypeInv, NEW s \in Inputs, NEW n \in 1 .. 3, Adds(s, Stages[n])
    PROVE  (\A r \in rows' : IsStageRow(r)) /\ IsFiniteSet(rows')
<1> DEFINE new == NewRow(s, Stages[n])
<1>1. rows' = rows \union {new}
  BY DEF Adds
<1>2. IsFiniteSet(RowsOf(s, Stages[n]))
  BY FS_Subset DEF RowsOf, TypeInv
<1>3. Cardinality(RowsOf(s, Stages[n])) \in Nat
  BY <1>2, FS_CardinalityType
<1>4. new.base = s /\ new.stage = Stages[n]
      /\ new.revision = Cardinality(RowsOf(s, Stages[n])) + 1
  BY DEF NewRow
<1>5. s \in 0 .. MaxInput /\ Stages[n] \in Range(Stages)
  BY ThreeStages, BoundAssumption DEF Inputs
<1> HIDE DEF new
<1>6. IsStageRow(new)
  BY <1>3, <1>4, <1>5 DEF IsStageRow
<1> QED BY <1>1, <1>6, FS_AddElement DEF TypeInv, TypeOK

\* A grant that was made is told from none by its token.
LEMMA SignedGrant ==
    ASSUME NEW g, Signed(g)
    PROVE  g # NoGrant <=> g.token \in Tokens
BY NoneAssumption DEF Signed, NoGrant

LEMMA WorkerMoves ==
    ASSUME TypeInv, NEW w \in Workers, NEW state \in WorkerStates, Memory(state, grant'),
           \A j \in Jobs : grant[j] # NoGrant => grant'[j] # NoGrant,
           Goes(w, state)
    PROVE  worker' \in [Workers -> WorkerStates] /\ \A v \in Workers : Memory(worker'[v], grant')
<1>1. worker \in [Workers -> WorkerStates] /\ \A v \in Workers : Memory(worker[v], grant)
  BY DEF TypeInv, TypeOK
<1>2. \A v \in Workers : Memory(worker[v], grant')
  BY <1>1 DEF Memory
<1> QED BY <1>1, <1>2 DEF Goes

LEMMA GrantChanges ==
    ASSUME TypeInv, NEW j \in Jobs, NEW g \in Grants, g.token \in Tokens, g.identity \in Identities,
           grant' = [grant EXCEPT ![j] = g]
    PROVE  /\ grant' \in [Jobs -> Grants]
           /\ \A i \in Jobs : Signed(grant'[i]) /\ (grant[i] # NoGrant => grant'[i] # NoGrant)
<1>1. grant \in [Jobs -> Grants] /\ \A i \in Jobs : Signed(grant[i])
  BY DEF TypeInv, TypeOK
<1>2. Signed(g) /\ g # NoGrant
  BY SignedGrant DEF Signed
<1> QED BY <1>1, <1>2

\* What the grant of a working process says.
LEMMA GrantOfWorker ==
    ASSUME TypeInv, NEW w \in Workers, worker[w].pc # "idle"
    PROVE  /\ worker[w] \in WorkerStates /\ worker[w].job \in Jobs /\ Grant(w) \in Grants
           /\ Grant(w).token \in Tokens /\ Grant(w).identity \in Identities
           /\ Grant(w) # NoGrant
<1>1. worker[w].job \in Jobs /\ Grant(w) # NoGrant /\ worker[w] \in WorkerStates
  BY DEF TypeInv, TypeOK, Memory, Grant
<1>2. Signed(Grant(w)) /\ Grant(w) \in Grants
  BY <1>1 DEF TypeInv, TypeOK, Grant
<1> QED BY <1>1, <1>2, SignedGrant DEF Signed

LEMMA EventsStayTyped ==
    ASSUME TypeOK, NEW kind, Disturb(kind)
    PROVE  events' \in 0 .. MaxEvents
<1>1. scenario.events \in 0 .. MaxEvents
  BY ScenarioAssumption DEF TypeOK
<1> QED BY <1>1, BoundAssumption DEF Disturb, TypeOK

Entry == [secrets : Seq(ApiKeys \union {None}) \ {<<>>}, generation : Nat \ {0}, open : Nat]

\* The entries of the vault, and how the two writes change the keys that stood there.
LEMMA KeyTypes ==
    ASSUME TypeOK
    PROVE  /\ key \in Entry /\ Secret \in ApiKeys \union {None} /\ Secret \in Range(key.secrets)
           /\ \A secret \in ApiKeys \union {None} : WriteKey(secret) =>
                 /\ key' \in Entry /\ key'.generation = key.generation
                 /\ Range(key.secrets) \subseteq Range(key'.secrets)
           /\ WriteGeneration => key' \in Entry /\ key'.generation = key.generation + 1
<1>1. key \in Entry
  BY DEF TypeOK, Entry
<1>2. PICK n \in Nat : n = Len(key.secrets) /\ n # 0 /\ DOMAIN key.secrets = 1 .. n
  BY <1>1 DEF Entry
<1>3. Secret = key.secrets[n] /\ n \in DOMAIN key.secrets
  BY <1>2 DEF Secret, Last
<1>4. Secret \in ApiKeys \union {None} /\ Secret \in Range(key.secrets)
  BY <1>1, <1>3 DEF Entry, Range
<1>5. ASSUME NEW secret \in ApiKeys \union {None}, WriteKey(secret)
      PROVE  /\ key' \in Entry /\ key'.generation = key.generation
             /\ Range(key.secrets) \subseteq Range(key'.secrets)
  <2> DEFINE more == Append(key.secrets, secret)
  <2>1. /\ more \in Seq(ApiKeys \union {None}) /\ more # <<>> /\ DOMAIN more = 1 .. n + 1
        /\ \A i \in 1 .. n : more[i] = key.secrets[i]
    BY <1>1, <1>2 DEF Entry
  <2>2. key' = [key EXCEPT !.secrets = more, !.open = key.open + 1]
    BY <1>5 DEF WriteKey
  <2> HIDE DEF more
  <2>3. key.open + 1 \in Nat /\ key = [secrets |-> key.secrets, generation |-> key.generation,
                                       open |-> key.open]
    BY <1>1 DEF Entry
  <2>4. key' = [secrets |-> more, generation |-> key.generation, open |-> key.open + 1]
    BY <2>2, <2>3
  <2>5. key' \in Entry /\ key'.generation = key.generation /\ key'.secrets = more
    BY <1>1, <2>1, <2>3, <2>4 DEF Entry
  <2> QED BY <1>2, <2>1, <2>5 DEF Range
<1>6. ASSUME WriteGeneration PROVE key' \in Entry /\ key'.generation = key.generation + 1
  <2>1. key' = [secrets |-> <<Secret>>, generation |-> key.generation + 1, open |-> key.open - 1]
        /\ key.open > 0
    BY <1>6 DEF WriteGeneration
  <2>2. <<Secret>> \in Seq(ApiKeys \union {None}) /\ <<Secret>> # <<>>
    BY <1>4
  <2> QED BY <1>1, <2>1, <2>2 DEF Entry
<1> QED BY <1>1, <1>4, <1>5, <1>6

LEMMA OwnerTypes == TypeInv /\ Owner => TypeInv'
<1> SUFFICES ASSUME TypeInv, Owner PROVE TypeInv'
  OBVIOUS
<1>1. ASSUME NEW t \in Tokens, Preview(t) PROVE TypeInv'
  <2>1. token' \in [Tokens -> Identities \union {None}]
    BY <1>1, CurrentIdentityType DEF Preview, TypeInv, TypeOK
  <2> QED BY <1>1, <2>1 DEF Preview, TypeInv, TypeOK, survey, queue, provider, setting
<1>2. ASSUME NEW t \in Tokens, Confirm(t) PROVE TypeInv'
  <2>1. PICK outcome \in Scheduled(WithoutObsolete) :
           /\ grant[outcome[2]] = NoGrant
           /\ job' = outcome[1]
           /\ grant' = [Staled EXCEPT ![outcome[2]] = NewGrant(t)]
    BY <1>2 DEF Confirm
  <2>2. job' \in [Jobs -> Job] /\ outcome[2] \in Jobs
    BY <2>1, WithoutObsoleteRows, ScheduledRows DEF TypeInv, TypeOK
  <2>3. NewGrant(t) \in Grants /\ NewGrant(t).token = t /\ NewGrant(t).identity \in Identities
    <3>1. token[t] \in Identities
      BY <1>2 DEF Confirm, Confirmable, TypeInv, TypeOK
    <3> QED BY <3>1, NoJobType DEF NewGrant, Grants, NoGrant
  <2>4. /\ Staled \in [Jobs -> Grants]
        /\ \A i \in Jobs : Signed(Staled[i]) /\ (grant[i] # NoGrant => Staled[i] # NoGrant)
    <3> DEFINE old == CHOOSE i \in Obsolete : TRUE
    <3>1. CASE Obsolete # {}
      <4>1. old \in Jobs /\ Active(grant[old])
        BY <3>1 DEF Obsolete
      <4>2. grant[old] # NoGrant /\ Signed(grant[old]) /\ grant[old] \in Grants
        BY <4>1, NoGrantIsInactive DEF TypeInv, TypeOK
      <4>3. [grant[old] EXCEPT !.status = "stale"] \in Grants
            /\ [grant[old] EXCEPT !.status = "stale"].token \in Tokens
            /\ [grant[old] EXCEPT !.status = "stale"].identity \in Identities
        BY <4>2, SignedGrant DEF Grants, Signed
      <4>4. [grant[old] EXCEPT !.status = "stale"] # NoGrant
            /\ Signed([grant[old] EXCEPT !.status = "stale"])
        BY <4>3, SignedGrant DEF Signed
      <4>5. Staled = [i \in Jobs |-> IF i = old THEN [grant[i] EXCEPT !.status = "stale"] ELSE grant[i]]
        BY <3>1 DEF Staled
      <4> HIDE DEF old
      <4> QED BY <4>1, <4>3, <4>4, <4>5 DEF TypeInv, TypeOK
    <3>2. CASE Obsolete = {}
      BY <3>2 DEF Staled, TypeInv, TypeOK
    <3> QED BY <3>1, <3>2
  <2>5. Signed(NewGrant(t)) /\ NewGrant(t) # NoGrant
    BY <2>3, SignedGrant DEF Signed
  <2>6. /\ grant' \in [Jobs -> Grants]
        /\ \A i \in Jobs : Signed(grant'[i]) /\ (grant[i] # NoGrant => grant'[i] # NoGrant)
    BY <2>1, <2>2, <2>3, <2>4, <2>5
  <2>7. \A w \in Workers : Memory(worker[w], grant')
    BY <2>6 DEF TypeInv, Memory
  <2>8. job' \in [Jobs -> JobRows]
    BY <2>2 DEF Job
  <2> QED BY <1>2, <2>2, <2>6, <2>7, <2>8 DEF Confirm, TypeInv, TypeOK, survey, provider, setting
<1>3. ASSUME NEW j \in Jobs, CancelJob(j) PROVE TypeInv'
  <2>1. job' \in [Jobs -> Job]
    BY <1>3, CancelRequestedRows DEF CancelJob, TypeInv
  <2>2. /\ grant' \in [Jobs -> Grants]
        /\ \A i \in Jobs : Signed(grant'[i]) /\ (grant[i] # NoGrant => grant'[i] # NoGrant)
    <3>1. CASE grant' = grant
      BY <3>1 DEF TypeInv, TypeOK
    <3>2. CASE grant[j] # NoGrant /\ grant' = [grant EXCEPT ![j] = [@ EXCEPT !.status = "cancelled"]]
      <4> DEFINE g == [grant[j] EXCEPT !.status = "cancelled"]
      <4>1. grant[j] \in Grants /\ grant[j].token \in Tokens /\ grant[j].identity \in Identities
        BY <3>2, SignedGrant DEF TypeInv, TypeOK, Signed
      <4>2. g \in Grants /\ g.token \in Tokens /\ g.identity \in Identities
        BY <4>1 DEF Grants
      <4>3. grant' = [grant EXCEPT ![j] = g]
        BY <3>2
      <4> HIDE DEF g
      <4> QED BY <4>2, <4>3, GrantChanges
    <3>3. grant[j] = NoGrant \/ grant[j].inFlight => grant' = grant
      BY <1>3 DEF CancelJob, TypeInv, TypeOK
    <3>4. ~(grant[j] = NoGrant \/ grant[j].inFlight) =>
             grant' = [grant EXCEPT ![j] = [@ EXCEPT !.status = "cancelled"]]
      BY <1>3 DEF CancelJob
    <3> QED BY <3>1, <3>2, <3>3, <3>4
  <2>3. \A w \in Workers : Memory(worker[w], grant')
    BY <2>2 DEF TypeInv, Memory
  <2>4. job' \in [Jobs -> JobRows]
    BY <2>1 DEF Job
  <2>5. events' \in 0 .. MaxEvents
    BY <1>3, EventsStayTyped DEF CancelJob, TypeInv
  <2> QED BY <1>3, <2>1, <2>2, <2>3, <2>4, <2>5 DEF CancelJob, TypeInv, TypeOK, survey, provider
<1>4. ASSUME NEW secret \in ApiKeys \union {None}, WriteKey(secret) PROVE TypeInv'
  <2>1. events' \in 0 .. MaxEvents
    BY <1>4, EventsStayTyped DEF WriteKey, TypeInv
  <2>2. key' \in Entry
    BY <1>4, KeyTypes DEF TypeInv
  <2> QED BY <1>4, <2>1, <2>2 DEF WriteKey, TypeInv, TypeOK, Entry, queue, provider
<1>6. CASE WriteGeneration
  <2>1. key' \in Entry
    BY <1>6, KeyTypes DEF TypeInv
  <2> QED BY <1>6, <2>1 DEF WriteGeneration, TypeInv, TypeOK, Entry, queue, provider, setting
<1>5. CASE RevokeOwner
  <2>1. events' \in 0 .. MaxEvents
    BY <1>5, EventsStayTyped DEF RevokeOwner, TypeInv
  <2> QED BY <1>5, <2>1 DEF RevokeOwner, TypeInv, TypeOK, queue, provider
<1> QED BY <1>1, <1>2, <1>3, <1>4, <1>5, <1>6 DEF Owner

LEMMA SurveyTypes == TypeInv /\ Survey => TypeInv'
<1> SUFFICES ASSUME TypeInv, Survey PROVE TypeInv'
  OBVIOUS
<1>1. CASE ChangeAnswers
  <2>1. events' \in 0 .. MaxEvents /\ input' \in Inputs
    BY <1>1, EventsStayTyped, BoundAssumption DEF ChangeAnswers, TypeInv, TypeOK, Inputs
  <2> QED BY <1>1, <2>1 DEF ChangeAnswers, TypeInv, TypeOK, queue, provider
<1>2. CASE Analyse
  BY <1>2 DEF Analyse, TypeInv, TypeOK, queue, provider, setting
<1>3. CASE Improve
  <2>1. events' \in 0 .. MaxEvents
    BY <1>3, EventsStayTyped DEF Improve, TypeInv
  <2> QED BY <1>3, <2>1 DEF Improve, TypeInv, TypeOK, queue, provider
<1> QED BY <1>1, <1>2, <1>3 DEF Survey

LEMMA TimeTypes ==
    ASSUME TypeInv, NEW j \in Jobs, ExpireAbandoned(j) \/ ExpireHeld(j) \/ ExpireGrant(j)
    PROVE  TypeInv'
<1>1. CASE ExpireAbandoned(j) \/ ExpireHeld(j)
  <2>1. job' \in [Jobs -> Job]
    <3>1. job[j] \in Job
      BY DEF TypeInv
    <3>2. [job[j] EXCEPT !.live = FALSE] \in Job
      BY <3>1 DEF Job, JobRows
    <3>3. job' = [job EXCEPT ![j].live = FALSE]
      BY <1>1 DEF ExpireAbandoned, ExpireHeld, Expire
    <3> QED BY <3>2, <3>3 DEF TypeInv
  <2>2. events' \in 0 .. MaxEvents
    BY <1>1, EventsStayTyped DEF ExpireAbandoned, ExpireHeld, TypeInv, TypeOK, setting
  <2>3. job' \in [Jobs -> JobRows]
    BY <2>1 DEF Job
  <2> QED BY <1>1, <2>1, <2>2, <2>3
      DEF ExpireAbandoned, ExpireHeld, TypeInv, TypeOK, survey, provider, setting
<1>2. CASE ExpireGrant(j)
  <2> DEFINE g == [grant[j] EXCEPT !.expired = TRUE]
  <2>1. grant[j] \in Grants /\ grant[j].token \in Tokens /\ grant[j].identity \in Identities
    BY <1>2, NoGrantIsInactive, SignedGrant DEF ExpireGrant, TypeInv, TypeOK, Signed
  <2>2. g \in Grants /\ g.token \in Tokens /\ g.identity \in Identities
    BY <2>1 DEF Grants
  <2>3. grant' = [grant EXCEPT ![j] = g]
    BY <1>2 DEF ExpireGrant
  <2> HIDE DEF g
  <2>4. /\ grant' \in [Jobs -> Grants]
        /\ \A i \in Jobs : Signed(grant'[i]) /\ (grant[i] # NoGrant => grant'[i] # NoGrant)
    BY <2>2, <2>3, GrantChanges
  <2>5. \A w \in Workers : Memory(worker[w], grant')
    BY <2>4 DEF TypeInv, Memory
  <2>6. events' \in 0 .. MaxEvents
    BY <1>2, EventsStayTyped DEF ExpireGrant, TypeInv
  <2> QED BY <1>2, <2>4, <2>5, <2>6 DEF ExpireGrant, TypeInv, TypeOK, survey, provider
<1> QED BY <1>1, <1>2

\* The states a worker goes to.
LEMMA StateTo ==
    ASSUME TypeInv, NEW w \in Workers, NEW pc \in Pcs
    PROVE  /\ To(w, pc) \in WorkerStates
           /\ To(w, pc).pc = pc /\ To(w, pc).job = worker[w].job
           /\ To(w, pc).base = worker[w].base /\ To(w, pc).stage = worker[w].stage
           /\ To(w, pc).next = worker[w].next
BY DEF To, WorkerStates, TypeInv, TypeOK

\* A working process goes to a step that reads no more than it knows.
LEMMA GoesOn ==
    ASSUME TypeInv, NEW w \in Workers, worker[w].pc # "idle",
           NEW state \in WorkerStates, state.job = worker[w].job,
           state.pc = "checkpoint" => state.next # None,
           Loaded(state) => state.base \in Inputs /\ state.stage \in 1 .. 3,
           \A j \in Jobs : grant[j] # NoGrant => grant'[j] # NoGrant,
           Goes(w, state)
    PROVE  worker' \in [Workers -> WorkerStates] /\ \A v \in Workers : Memory(worker'[v], grant')
<1>1. worker[w].job \in Jobs /\ grant[worker[w].job] # NoGrant
  BY GrantOfWorker DEF Grant
<1>2. Memory(state, grant')
  BY <1>1 DEF Memory
<1> QED BY <1>2, WorkerMoves

LEMMA AbortsTyped ==
    ASSUME TypeInv, NEW w \in Workers, worker[w].pc # "idle",
           NEW outcome \in {"fail", "retry", "cancelled", "superseded"}, Aborts(w, outcome),
           \A j \in Jobs : grant[j] # NoGrant => grant'[j] # NoGrant
    PROVE  worker' \in [Workers -> WorkerStates] /\ \A v \in Workers : Memory(worker'[v], grant')
<1> DEFINE state == [To(w, "aborting") EXCEPT !.outcome = outcome]
<1>1. To(w, "aborting") \in WorkerStates /\ To(w, "aborting").pc = "aborting"
      /\ To(w, "aborting").job = worker[w].job
  BY StateTo DEF Pcs
<1>2. state \in WorkerStates /\ state.pc = "aborting" /\ state.job = worker[w].job
  BY <1>1 DEF WorkerStates
<1>3. Goes(w, state)
  BY DEF Aborts
<1> HIDE DEF state
<1> QED BY <1>2, <1>3, GoesOn DEF Loaded

LEMMA GoesToTyped ==
    ASSUME TypeInv, NEW w \in Workers, worker[w].pc # "idle", NEW pc \in Pcs,
           pc # "checkpoint", pc \in {"load", "complete", "aborting", "finish"} \/ Loaded(worker[w]),
           \A j \in Jobs : grant[j] # NoGrant => grant'[j] # NoGrant,
           Goes(w, To(w, pc))
    PROVE  worker' \in [Workers -> WorkerStates] /\ \A v \in Workers : Memory(worker'[v], grant')
<1>1. To(w, pc) \in WorkerStates /\ To(w, pc).pc = pc /\ To(w, pc).job = worker[w].job
      /\ To(w, pc).base = worker[w].base /\ To(w, pc).stage = worker[w].stage
  BY StateTo
<1>2. Loaded(worker[w]) => worker[w].base \in Inputs /\ worker[w].stage \in 1 .. 3
  BY DEF TypeInv, Memory
<1>3. Loaded(To(w, pc)) => Loaded(worker[w])
  BY <1>1 DEF Loaded
<1> QED BY <1>1, <1>2, <1>3, GoesOn

LEMMA StageDoneTyped ==
    ASSUME TypeInv, NEW w \in Workers, worker[w].pc # "idle", Loaded(worker[w]), StageDone(w),
           grant' = grant
    PROVE  worker' \in [Workers -> WorkerStates] /\ \A v \in Workers : Memory(worker'[v], grant')
<1> DEFINE here == To(w, "checkpoint")
           state == IF worker[w].stage = Len(Stages)
                    THEN [here EXCEPT !.next = "publish"]
                    ELSE [here EXCEPT !.next = "prepare", !.stage = @ + 1]
<1>1. worker[w].base \in Inputs /\ worker[w].stage \in 1 .. 3
  BY DEF TypeInv, Memory
<1>2. here \in WorkerStates /\ here.pc = "checkpoint" /\ here.job = worker[w].job
      /\ here.base = worker[w].base /\ here.stage = worker[w].stage
  BY StateTo DEF Pcs
<1> HIDE DEF here
<1>3. state \in WorkerStates /\ state.pc = "checkpoint" /\ state.job = worker[w].job
      /\ state.base = worker[w].base /\ state.stage \in 1 .. 3 /\ state.next \in {"publish", "prepare"}
  <2>1. CASE worker[w].stage = Len(Stages)
    BY <1>1, <1>2, <2>1, ThreeStages DEF WorkerStates
  <2>2. CASE worker[w].stage # Len(Stages)
    <3>1. worker[w].stage + 1 \in 1 .. 3
      BY <1>1, <2>2, ThreeStages
    <3> DEFINE there == [here EXCEPT !.next = "prepare"]
    <3>2. there \in WorkerStates /\ there.pc = "checkpoint" /\ there.job = worker[w].job
          /\ there.base = worker[w].base /\ there.stage = worker[w].stage /\ there.next = "prepare"
      BY <1>2 DEF WorkerStates
    <3>3. state = [there EXCEPT !.stage = worker[w].stage + 1]
      BY <1>2, <2>2
    <3>4. worker[w].stage + 1 \in 0 .. Len(Stages)
      BY <3>1, ThreeStages
    <3> HIDE DEF there
    <3> QED BY <3>1, <3>2, <3>3, <3>4 DEF WorkerStates
  <2> QED BY <2>1, <2>2
<1>4. Goes(w, state)
  BY DEF StageDone, here
<1> HIDE DEF state
<1>5. state.next # None
  BY <1>3, NoneAssumption
<1> QED BY <1>1, <1>3, <1>4, <1>5, GoesOn

\* A claim takes a job with a consent in force that has attempts left, and counts one.
LEMMA ClaimedRow ==
    ASSUME TypeInv, NEW w \in Workers, NEW j \in Eligible
    PROVE  /\ j \in Jobs /\ grant[j] # NoGrant /\ Swept[j] = job[j]
           /\ job[j].attempts \in Nat /\ Claimed(job[j], w) \in Job
<1>1. j \in Jobs /\ Active(grant[j])
  BY DEF Eligible
<1>2. job[j] \in Job
  BY <1>1 DEF TypeInv
<1>3. job[j].attempts \in Nat /\ job[j].attempts < MaxAttempts
  BY <1>1, <1>2, BoundAssumption DEF Eligible, Job, JobRows
<1>4. ~Exhausted(job[j])
  BY <1>3, BoundAssumption DEF Exhausted
<1> DEFINE started == [job[j] EXCEPT !.status = "running", !.live = TRUE]
           counted == [started EXCEPT !.attempts = job[j].attempts + 1]
           claimed == [counted EXCEPT !.holder = <<w, job[j].attempts + 1>>]
<1>5. started \in JobRows /\ started.status = "running"
  BY <1>2 DEF Job, JobRows
<1>6. job[j].attempts + 1 \in 0 .. MaxAttempts
  BY <1>3, BoundAssumption
<1>7. counted \in JobRows /\ counted.status = "running"
  <2> HIDE DEF started
  <2> QED BY <1>5, <1>6 DEF JobRows
<1>8. claimed \in JobRows /\ claimed.status = "running"
  <2>1. <<w, job[j].attempts + 1>> \in Workers \X Nat
    BY <1>3
  <2> HIDE DEF counted
  <2> QED BY <1>7, <2>1 DEF JobRows
<1>9. Claimed(job[j], w) = claimed
  BY <1>2 DEF Claimed, Job, JobRows
<1> HIDE DEF claimed
<1>10. Claimed(job[j], w) \in Job
  BY <1>8, <1>9 DEF Job
<1> QED BY <1>1, <1>3, <1>4, <1>10, NoGrantIsInactive DEF Swept

LEMMA PollTypes == ASSUME TypeInv, NEW w \in Workers, Polls(w) PROVE TypeInv'
<1>1. Swept \in [Jobs -> Job]
  BY SweptRows DEF TypeInv
<1>2. CASE Claim(w)
  <2>1. PICK j \in Eligible :
           /\ job' = [Swept EXCEPT ![j] = Claimed(@, w)]
           /\ Goes(w, [Idle EXCEPT !.pc = "claimed", !.job = j,
                                   !.attempt = job[j].attempts + 1])
    BY <1>2 DEF Claim
  <2>2. /\ j \in Jobs /\ grant[j] # NoGrant /\ Swept[j] = job[j]
        /\ job[j].attempts \in Nat /\ Claimed(job[j], w) \in Job
    BY ClaimedRow
  <2>3. job' \in [Jobs -> Job] /\ job' \in [Jobs -> JobRows]
    BY <1>1, <2>1, <2>2 DEF Job
  <2> DEFINE state == [Idle EXCEPT !.pc = "claimed", !.job = j, !.attempt = job[j].attempts + 1]
  <2>4. state \in WorkerStates /\ state.pc = "claimed" /\ state.job = j
    <3>1. "claimed" \in Pcs /\ j \in 0 .. MaxJobs /\ job[j].attempts + 1 \in Nat
      BY <2>2, BoundAssumption DEF Pcs, Jobs
    <3>2. state \in WorkerStates
      BY <3>1, NoJobType DEF WorkerStates, Idle
    <3>3. state.pc = "claimed" /\ state.job = j
      BY DEF Idle
    <3> QED BY <3>2, <3>3
  <2> HIDE DEF state
  <2>5. Memory(state, grant') /\ Goes(w, state) /\ grant' = grant
    BY <1>2, <2>1, <2>2, <2>4 DEF Memory, Loaded, Claim, state
  <2>6. worker' \in [Workers -> WorkerStates] /\ \A v \in Workers : Memory(worker'[v], grant')
    BY <2>4, <2>5, WorkerMoves
  <2> QED BY <1>2, <2>3, <2>6 DEF Claim, TypeInv, TypeOK, survey, provider, setting
<1>3. CASE Sweep(w)
  <2>1. job' \in [Jobs -> JobRows] /\ job' \in [Jobs -> Job]
    BY <1>1, <1>3 DEF Sweep, Job
  <2> QED BY <1>3, <2>1 DEF Sweep, TypeInv, TypeOK, survey, provider, setting
<1> QED BY <1>2, <1>3 DEF Polls

LEMMA RunTypes == ASSUME TypeInv, NEW w \in Workers, Runs(w) PROVE TypeInv'
<1> DEFINE Moved == /\ worker' \in [Workers -> WorkerStates]
                    /\ \A v \in Workers : Memory(worker'[v], grant')
<1>rows. job \in [Jobs -> Job] /\ grant \in [Jobs -> Grants] /\ input \in Inputs /\ base \in Inputs
  BY DEF TypeInv, TypeOK
<1>type. ASSUME NEW f \in [Jobs -> Job] PROVE f \in [Jobs -> JobRows]
  BY DEF Job
<1>1. CASE Begin(w)
  <2>1. worker[w].pc = "claimed" /\ grant' = grant
    BY <1>1 DEF Begin, queue
  <2>2. Moved
    <3>1. CASE GrantInvalid(Grant(w))
      BY <1>1, <2>1, <3>1, AbortsTyped DEF Begin
    <3>2. CASE ~GrantInvalid(Grant(w))
      <4> DEFINE here == To(w, "checkpoint")
                 state == [here EXCEPT !.next = "load"]
      <4>1. here \in WorkerStates /\ here.pc = "checkpoint" /\ here.job = worker[w].job
        BY StateTo DEF Pcs
      <4>2. Goes(w, state)
        BY <1>1, <3>2 DEF Begin
      <4> HIDE DEF here
      <4>3. state \in WorkerStates /\ state.pc = "checkpoint" /\ state.job = worker[w].job
            /\ state.next = "load"
        BY <4>1 DEF WorkerStates
      <4> HIDE DEF state
      <4> QED BY <2>1, <4>2, <4>3, NoneAssumption, GoesOn DEF Loaded
    <3> QED BY <3>1, <3>2
  <2> HIDE DEF Moved
  <2> QED BY <1>1, <2>2 DEF Begin, TypeInv, TypeOK, survey, queue, provider, setting, Moved
<1>2. CASE Checkpoint(w)
  <2>1. worker[w].pc = "checkpoint" /\ grant' = grant
    BY <1>2 DEF Checkpoint
  <2>2. Moved
    <3>1. CASE Aborts(w, "cancelled") \/ Aborts(w, "retry") \/ Aborts(w, "superseded")
      BY <2>1, <3>1, AbortsTyped
    <3>2. CASE Goes(w, To(w, worker[w].next))
      <4>1. worker[w].next \in {"load", "prepare", "publish"}
        BY <2>1 DEF TypeInv, TypeOK, Memory, WorkerStates
      <4>2. worker[w].next = "load" \/ Loaded(worker[w])
        BY <2>1, <4>1 DEF Loaded
      <4> QED BY <2>1, <3>2, <4>1, <4>2, GoesToTyped DEF Pcs
    <3> QED BY <1>2, <3>1, <3>2 DEF Checkpoint
  <2>3. job' \in [Jobs -> Job]
    BY <1>2, <1>rows, SupersededRows DEF Checkpoint
  <2> HIDE DEF Moved
  <2> QED BY <1>2, <1>type, <2>2, <2>3
      DEF Checkpoint, TypeInv, TypeOK, survey, provider, setting, Moved
<1>3. CASE LoadBase(w)
  <2>1. worker[w].pc = "load" /\ grant' = grant
    BY <1>3 DEF LoadBase, queue
  <2>2. Moved
    <3>1. CASE base = Mine(w).input
      <4> DEFINE here == To(w, "checkpoint")
                 state == [here EXCEPT !.next = "prepare", !.base = base, !.stage = 1]
      <4>1. here \in WorkerStates /\ here.pc = "checkpoint" /\ here.job = worker[w].job
        BY StateTo DEF Pcs
      <4>2. Goes(w, state)
        BY <1>3, <3>1 DEF LoadBase
      <4> HIDE DEF here
      <4>3. base \in 0 .. MaxInput
        BY <1>rows, BoundAssumption DEF Inputs
      <4>4. state \in WorkerStates /\ state.pc = "checkpoint" /\ state.job = worker[w].job
            /\ state.next = "prepare" /\ state.base = base /\ state.stage = 1
        <5>1. [here EXCEPT !.next = "prepare", !.base = base] \in WorkerStates
          BY <4>1, <4>3 DEF WorkerStates
        <5>2. 1 \in 0 .. Len(Stages)
          BY ThreeStages
        <5> QED BY <4>1, <5>1, <5>2, <4>3 DEF WorkerStates
      <4> HIDE DEF state
      <4> QED BY <1>rows, <2>1, <4>2, <4>4, NoneAssumption, GoesOn
    <3>2. CASE base # Mine(w).input
      BY <1>3, <2>1, <3>2, AbortsTyped DEF LoadBase
    <3> QED BY <3>1, <3>2
  <2> HIDE DEF Moved
  <2> QED BY <1>3, <2>2 DEF LoadBase, TypeInv, TypeOK, survey, queue, provider, setting, Moved
<1>4. CASE Prepare(w)
  <2>1. worker[w].pc = "prepare" /\ grant' = grant /\ Loaded(worker[w])
    BY <1>4 DEF Prepare, queue, Loaded
  <2>2. worker[w].base \in Inputs /\ worker[w].stage \in 1 .. 3
    BY <2>1 DEF TypeInv, Memory
  <2>3. Moved
    <3>1. CASE StageDone(w)
      BY <2>1, <3>1, StageDoneTyped
    <3>2. CASE StageFails(w)
      BY <2>1, <3>2, AbortsTyped DEF StageFails
    <3>3. CASE Goes(w, [To(w, "call") EXCEPT !.secret = Secret, !.compact = FALSE])
      <4> DEFINE here == To(w, "call")
                 state == [here EXCEPT !.secret = Secret, !.compact = FALSE]
      <4>1. here \in WorkerStates /\ here.pc = "call" /\ here.job = worker[w].job
            /\ here.base = worker[w].base /\ here.stage = worker[w].stage
        BY StateTo DEF Pcs
      <4>2. Goes(w, state)
        BY <3>3
      <4> HIDE DEF here
      <4>3. state \in WorkerStates /\ state.pc = "call" /\ state.job = worker[w].job
            /\ state.base = worker[w].base /\ state.stage = worker[w].stage
        BY <4>1, KeyTypes DEF WorkerStates, TypeInv
      <4> HIDE DEF state
      <4> QED BY <2>1, <2>2, <4>2, <4>3, GoesOn
    <3> QED BY <1>4, <3>1, <3>2, <3>3 DEF Prepare, Connects
  <2>4. (\A r \in rows' : IsStageRow(r)) /\ IsFiniteSet(rows')
    <3>1. rows' = rows \/ Adds(worker[w].base, Stages[worker[w].stage])
      BY <1>4 DEF Prepare, StageOf
    <3> QED BY <2>2, <3>1, RowsStayTyped DEF TypeInv, TypeOK
  <2> HIDE DEF Moved
  <2> QED BY <1>4, <2>3, <2>4 DEF Prepare, TypeInv, TypeOK, survey, queue, provider, setting, Moved
<1>5. CASE Heartbeat(w)
  <2>1. worker[w].pc = "call" /\ grant' = grant
    BY <1>5 DEF Heartbeat
  <2>2. Moved
    <3>1. CASE StageFails(w)
      BY <2>1, <3>1, AbortsTyped DEF StageFails
    <3>2. CASE Goes(w, To(w, "reserve"))
      BY <2>1, <3>2, GoesToTyped DEF Pcs, Loaded
    <3> QED BY <1>5, <3>1, <3>2 DEF Heartbeat
  <2>3. job' \in [Jobs -> Job]
    BY <1>5, <1>rows, SupersededRows DEF Heartbeat
  <2> HIDE DEF Moved
  <2> QED BY <1>5, <1>type, <2>2, <2>3
      DEF Heartbeat, TypeInv, TypeOK, survey, provider, setting, Moved
<1>6. CASE Reserve(w)
  <2> DEFINE g == Reserved(Grant(w))
  <2>1. worker[w].pc = "reserve"
    BY <1>6 DEF Reserve
  <2>2. CASE Reservable(Grant(w))
    <3>1. Grant(w) \in Grants /\ Grant(w).token \in Tokens /\ Grant(w).identity \in Identities
          /\ worker[w].job \in Jobs
      BY <2>1, GrantOfWorker
    <3>2. Grant(w).calls \in Nat /\ Grant(w).calls < MaxCalls
      BY <2>2, <3>1, BoundAssumption DEF Reservable, Grants
    <3>3. Grant(w).calls + 1 \in 0 .. MaxCalls
      BY <3>2, BoundAssumption
    <3>4. g \in Grants /\ g.token \in Tokens /\ g.identity \in Identities
      <4> DEFINE counted == [Grant(w) EXCEPT !.calls = @ + 1]
                 marked == [counted EXCEPT !.inFlight = TRUE]
      <4>1. counted \in Grants /\ counted.token \in Tokens /\ counted.identity \in Identities
        BY <3>1, <3>3 DEF Grants
      <4>2. marked \in Grants /\ marked.token \in Tokens /\ marked.identity \in Identities
        <5> HIDE DEF counted
        <5> QED BY <4>1 DEF Grants
      <4>3. g = [marked EXCEPT !.status = "running"]
        BY DEF Reserved
      <4> HIDE DEF g, marked
      <4> QED BY <4>2, <4>3 DEF Grants
    <3>5. grant' = [grant EXCEPT ![worker[w].job] = g]
      BY <1>6, <2>2 DEF Reserve, Grant
    <3> HIDE DEF g
    <3>6. /\ grant' \in [Jobs -> Grants]
          /\ \A i \in Jobs : Signed(grant'[i]) /\ (grant[i] # NoGrant => grant'[i] # NoGrant)
      BY <3>1, <3>4, <3>5, GrantChanges
    <3>7. Goes(w, To(w, "send"))
      BY <1>6, <2>2 DEF Reserve
    <3>8. Moved
      BY <2>1, <3>6, <3>7, GoesToTyped DEF Pcs, Loaded
    <3> HIDE DEF Moved
    <3> QED BY <1>6, <3>6, <3>8 DEF Reserve, TypeInv, TypeOK, survey, provider, setting, Moved
  <2>3. CASE ~Reservable(Grant(w))
    <3>1. Aborts(w, "fail") /\ grant' = grant
      BY <1>6, <2>3 DEF Reserve, StageFails
    <3>2. Moved
      BY <2>1, <3>1, AbortsTyped
    <3> HIDE DEF Moved
    <3> QED BY <1>6, <3>1, <3>2 DEF Reserve, TypeInv, TypeOK, survey, provider, setting, Moved
  <2> QED BY <2>2, <2>3
<1>7. CASE Send(w)
  <2>1. worker[w].pc = "send" /\ grant' = grant /\ Goes(w, To(w, "wait"))
    BY <1>7 DEF Send, queue
  <2>2. Moved
    BY <2>1, GoesToTyped DEF Pcs, Loaded
  <2>3. sent' \in [Jobs -> Nat]
    <3>1. worker[w].job \in Jobs /\ sent \in [Jobs -> Nat]
      BY <2>1, GrantOfWorker DEF TypeInv, TypeOK
    <3>2. sent' = [sent EXCEPT ![worker[w].job] = @ + 1]
      BY <1>7 DEF Send
    <3> QED BY <3>1, <3>2
  <2> HIDE DEF Moved
  <2> QED BY <1>7, <2>2, <2>3 DEF Send, TypeInv, TypeOK, survey, queue, setting, Moved
<1>grant. ASSUME worker[w].pc # "idle", NEW g \in Grants, g.token = Grant(w).token,
                 g.identity = Grant(w).identity, grant' = [grant EXCEPT ![worker[w].job] = g]
          PROVE  /\ grant' \in [Jobs -> Grants]
                 /\ \A i \in Jobs : Signed(grant'[i]) /\ (grant[i] # NoGrant => grant'[i] # NoGrant)
  BY <1>grant, GrantOfWorker, GrantChanges
<1>8. ASSUME NEW quality \in Qualities, Receive(w, quality) PROVE TypeInv'
  <2> DEFINE g == [Grant(w) EXCEPT !.inFlight = FALSE]
  <2>1. worker[w].pc = "wait" /\ Goes(w, To(w, quality))
    BY <1>8 DEF Receive
  <2>2. g \in Grants /\ g.token = Grant(w).token /\ g.identity = Grant(w).identity
    BY <2>1, GrantOfWorker DEF Grants
  <2>3. grant' = [grant EXCEPT ![worker[w].job] = g]
    BY <1>8 DEF Receive, Grant
  <2> HIDE DEF g
  <2>4. /\ grant' \in [Jobs -> Grants]
        /\ \A i \in Jobs : Signed(grant'[i]) /\ (grant[i] # NoGrant => grant'[i] # NoGrant)
    BY <1>grant, <2>1, <2>2, <2>3
  <2>5. Moved
    BY <2>1, <2>4, GoesToTyped DEF Pcs, Loaded, Qualities
  <2> HIDE DEF Moved
  <2> QED BY <1>8, <2>4, <2>5 DEF Receive, TypeInv, TypeOK, survey, provider, setting, Moved
<1>again. ASSUME Loaded(worker[w]), worker[w].pc # "idle", AgainCompact(w),
                 \A j \in Jobs : grant[j] # NoGrant => grant'[j] # NoGrant
          PROVE  Moved
  <2> DEFINE here == To(w, "call")
             state == [here EXCEPT !.compact = TRUE]
  <2>1. here \in WorkerStates /\ here.pc = "call" /\ here.job = worker[w].job
        /\ here.base = worker[w].base /\ here.stage = worker[w].stage
    BY StateTo DEF Pcs
  <2>2. Goes(w, state)
    BY <1>again DEF AgainCompact
  <2>3. worker[w].base \in Inputs /\ worker[w].stage \in 1 .. 3
    BY <1>again DEF TypeInv, Memory
  <2> HIDE DEF here
  <2>4. state \in WorkerStates /\ state.pc = "call" /\ state.job = worker[w].job
        /\ state.base = worker[w].base /\ state.stage = worker[w].stage
    BY <2>1 DEF WorkerStates
  <2> HIDE DEF state
  <2> QED BY <1>again, <2>2, <2>3, <2>4, GoesOn
<1>9. ASSUME NEW limited \in BOOLEAN, Raise(w, limited) PROVE TypeInv'
  <2> DEFINE g == [Grant(w) EXCEPT !.status = "uncertain"]
  <2>1. worker[w].pc = "wait" /\ lost' = TRUE
    BY <1>9 DEF Raise, Unanswered
  <2>2. g \in Grants /\ g.token = Grant(w).token /\ g.identity = Grant(w).identity
    BY <2>1, GrantOfWorker DEF Grants
  <2>3. grant' = [grant EXCEPT ![worker[w].job] = g]
    BY <1>9 DEF Raise, Unanswered, Grant
  <2> HIDE DEF g
  <2>4. /\ grant' \in [Jobs -> Grants]
        /\ \A i \in Jobs : Signed(grant'[i]) /\ (grant[i] # NoGrant => grant'[i] # NoGrant)
    BY <1>grant, <2>1, <2>2, <2>3
  <2>5. Moved
    <3>1. CASE AgainCompact(w)
      BY <1>again, <2>1, <2>4, <3>1 DEF Loaded
    <3>2. CASE StageFails(w)
      BY <2>1, <2>4, <3>2, AbortsTyped DEF StageFails
    <3> QED BY <1>9, <3>1, <3>2 DEF Raise
  <2> HIDE DEF Moved
  <2> QED BY <1>9, <2>1, <2>4, <2>5 DEF Raise, TypeInv, TypeOK, survey, setting, Moved
<1>10. CASE Validate(w)
  <2>1. worker[w].pc \in {"valid", "invalid", "empty"} /\ grant' = grant /\ Loaded(worker[w])
    BY <1>10 DEF Validate, queue, Loaded
  <2>2. worker[w].base \in Inputs /\ worker[w].stage \in 1 .. 3
    BY <2>1 DEF TypeInv, Memory
  <2>3. Moved
    <3>1. CASE StageDone(w)
      BY <2>1, <3>1, StageDoneTyped
    <3>2. CASE AgainCompact(w)
      BY <1>again, <2>1, <3>2
    <3>3. CASE StageFails(w)
      BY <2>1, <3>3, AbortsTyped DEF StageFails
    <3> QED BY <1>10, <3>1, <3>2, <3>3 DEF Validate
  <2>4. (\A r \in rows' : IsStageRow(r)) /\ IsFiniteSet(rows')
    <3>1. rows' = rows \/ Adds(worker[w].base, Stages[worker[w].stage])
      BY <1>10 DEF Validate, StageOf
    <3> QED BY <2>2, <3>1, RowsStayTyped DEF TypeInv, TypeOK
  <2> HIDE DEF Moved
  <2> QED BY <1>10, <2>3, <2>4
      DEF Validate, TypeInv, TypeOK, survey, queue, provider, setting, Moved
<1>11. CASE Publish(w)
  <2>1. worker[w].pc = "publish" /\ grant' = grant
    BY <1>11 DEF Publish
  <2>2. Moved
    <3>1. CASE Aborts(w, "fail") \/ Aborts(w, "superseded")
      BY <2>1, <3>1, AbortsTyped
    <3>2. CASE Goes(w, To(w, "complete"))
      BY <2>1, <3>2, GoesToTyped DEF Pcs
    <3> QED BY <1>11, <3>1, <3>2 DEF Publish
  <2>3. job' \in [Jobs -> Job]
    <3>1. CASE job' = [job EXCEPT ![worker[w].job] = Released(@, "succeeded")]
      <4>1. worker[w].job \in Jobs
        BY <2>1, GrantOfWorker
      <4>2. Released(job[worker[w].job], "succeeded") \in Job
        BY <1>rows, <4>1, ReleasedRow
      <4> QED BY <1>rows, <3>1, <4>2
    <3> QED BY <1>11, <1>rows, <3>1, SupersededRows DEF Publish
  <2>4. ai' \in 0 .. MaxInput
    BY <1>11, <1>rows, BoundAssumption DEF Publish, TypeInv, TypeOK, Inputs
  <2> HIDE DEF Moved
  <2> QED BY <1>11, <1>type, <2>2, <2>3, <2>4
      DEF Publish, TypeInv, TypeOK, survey, provider, setting, Moved
<1>12. CASE Complete(w)
  <2> DEFINE g == [Grant(w) EXCEPT !.status = "completed"]
  <2>1. worker[w].pc = "complete" /\ Goes(w, Idle)
    BY <1>12 DEF Complete
  <2>2. g \in Grants /\ g.token = Grant(w).token /\ g.identity = Grant(w).identity
    BY <2>1, GrantOfWorker DEF Grants
  <2>3. grant' = [grant EXCEPT ![worker[w].job] = g]
    BY <1>12 DEF Complete, Grant
  <2> HIDE DEF g
  <2>4. /\ grant' \in [Jobs -> Grants]
        /\ \A i \in Jobs : Signed(grant'[i]) /\ (grant[i] # NoGrant => grant'[i] # NoGrant)
    BY <1>grant, <2>1, <2>2, <2>3
  <2>5. Moved
    BY <2>1, <2>4, NoJobType, WorkerMoves
  <2> HIDE DEF Moved
  <2> QED BY <1>12, <2>4, <2>5 DEF Complete, TypeInv, TypeOK, survey, provider, setting, Moved
<1>13. CASE FailGrant(w)
  <2> DEFINE g == IF Grant(w).inFlight THEN Grant(w) ELSE [Grant(w) EXCEPT !.status = "failed"]
  <2>1. worker[w].pc = "aborting" /\ Goes(w, To(w, "finish"))
    BY <1>13 DEF FailGrant
  <2>2. g \in Grants /\ g.token = Grant(w).token /\ g.identity = Grant(w).identity
    BY <2>1, GrantOfWorker DEF Grants
  <2>3. grant' = [grant EXCEPT ![worker[w].job] = g]
    BY <1>13 DEF FailGrant, Grant
  <2> HIDE DEF g
  <2>4. /\ grant' \in [Jobs -> Grants]
        /\ \A i \in Jobs : Signed(grant'[i]) /\ (grant[i] # NoGrant => grant'[i] # NoGrant)
    BY <1>grant, <2>1, <2>2, <2>3
  <2>5. Moved
    BY <2>1, <2>4, GoesToTyped DEF Pcs
  <2> HIDE DEF Moved
  <2> QED BY <1>13, <2>4, <2>5 DEF FailGrant, TypeInv, TypeOK, survey, provider, setting, Moved
<1>14. CASE FinishJob(w)
  <2>1. worker[w].pc = "finish" /\ Goes(w, Idle) /\ grant' = grant
    BY <1>14 DEF FinishJob
  <2>2. Moved
    BY <2>1, NoJobType, WorkerMoves
  <2>3. job' \in [Jobs -> Job]
    <3>1. worker[w].job \in Jobs
      BY <2>1, GrantOfWorker
    <3>2. Failed(job[worker[w].job], worker[w].outcome) \in Job
      BY <1>rows, <3>1, FailedRow
    <3> QED BY <1>14, <1>rows, <3>2 DEF FinishJob
  <2> HIDE DEF Moved
  <2> QED BY <1>14, <1>type, <2>2, <2>3
      DEF FinishJob, TypeInv, TypeOK, survey, provider, setting, Moved
<1> QED BY <1>1, <1>2, <1>3, <1>4, <1>5, <1>6, <1>7, <1>8, <1>9, <1>10, <1>11, <1>12, <1>13, <1>14
    DEF Runs

LEMMA TypeStep == TypeInv /\ [Next]_vars => TypeInv'
<1> SUFFICES ASSUME TypeInv, [Next]_vars PROVE TypeInv'
  OBVIOUS
<1>1. CASE UNCHANGED vars
  BY <1>1 DEF TypeInv, TypeOK, vars
<1>2. ASSUME NEW w \in Workers, Kill(w) PROVE TypeInv'
  <2>1. worker' \in [Workers -> WorkerStates] /\ \A v \in Workers : Memory(worker'[v], grant')
    BY <1>2, NoJobType, WorkerMoves DEF Kill, queue
  <2>2. events' \in 0 .. MaxEvents /\ lost' \in BOOLEAN
    BY <1>2, EventsStayTyped DEF Kill, TypeInv, TypeOK
  <2> QED BY <1>2, <2>1, <2>2 DEF Kill, TypeInv, TypeOK, survey, queue
<1> QED BY <1>1, <1>2, OwnerTypes, SurveyTypes, PollTypes, RunTypes, TimeTypes DEF Next

LEMMA TypesHold == Spec => []TypeInv
<1>1. Init => TypeInv
  <2> SUFFICES ASSUME Init PROVE TypeInv
    OBVIOUS
  <2>1. /\ input \in Inputs /\ base \in Inputs /\ ai \in 0 .. MaxInput /\ events \in 0 .. MaxEvents
    BY BoundAssumption DEF Init, Inputs
  <2>2. \A j \in Jobs : job[j] \in Job /\ grant[j] \in Grants /\ Signed(grant[j])
    BY NoJobType DEF Init, Signed
  <2>3. \A w \in Workers : worker[w] \in WorkerStates /\ Memory(worker[w], grant)
    BY NoJobType DEF Init
  <2>4. rows = {} /\ IsFiniteSet(rows)
    BY FS_EmptySet DEF Init
  <2>5. job \in [Jobs -> Job] /\ job \in [Jobs -> JobRows] /\ grant \in [Jobs -> Grants]
        /\ worker \in [Workers -> WorkerStates]
    BY <2>2, <2>3 DEF Init, Job
  <2>6. token \in [Tokens -> Identities \union {None}] /\ sent \in [Jobs -> Nat]
    BY DEF Init
  <2>7. /\ key \in [secrets : Seq(ApiKeys \union {None}) \ {<<>>}, generation : Nat \ {0}, open : Nat]
        /\ improved \in Nat
    BY KeyAssumption DEF Init
  <2>10. owner \in BOOLEAN /\ lost \in BOOLEAN
    BY Zenon DEF Init
  <2>8. \A r \in rows : IsStageRow(r)
    BY <2>4
  <2>9. scenario \in Scenarios
    BY DEF Init
  <2> QED BY <2>1, <2>2, <2>3, <2>4, <2>5, <2>6, <2>7, <2>8, <2>9, <2>10 DEF TypeInv, TypeOK
<1> QED BY <1>1, TypeStep, PTL DEF Spec

\* The rows, the memory of the workers and the budgets keep their types.
THEOREM TypeCorrect == Spec => []TypeOK
<1>1. TypeInv => TypeOK
  BY DEF TypeInv
<1> QED BY <1>1, TypesHold, PTL

-----------------------------------------------------------------------------
(* Calls *)

\* What a step does to the grants, when it gives no consent and neither reserves nor ends a call.
Keeps ==
    \A j \in Jobs :
        /\ grant'[j].token = grant[j].token /\ grant'[j].identity = grant[j].identity
        /\ grant'[j].calls = grant[j].calls /\ grant'[j].inFlight = grant[j].inFlight
        /\ Active(grant'[j]) => Active(grant[j])

\* No worker begins a call or gets on with one.
Rests == \A w \in Workers : Calling(worker'[w]) => worker'[w] = worker[w]

\* Most steps make no call, and lose at most one.
Quiet ==
    /\ Keeps /\ Rests /\ sent' = sent
    /\ lost' => lost \/ \E w \in Workers : worker[w].pc = "wait" /\ ~Calling(worker'[w])

LEMMA KeepsOthers ==
    ASSUME TypeInv, NEW j \in Jobs, NEW g, grant' = [grant EXCEPT ![j] = g],
           g.token = grant[j].token, g.identity = grant[j].identity,
           g.calls = grant[j].calls, g.inFlight = grant[j].inFlight,
           Active(g) => Active(grant[j])
    PROVE  Keeps
<1>1. grant \in [Jobs -> Grants]
  BY DEF TypeInv, TypeOK
<1>2. ASSUME NEW i \in Jobs PROVE grant'[i] = IF i = j THEN g ELSE grant[i]
  BY <1>1
<1> QED BY <1>2 DEF Keeps

\* A change of a grant's status that puts nothing into force.
LEMMA KeepsStatus ==
    ASSUME TypeInv, NEW j \in Jobs,
           NEW status \in {"cancelled", "failed", "completed", "uncertain"},
           grant' = [grant EXCEPT ![j].status = status]
    PROVE  Keeps
<1> DEFINE g == [grant[j] EXCEPT !.status = status]
<1>1. grant[j] \in Grants
  BY DEF TypeInv, TypeOK
<1>2. /\ g.token = grant[j].token /\ g.identity = grant[j].identity
      /\ g.calls = grant[j].calls /\ g.inFlight = grant[j].inFlight /\ g.status = status
  BY <1>1 DEF Grants
<1>3. grant' = [grant EXCEPT ![j] = g]
  OBVIOUS
<1>4. status \notin {"queued", "running"}
  OBVIOUS
<1> HIDE DEF g
<1> QED BY <1>2, <1>3, <1>4, KeepsOthers DEF Active

LEMMA RestsAfter ==
    ASSUME TypeInv, NEW w \in Workers, NEW state, Goes(w, state), ~Calling(state)
    PROVE  Rests /\ ~Calling(worker'[w])
<1>1. worker \in [Workers -> WorkerStates]
  BY DEF TypeInv, TypeOK
<1>2. ASSUME NEW v \in Workers PROVE worker'[v] = IF v = w THEN state ELSE worker[v]
  BY <1>1 DEF Goes
<1> QED BY <1>2 DEF Rests

\* The moves of a worker, of which only the last two are part of a call.
LEMMA Resting ==
    ASSUME TypeInv, NEW w \in Workers
    PROVE  /\ \A outcome : Aborts(w, outcome) => Rests /\ ~Calling(worker'[w])
           /\ StageDone(w) => Rests
           /\ AgainCompact(w) => Rests /\ ~Calling(worker'[w])
           /\ \A pc \in Pcs \ {"send", "wait"} : Goes(w, To(w, pc)) => Rests
           /\ \A next : Goes(w, [To(w, "checkpoint") EXCEPT !.next = next]) => Rests
           /\ Goes(w, [To(w, "checkpoint") EXCEPT !.next = "prepare", !.base = base, !.stage = 1])
                  => Rests
           /\ Connects(w) => Rests /\ ~Calling(worker'[w])
           /\ Goes(w, Idle) => Rests /\ ~Calling(worker'[w])
<1>to. ASSUME NEW pc \in Pcs PROVE To(w, pc) \in WorkerStates /\ To(w, pc).pc = pc
  BY StateTo
<1>pcs. "checkpoint" \in Pcs /\ "aborting" \in Pcs /\ "call" \in Pcs
  BY DEF Pcs
<1>1. ASSUME NEW outcome, Aborts(w, outcome) PROVE Rests /\ ~Calling(worker'[w])
  <2>1. [To(w, "aborting") EXCEPT !.outcome = outcome].pc = "aborting"
    BY <1>to, <1>pcs DEF WorkerStates
  <2> QED BY <1>1, <2>1, RestsAfter DEF Aborts, Calling
<1>2. ASSUME NEW next, Goes(w, [To(w, "checkpoint") EXCEPT !.next = next]) PROVE Rests
  <2>1. [To(w, "checkpoint") EXCEPT !.next = next].pc = "checkpoint"
    BY <1>to, <1>pcs DEF WorkerStates
  <2> QED BY <1>2, <2>1, RestsAfter DEF Calling
<1>3. ASSUME NEW next, NEW stage,
             Goes(w, [To(w, "checkpoint") EXCEPT !.next = next, !.stage = stage])
      PROVE  Rests
  <2>1. [To(w, "checkpoint") EXCEPT !.next = next, !.stage = stage].pc = "checkpoint"
    BY <1>to, <1>pcs DEF WorkerStates
  <2> QED BY <1>3, <2>1, RestsAfter DEF Calling
<1>4. ASSUME StageDone(w) PROVE Rests
  BY <1>2, <1>3, <1>4 DEF StageDone
<1>5. ASSUME Connects(w) PROVE Rests /\ ~Calling(worker'[w])
  <2>1. [To(w, "call") EXCEPT !.secret = Secret, !.compact = FALSE].pc = "call"
    BY <1>to, <1>pcs DEF WorkerStates
  <2> QED BY <1>1, <1>5, <2>1, RestsAfter DEF Connects, StageFails, Calling
<1>6. ASSUME NEW pc \in Pcs \ {"send", "wait"}, Goes(w, To(w, pc)) PROVE Rests
  BY <1>6, <1>to, RestsAfter DEF Calling
<1>7. ASSUME Goes(w, [To(w, "checkpoint") EXCEPT !.next = "prepare", !.base = base, !.stage = 1])
      PROVE  Rests
  <2>1. [To(w, "checkpoint") EXCEPT !.next = "prepare", !.base = base, !.stage = 1].pc = "checkpoint"
    BY <1>to, <1>pcs DEF WorkerStates
  <2> QED BY <1>7, <2>1, RestsAfter DEF Calling
<1>8. ASSUME Goes(w, Idle) PROVE Rests /\ ~Calling(worker'[w])
  BY <1>8, RestsAfter DEF Calling, Idle
<1>9. ASSUME AgainCompact(w) PROVE Rests /\ ~Calling(worker'[w])
  <2>1. [To(w, "call") EXCEPT !.compact = TRUE].pc = "call"
    BY <1>to, <1>pcs DEF WorkerStates
  <2> QED BY <1>9, <2>1, RestsAfter DEF AgainCompact, Calling
<1> QED BY <1>1, <1>2, <1>4, <1>5, <1>6, <1>7, <1>8, <1>9

LEMMA KeepsAll == UNCHANGED grant => Keeps
BY DEF Keeps

LEMMA RestsAll == UNCHANGED worker => Rests
BY DEF Rests

LEMMA QuietOwner ==
    ASSUME TypeInv, Owner
    PROVE  Quiet \/ \E t \in Tokens : Confirm(t)
<1>1. ASSUME NEW t \in Tokens, Preview(t) PROVE Quiet
  BY <1>1, KeepsAll, RestsAll DEF Preview, queue, provider, Quiet
<1>2. ASSUME NEW j \in Jobs, CancelJob(j) PROVE Quiet
  <2>1. CASE grant[j] = NoGrant \/ grant[j].inFlight
    <3>1. grant' = grant
      BY <1>2, <2>1 DEF CancelJob, TypeInv, TypeOK
    <3> QED BY <1>2, <3>1, KeepsAll, RestsAll DEF CancelJob, provider, Quiet
  <2>2. CASE ~(grant[j] = NoGrant \/ grant[j].inFlight)
    <3>1. grant' = [grant EXCEPT ![j] = [@ EXCEPT !.status = "cancelled"]]
      BY <1>2, <2>2 DEF CancelJob
    <3>2. \E status \in {"cancelled", "failed", "completed", "uncertain"} :
              grant' = [grant EXCEPT ![j].status = status]
      BY <3>1
    <3>3. Keeps
      BY <3>2, KeepsStatus
    <3> QED BY <1>2, <3>3, RestsAll DEF CancelJob, provider, Quiet
  <2> QED BY <2>1, <2>2
<1>3. ASSUME NEW secret, WriteKey(secret) PROVE Quiet
  BY <1>3, KeepsAll, RestsAll DEF WriteKey, queue, provider, Quiet
<1>5. CASE WriteGeneration
  BY <1>5, KeepsAll, RestsAll DEF WriteGeneration, queue, provider, Quiet
<1>4. CASE RevokeOwner
  BY <1>4, KeepsAll, RestsAll DEF RevokeOwner, queue, provider, Quiet
<1> QED BY <1>1, <1>2, <1>3, <1>4, <1>5 DEF Owner

LEMMA QuietSurvey == ASSUME TypeInv, Survey PROVE Quiet
BY KeepsAll, RestsAll DEF Survey, ChangeAnswers, Analyse, Improve, queue, provider, Quiet

LEMMA QuietTime ==
    ASSUME TypeInv, NEW j \in Jobs, ExpireAbandoned(j) \/ ExpireHeld(j) \/ ExpireGrant(j)
    PROVE  Quiet
<1>1. CASE ExpireAbandoned(j) \/ ExpireHeld(j)
  BY <1>1, KeepsAll, RestsAll DEF ExpireAbandoned, ExpireHeld, provider, Quiet
<1>2. CASE ExpireGrant(j)
  <2> DEFINE g == [grant[j] EXCEPT !.expired = TRUE]
  <2>1. grant[j] \in Grants
    BY DEF TypeInv, TypeOK
  <2>2. /\ g.token = grant[j].token /\ g.identity = grant[j].identity
        /\ g.calls = grant[j].calls /\ g.inFlight = grant[j].inFlight
        /\ g.status = grant[j].status
    BY <2>1 DEF Grants
  <2>3. grant' = [grant EXCEPT ![j] = g]
    BY <1>2 DEF ExpireGrant
  <2> HIDE DEF g
  <2>4. Keeps
    BY <2>2, <2>3, KeepsOthers DEF Active
  <2> QED BY <1>2, <2>4, RestsAll DEF ExpireGrant, provider, Quiet
<1> QED BY <1>1, <1>2

LEMMA QuietKill == ASSUME TypeInv, NEW w \in Workers, Kill(w) PROVE Quiet
<1>1. Rests /\ ~Calling(worker'[w])
  BY Resting DEF Kill
<1>2. Keeps /\ sent' = sent /\ lost' = (lost \/ worker[w].pc = "wait")
  BY KeepsAll DEF Kill, queue
<1> QED BY <1>1, <1>2 DEF Quiet

LEMMA QuietPolls == ASSUME TypeInv, NEW w \in Workers, Polls(w) PROVE Quiet
<1>1. CASE Claim(w)
  <2>1. PICK j \in Eligible : Goes(w, [Idle EXCEPT !.pc = "claimed", !.job = j,
                                                  !.attempt = job[j].attempts + 1])
    BY <1>1 DEF Claim
  <2>2. [Idle EXCEPT !.pc = "claimed", !.job = j, !.attempt = job[j].attempts + 1].pc = "claimed"
    BY DEF Idle
  <2>3. Rests
    BY <2>1, <2>2, RestsAfter DEF Calling
  <2> QED BY <1>1, <2>3, KeepsAll DEF Claim, provider, Quiet
<1>2. CASE Sweep(w)
  BY <1>2, KeepsAll, RestsAll DEF Sweep, provider, Quiet
<1> QED BY <1>1, <1>2 DEF Polls

\* The steps of a call.
Calls(w) ==
    \/ Reserve(w) /\ Reservable(Grant(w))
    \/ Send(w)
    \/ \E quality \in Qualities : Receive(w, quality)

LEMMA QuietRuns == ASSUME TypeInv, NEW w \in Workers, Runs(w) PROVE Quiet \/ Calls(w)
<1>pcs. Pcs \ {"send", "wait"} = {"idle", "claimed", "checkpoint", "load", "prepare", "call",
        "reserve", "valid", "invalid", "empty", "publish", "complete", "aborting", "finish"}
  BY DEF Pcs
<1>1. CASE Begin(w)
  BY <1>1, KeepsAll, Resting DEF Begin, queue, provider, Quiet
<1>2. CASE Checkpoint(w)
  <2>1. worker[w].pc = "checkpoint" => worker[w].next \in {"load", "prepare", "publish"}
    BY DEF TypeInv, TypeOK, Memory, WorkerStates
  <2>2. Rests
    BY <1>pcs, <1>2, <2>1, Resting DEF Checkpoint
  <2> QED BY <1>2, <2>2, KeepsAll DEF Checkpoint, provider, Quiet
<1>3. CASE LoadBase(w)
  BY <1>3, KeepsAll, Resting DEF LoadBase, queue, provider, Quiet
<1>4. CASE Prepare(w)
  <2>1. Rests
    BY <1>4, Resting DEF Prepare, StageFails
  <2> QED BY <1>4, <2>1, KeepsAll DEF Prepare, queue, provider, Quiet
<1>5. CASE Heartbeat(w)
  <2>1. Rests
    BY <1>pcs, <1>5, Resting DEF Heartbeat, StageFails
  <2> QED BY <1>5, <2>1, KeepsAll DEF Heartbeat, provider, Quiet
<1>6. CASE Reserve(w) /\ ~Reservable(Grant(w))
  BY <1>6, KeepsAll, Resting DEF Reserve, StageFails, provider, Quiet
<1>7. ASSUME NEW limited \in BOOLEAN, Raise(w, limited) PROVE Quiet
  <2>1. worker[w].pc = "wait" /\ worker[w].job \in Jobs
    BY <1>7, GrantOfWorker DEF Raise
  <2>2. Rests /\ ~Calling(worker'[w])
    BY <1>7, Resting DEF Raise, StageFails
  <2>3. Keeps
    BY <1>7, <2>1, KeepsStatus DEF Raise, Unanswered
  <2> QED BY <1>7, <2>1, <2>2, <2>3 DEF Raise, Quiet
<1>8. CASE Validate(w)
  <2>1. Rests
    BY <1>8, Resting DEF Validate, StageFails
  <2> QED BY <1>8, <2>1, KeepsAll DEF Validate, queue, provider, Quiet
<1>9. CASE Publish(w)
  <2>1. Rests
    BY <1>pcs, <1>9, Resting DEF Publish
  <2> QED BY <1>9, <2>1, KeepsAll DEF Publish, provider, Quiet
<1>10. CASE Complete(w)
  <2>1. worker[w].job \in Jobs
    BY <1>10, GrantOfWorker DEF Complete
  <2>2. Keeps
    BY <1>10, <2>1, KeepsStatus DEF Complete
  <2> QED BY <1>10, <2>2, Resting DEF Complete, provider, Quiet
<1>11. CASE FailGrant(w)
  <2>1. worker[w].job \in Jobs
    BY <1>11, GrantOfWorker DEF FailGrant
  <2>2. Keeps
    <3>1. CASE grant[worker[w].job].inFlight
      <4>1. grant' = grant
        BY <1>11, <2>1, <3>1 DEF FailGrant, TypeInv, TypeOK
      <4> QED BY <4>1, KeepsAll
    <3>2. CASE ~grant[worker[w].job].inFlight
      <4>1. grant' = [grant EXCEPT ![worker[w].job] = [@ EXCEPT !.status = "failed"]]
        BY <1>11, <3>2 DEF FailGrant
      <4> QED BY <2>1, <4>1, KeepsStatus
    <3> QED BY <3>1, <3>2
  <2>3. Rests
    BY <1>pcs, <1>11, Resting DEF FailGrant
  <2> QED BY <1>11, <2>2, <2>3 DEF FailGrant, provider, Quiet
<1>12. CASE FinishJob(w)
  BY <1>12, KeepsAll, Resting DEF FinishJob, provider, Quiet
<1> QED BY <1>1, <1>2, <1>3, <1>4, <1>5, <1>6, <1>7, <1>8, <1>9, <1>10, <1>11, <1>12 DEF Runs, Calls

\* Only a confirmation and the steps of a call are not quiet.
LEMMA StepKinds ==
    ASSUME TypeInv, [Next]_vars
    PROVE  Quiet \/ (\E t \in Tokens : Confirm(t)) \/ (\E w \in Workers : Calls(w))
<1>1. CASE UNCHANGED vars
  BY <1>1, KeepsAll, RestsAll DEF vars, Quiet
<1> QED BY <1>1, QuietOwner, QuietSurvey, QuietTime, QuietKill, QuietPolls, QuietRuns DEF Next

\* What the invariant needs of the types.
LEMMA CallTypes ==
    ASSUME TypeInv
    PROVE  /\ \A j \in Jobs : /\ grant[j] # NoGrant <=> grant[j].token \in Tokens
                              /\ grant[j].calls \in Nat /\ sent[j] \in Nat
                              /\ Active(grant[j]) => grant[j] # NoGrant
                              /\ grant[j].inFlight => grant[j] # NoGrant
           /\ \A w \in Workers : worker[w].pc # "idle" => worker[w].job \in Jobs
<1>1. ASSUME NEW j \in Jobs PROVE Signed(grant[j]) /\ grant[j] \in Grants /\ sent[j] \in Nat
  BY DEF TypeInv, TypeOK
<1>2. ASSUME NEW j \in Jobs PROVE grant[j].calls \in Nat
  BY <1>1, BoundAssumption DEF Grants
<1> QED BY <1>1, <1>2, SignedGrant, NoGrantIsInactive, GrantOfWorker

LEMMA QuietCalls ==
    ASSUME TypeInv, TypeInv', CallsInv, Quiet
    PROVE  CallsInv'
<1>1. ASSUME NEW j \in Jobs
      PROVE  /\ grant'[j].token = grant[j].token /\ grant'[j].calls = grant[j].calls
             /\ grant'[j].inFlight = grant[j].inFlight
             /\ Active(grant'[j]) => Active(grant[j])
             /\ grant'[j] # NoGrant <=> grant[j] # NoGrant
  BY CallTypes, SignedGrant DEF Quiet, Keeps, TypeInv
<1>2. ConsentIsSpentOnce'
  BY <1>1 DEF CallsInv, ConsentIsSpentOnce
<1>3. ASSUME NEW w \in Workers, Calling(worker'[w])
      PROVE  worker'[w] = worker[w] /\ Calling(worker[w]) /\ worker[w].job \in Jobs
  <2>1. worker'[w] = worker[w]
    BY <1>3 DEF Quiet, Rests
  <2>2. worker[w].pc # "idle"
    BY <1>3, <2>1 DEF Calling
  <2> QED BY <1>3, <2>1, <2>2, CallTypes
<1>4. Counted'
  <2>1. \A j \in Jobs : sent'[j] <= grant'[j].calls
    BY <1>1 DEF CallsInv, Counted, Quiet
  <2>2. \A w \in Workers : worker'[w].pc = "send" => sent'[worker'[w].job] < grant'[worker'[w].job].calls
    BY <1>1, <1>3 DEF CallsInv, Counted, Quiet, Grant, Calling
  <2>3. \A w \in Workers : Calling(worker'[w]) => grant'[worker'[w].job].inFlight
    BY <1>1, <1>3 DEF CallsInv, Counted, Grant
  <2>4. \A v, w \in Workers : v # w /\ Calling(worker'[v]) /\ Calling(worker'[w])
                                 => worker'[v].job # worker'[w].job
    BY <1>3 DEF CallsInv, Counted
  <2> QED BY <2>1, <2>2, <2>3, <2>4 DEF Counted, Grant
<1>5. OneInFlight'
  BY <1>1 DEF CallsInv, OneInFlight
<1>6. LostCall'
  <2>1. CASE lost /\ lost'
    <3>1. PICK j \in Jobs :
             grant[j].inFlight /\ \A w \in Workers : Calling(worker[w]) => worker[w].job # j
      BY <2>1 DEF CallsInv, LostCall
    <3> QED BY <1>1, <1>3, <3>1 DEF LostCall
  <2>2. CASE ~lost /\ lost'
    <3>1. PICK w \in Workers : worker[w].pc = "wait" /\ ~Calling(worker'[w])
      BY <2>2 DEF Quiet
    <3>2. Calling(worker[w]) /\ worker[w].job \in Jobs
      BY <3>1, CallTypes DEF Calling
    <3>3. grant'[worker[w].job].inFlight
      BY <1>1, <3>2 DEF CallsInv, Counted, Grant
    <3>4. \A v \in Workers : Calling(worker'[v]) => worker'[v].job # worker[w].job
      BY <1>3, <3>1, <3>2 DEF CallsInv, Counted
    <3> QED BY <3>2, <3>3, <3>4 DEF LostCall
  <2> QED BY <2>1, <2>2 DEF LostCall
<1> QED BY <1>2, <1>4, <1>5, <1>6 DEF CallsInv

\* A confirmation is refused while a call is in flight, and puts the old consent out of force.
LEMMA ConfirmCalls ==
    ASSUME TypeInv, TypeInv', CallsInv, NEW t \in Tokens, Confirm(t)
    PROVE  CallsInv'
<1>1. PICK outcome \in Scheduled(WithoutObsolete) :
         /\ grant[outcome[2]] = NoGrant
         /\ grant' = [Staled EXCEPT ![outcome[2]] = NewGrant(t)]
  BY DEF Confirm
<1> DEFINE k == outcome[2]
<1>2. k \in Jobs
  BY WithoutObsoleteRows, ScheduledRows DEF TypeInv, TypeOK
<1>3. /\ \A j \in Jobs : ~grant[j].inFlight /\ grant[j].token # t
      /\ UNCHANGED <<worker, sent, lost>>
  BY DEF Confirm, Uncertain, Confirmed, provider
<1>4. ASSUME NEW j \in Jobs, j # k
      PROVE  /\ grant'[j].token = grant[j].token /\ grant'[j].calls = grant[j].calls
             /\ ~grant'[j].inFlight /\ ~Active(grant'[j])
  <2>1. grant'[j] = Staled[j]
    BY <1>1, <1>2, <1>4 DEF Staled
  <2>2. grant[j] \in Grants
    BY DEF TypeInv, TypeOK
  <2>3. CASE Obsolete # {} /\ j = CHOOSE i \in Obsolete : TRUE
    <3> DEFINE g == [grant[j] EXCEPT !.status = "stale"]
    <3>1. g.token = grant[j].token /\ g.calls = grant[j].calls /\ g.inFlight = grant[j].inFlight
          /\ g.status = "stale"
      BY <2>2 DEF Grants
    <3>2. grant'[j] = g
      BY <2>1, <2>3 DEF Staled
    <3> QED BY <1>3, <3>1, <3>2 DEF Active
  <2>4. CASE ~(Obsolete # {} /\ j = CHOOSE i \in Obsolete : TRUE)
    <3>1. grant'[j] = grant[j]
      BY <2>1, <2>4 DEF Staled
    <3>2. ~Active(grant[j])
      <4>1. SUFFICES ASSUME Active(grant[j]) PROVE FALSE
        OBVIOUS
      <4>2. j \in Obsolete
        BY <4>1 DEF Obsolete
      <4> DEFINE old == CHOOSE i \in Obsolete : TRUE
      <4>3. old \in Jobs /\ Active(grant[old]) /\ old # j
        BY <2>4, <4>2 DEF Obsolete
      <4> HIDE DEF old
      <4>4. grant[old] # NoGrant /\ grant[j] # NoGrant
        BY <4>1, <4>3, CallTypes
      <4> QED BY <4>1, <4>3, <4>4 DEF CallsInv, ConsentIsSpentOnce
    <3> QED BY <1>3, <3>1, <3>2
  <2> QED BY <2>3, <2>4
<1>5. grant'[k].token = t /\ grant'[k].calls = 0 /\ ~grant'[k].inFlight
  <2>1. Staled \in [Jobs -> {Staled[j] : j \in Jobs}]
    BY DEF Staled
  <2>2. grant'[k] = NewGrant(t)
    BY <1>1, <1>2, <2>1
  <2> QED BY <2>2 DEF NewGrant, NoGrant
<1>6. grant[k].calls = 0 /\ sent[k] = 0
  <2>1. grant[k].calls = 0
    BY <1>1 DEF NoGrant
  <2> QED BY <1>2, <2>1, CallTypes DEF CallsInv, Counted
<1> HIDE DEF k
<1>7. ConsentIsSpentOnce'
  BY <1>2, <1>3, <1>4, <1>5, CallTypes, SignedGrant DEF CallsInv, ConsentIsSpentOnce, TypeInv
<1>8. \A w \in Workers : ~Calling(worker[w])
  <2>1. SUFFICES ASSUME NEW w \in Workers, Calling(worker[w]) PROVE FALSE
    OBVIOUS
  <2>2. worker[w].job \in Jobs
    BY <2>1, CallTypes DEF Calling
  <2> QED BY <1>3, <2>1, <2>2 DEF CallsInv, Counted, Grant
<1>9. Counted'
  <2>1. \A j \in Jobs : sent'[j] <= grant'[j].calls
    BY <1>3, <1>4, <1>5, <1>6 DEF CallsInv, Counted
  <2> QED BY <1>3, <1>8, <2>1 DEF Counted, Calling
<1>10. OneInFlight'
  BY <1>2, <1>4, <1>5 DEF OneInFlight
<1>11. LostCall'
  BY <1>3 DEF CallsInv, LostCall
<1> QED BY <1>7, <1>9, <1>10, <1>11 DEF CallsInv

\* Where a step of a call takes the worker.
LEMMA CallingTo ==
    ASSUME TypeInv, NEW w \in Workers, NEW pc \in Pcs, Goes(w, To(w, pc))
    PROVE  /\ worker'[w].pc = pc /\ worker'[w].job = worker[w].job
           /\ worker'[w].base = worker[w].base
           /\ \A v \in Workers : v # w => worker'[v] = worker[v]
<1>1. worker \in [Workers -> WorkerStates]
  BY DEF TypeInv, TypeOK
<1>2. worker'[w] = To(w, pc) /\ \A v \in Workers : v # w => worker'[v] = worker[v]
  BY <1>1 DEF Goes
<1> QED BY <1>2, StateTo

\* A reservation finds no mark on its grant, so no other worker is in a call for the job, and a
\* consent in force, so no other grant bears a mark.
LEMMA ReserveCalls ==
    ASSUME TypeInv, TypeInv', CallsInv, NEW w \in Workers, Reserve(w), Reservable(Grant(w))
    PROVE  CallsInv'
<1> DEFINE k == worker[w].job
<1>1. /\ k \in Jobs /\ grant[k] \in Grants /\ worker[w].pc = "reserve"
      /\ Active(grant[k]) /\ ~grant[k].inFlight
  BY GrantOfWorker DEF Reserve, Reservable, GrantInvalid, Grant
<1>2. grant' = [grant EXCEPT ![k] = Reserved(grant[k])] /\ Goes(w, To(w, "send"))
      /\ UNCHANGED <<sent, lost>>
  BY DEF Reserve, provider
<1>3. /\ grant'[k].token = grant[k].token /\ grant'[k].calls = grant[k].calls + 1
      /\ grant'[k].inFlight
      /\ \A j \in Jobs : j # k => grant'[j] = grant[j]
  <2>1. grant \in [Jobs -> Grants]
    BY DEF TypeInv, TypeOK
  <2>2. grant'[k] = Reserved(grant[k]) /\ \A j \in Jobs : j # k => grant'[j] = grant[j]
    BY <1>1, <1>2, <2>1
  <2> QED BY <1>1, <2>2 DEF Reserved, Grants
<1>4. /\ worker'[w].pc = "send" /\ worker'[w].job = k
      /\ \A v \in Workers : v # w => worker'[v] = worker[v]
  BY <1>2, CallingTo DEF Pcs
<1> HIDE DEF k
<1>5. ConsentIsSpentOnce'
  BY <1>1, <1>3, CallTypes, SignedGrant DEF CallsInv, ConsentIsSpentOnce, TypeInv
<1>6. ASSUME NEW v \in Workers, Calling(worker'[v]), v # w
      PROVE  Calling(worker[v]) /\ worker'[v] = worker[v] /\ worker[v].job \in Jobs
             /\ worker[v].job # k /\ grant[worker[v].job].inFlight
  <2>1. Calling(worker[v]) /\ worker'[v] = worker[v]
    BY <1>4, <1>6
  <2>2. worker[v].job \in Jobs /\ grant[worker[v].job].inFlight
    BY <2>1, CallTypes DEF Calling, CallsInv, Counted, Grant
  <2> QED BY <1>1, <2>1, <2>2
<1>7. Counted'
  <2>1. \A j \in Jobs : sent'[j] <= grant'[j].calls
    BY <1>1, <1>2, <1>3, CallTypes DEF CallsInv, Counted
  <2>2. \A v \in Workers : worker'[v].pc = "send" => sent'[worker'[v].job] < grant'[worker'[v].job].calls
    <3>1. sent'[k] < grant'[k].calls
      BY <1>1, <1>2, <1>3, CallTypes DEF CallsInv, Counted
    <3>2. ASSUME NEW v \in Workers, v # w, worker'[v].pc = "send"
          PROVE  sent'[worker'[v].job] < grant'[worker'[v].job].calls
      <4>1. Calling(worker'[v])
        BY <3>2 DEF Calling
      <4> QED BY <1>2, <1>3, <1>6, <3>2, <4>1 DEF CallsInv, Counted, Grant
    <3> QED BY <1>4, <3>1, <3>2
  <2>3. \A v \in Workers : Calling(worker'[v]) => grant'[worker'[v].job].inFlight
    BY <1>3, <1>4, <1>6
  <2>4. \A u, v \in Workers : u # v /\ Calling(worker'[u]) /\ Calling(worker'[v])
                                 => worker'[u].job # worker'[v].job
    BY <1>4, <1>6 DEF CallsInv, Counted
  <2> QED BY <2>1, <2>2, <2>3, <2>4 DEF Counted, Grant
<1>8. OneInFlight'
  <2>1. ASSUME NEW j \in Jobs, j # k PROVE ~grant[j].inFlight /\ ~Active(grant[j])
    BY <1>1, <2>1, CallTypes DEF CallsInv, OneInFlight, ConsentIsSpentOnce
  <2> QED BY <1>3, <2>1 DEF OneInFlight
<1>9. LostCall'
  <2>1. SUFFICES ASSUME lost PROVE LostCall'
    BY <1>2 DEF LostCall
  <2>2. PICK j \in Jobs :
           grant[j].inFlight /\ \A v \in Workers : Calling(worker[v]) => worker[v].job # j
    BY <2>1 DEF CallsInv, LostCall
  <2> QED BY <1>1, <1>3, <1>4, <1>6, <2>2 DEF LostCall
<1> QED BY <1>5, <1>7, <1>8, <1>9 DEF CallsInv

\* The call that is sent has been counted.
LEMMA SendCalls ==
    ASSUME TypeInv, CallsInv, NEW w \in Workers, Send(w)
    PROVE  CallsInv'
<1>1. worker[w].pc = "send" /\ worker[w].job \in Jobs /\ UNCHANGED <<grant, lost>>
      /\ sent' = [sent EXCEPT ![worker[w].job] = @ + 1] /\ Goes(w, To(w, "wait"))
  BY GrantOfWorker DEF Send, queue
<1>2. /\ worker'[w].pc = "wait" /\ worker'[w].job = worker[w].job
      /\ \A v \in Workers : v # w => worker'[v] = worker[v]
  BY <1>1, CallingTo DEF Pcs
<1>3. \A j \in Jobs : sent'[j] = IF j = worker[w].job THEN sent[j] + 1 ELSE sent[j]
  BY <1>1 DEF TypeInv, TypeOK
<1>4. \A v \in Workers : /\ worker'[v].job = worker[v].job
                         /\ Calling(worker'[v]) <=> Calling(worker[v])
                         /\ Calling(worker[v]) => worker[v].job \in Jobs
  BY <1>1, <1>2, CallTypes DEF Calling
<1>5. Counted'
  <2>1. \A j \in Jobs : sent'[j] <= grant'[j].calls
    BY <1>1, <1>3, CallTypes DEF CallsInv, Counted, Grant
  <2>2. ASSUME NEW v \in Workers, worker'[v].pc = "send"
        PROVE  sent'[worker'[v].job] < grant'[worker'[v].job].calls
    <3>1. v # w /\ worker[v].pc = "send" /\ worker'[v] = worker[v]
      BY <1>2, <2>2
    <3>2. worker[v].job # worker[w].job /\ worker[v].job \in Jobs
      BY <1>1, <1>4, <3>1 DEF CallsInv, Counted, Calling
    <3> QED BY <1>1, <1>3, <3>1, <3>2 DEF CallsInv, Counted, Grant
  <2> QED BY <1>1, <1>4, <2>1, <2>2 DEF CallsInv, Counted, Grant
<1>6. OneInFlight' /\ ConsentIsSpentOnce'
  BY <1>1 DEF CallsInv, OneInFlight, ConsentIsSpentOnce
<1>7. LostCall'
  BY <1>1, <1>4 DEF CallsInv, LostCall
<1> QED BY <1>5, <1>6, <1>7 DEF CallsInv

\* An answer clears the mark of the call it answers and no other.
LEMMA ReceiveCalls ==
    ASSUME TypeInv, TypeInv', CallsInv, NEW w \in Workers, NEW quality \in Qualities,
           Receive(w, quality)
    PROVE  CallsInv'
<1> DEFINE k == worker[w].job
<1>1. /\ k \in Jobs /\ grant[k] \in Grants /\ worker[w].pc = "wait"
      /\ Goes(w, To(w, quality)) /\ UNCHANGED <<sent, lost>>
  BY GrantOfWorker DEF Receive, Grant, provider
<1>2. /\ worker'[w].pc = quality
      /\ \A v \in Workers : v # w => worker'[v] = worker[v]
  BY <1>1, CallingTo DEF Pcs, Qualities
<1>3. /\ grant'[k].token = grant[k].token /\ grant'[k].calls = grant[k].calls
      /\ ~grant'[k].inFlight /\ (Active(grant'[k]) <=> Active(grant[k]))
      /\ \A j \in Jobs : j # k => grant'[j] = grant[j]
  <2>1. grant \in [Jobs -> Grants] /\ grant' = [grant EXCEPT ![k].inFlight = FALSE]
    BY DEF TypeInv, TypeOK, Receive
  <2>2. /\ grant'[k] = [grant[k] EXCEPT !.inFlight = FALSE]
        /\ \A j \in Jobs : j # k => grant'[j] = grant[j]
    BY <1>1, <2>1
  <2> QED BY <1>1, <2>2 DEF Grants, Active
<1>4. ~Calling(worker'[w])
  BY <1>2 DEF Calling, Qualities
<1>5. Calling(worker[w])
  BY <1>1 DEF Calling
<1> HIDE DEF k
<1>6. ASSUME NEW v \in Workers, Calling(worker'[v])
      PROVE  v # w /\ Calling(worker[v]) /\ worker'[v] = worker[v] /\ worker[v].job \in Jobs
             /\ worker[v].job # k
  <2>1. v # w /\ worker'[v] = worker[v] /\ Calling(worker[v])
    BY <1>2, <1>4, <1>6
  <2> QED BY <1>5, <2>1, CallTypes DEF Calling, CallsInv, Counted, k
<1>7. ConsentIsSpentOnce'
  BY <1>1, <1>3, CallTypes, SignedGrant DEF CallsInv, ConsentIsSpentOnce, TypeInv
<1>8. Counted'
  <2>1. \A j \in Jobs : sent'[j] <= grant'[j].calls
    BY <1>1, <1>3 DEF CallsInv, Counted
  <2>2. \A v \in Workers : worker'[v].pc = "send" => sent'[worker'[v].job] < grant'[worker'[v].job].calls
    BY <1>1, <1>3, <1>6 DEF CallsInv, Counted, Grant, Calling
  <2>3. \A v \in Workers : Calling(worker'[v]) => grant'[worker'[v].job].inFlight
    BY <1>3, <1>6 DEF CallsInv, Counted, Grant
  <2>4. \A u, v \in Workers : u # v /\ Calling(worker'[u]) /\ Calling(worker'[v])
                                 => worker'[u].job # worker'[v].job
    BY <1>6 DEF CallsInv, Counted
  <2> QED BY <2>1, <2>2, <2>3, <2>4 DEF Counted, Grant
<1>9. OneInFlight'
  <2>1. \A j \in Jobs : /\ grant'[j].inFlight => grant[j].inFlight
                        /\ Active(grant'[j]) => Active(grant[j])
    BY <1>3
  <2> QED BY <2>1 DEF CallsInv, OneInFlight
<1>10. LostCall'
  <2>1. SUFFICES ASSUME lost PROVE LostCall'
    BY <1>1 DEF LostCall
  <2>2. PICK j \in Jobs :
           grant[j].inFlight /\ \A v \in Workers : Calling(worker[v]) => worker[v].job # j
    BY <2>1 DEF CallsInv, LostCall
  <2>3. j # k
    BY <1>5, <2>2 DEF k
  <2> QED BY <1>3, <1>6, <2>2, <2>3 DEF LostCall
<1> QED BY <1>7, <1>8, <1>9, <1>10 DEF CallsInv

LEMMA CallsStep == TypeInv /\ CallsInv /\ [Next]_vars => CallsInv'
<1> SUFFICES ASSUME TypeInv, CallsInv, [Next]_vars PROVE CallsInv'
  OBVIOUS
<1>1. TypeInv'
  BY TypeStep
<1>2. ASSUME NEW w \in Workers, Calls(w) PROVE CallsInv'
  BY <1>1, <1>2, ReserveCalls, SendCalls, ReceiveCalls DEF Calls
<1> QED BY <1>1, <1>2, StepKinds, QuietCalls, ConfirmCalls

LEMMA CallsHold == Spec => []CallsInv
<1>1. Init => CallsInv
  <2> SUFFICES ASSUME Init PROVE CallsInv
    OBVIOUS
  <2>1. \A j \in Jobs : grant[j] = NoGrant /\ sent[j] = 0
    BY DEF Init
  <2>2. \A w \in Workers : worker[w].pc = "idle"
    BY DEF Init, Idle
  <2>3. \A j \in Jobs : ~grant[j].inFlight /\ grant[j].calls = 0
    BY <2>1 DEF NoGrant
  <2>4. Counted
    BY <2>1, <2>2, <2>3 DEF Counted, Calling
  <2>5. ~lost
    BY Zenon DEF Init
  <2> QED BY <2>1, <2>3, <2>4, <2>5 DEF CallsInv, ConsentIsSpentOnce, OneInFlight, LostCall
<1> QED BY <1>1, CallsStep, TypesHold, PTL DEF Spec

-----------------------------------------------------------------------------
(* Versions *)

\* A worker reads the published version once, and keeps it with its job.
Reads ==
    \A w \in Workers : Loaded(worker'[w]) =>
        /\ worker'[w].job = worker[w].job /\ worker[w].pc # "idle"
        /\ \/ Loaded(worker[w]) /\ worker'[w].base = worker[w].base
           \/ worker'[w].base = base

LEMMA ReadsAfter ==
    ASSUME TypeInv, NEW w \in Workers, NEW state, Goes(w, state),
           Loaded(state) => /\ state.job = worker[w].job /\ worker[w].pc # "idle"
                            /\ \/ Loaded(worker[w]) /\ state.base = worker[w].base
                               \/ state.base = base
    PROVE  Reads
<1>1. worker \in [Workers -> WorkerStates]
  BY DEF TypeInv, TypeOK
<1>2. ASSUME NEW v \in Workers PROVE worker'[v] = IF v = w THEN state ELSE worker[v]
  BY <1>1 DEF Goes
<1>3. ASSUME NEW v \in Workers, Loaded(worker[v]) PROVE worker[v].pc # "idle"
  BY <1>3 DEF Loaded
<1> QED BY <1>2, <1>3 DEF Reads

LEMMA Reading ==
    ASSUME TypeInv, NEW w \in Workers, worker[w].pc # "idle"
    PROVE  /\ \A outcome : Aborts(w, outcome) => Reads
           /\ Loaded(worker[w]) /\ StageDone(w) => Reads
           /\ \A pc \in Pcs : Goes(w, To(w, pc)) /\ (Loaded(To(w, pc)) => Loaded(worker[w])) => Reads
           /\ Goes(w, [To(w, "checkpoint") EXCEPT !.next = "load"]) => Reads
           /\ Goes(w, [To(w, "checkpoint") EXCEPT !.next = "prepare", !.base = base, !.stage = 1])
                  => Reads
           /\ Loaded(worker[w]) /\ (Connects(w) \/ AgainCompact(w)) => Reads
           /\ Goes(w, Idle) => Reads
<1>to. ASSUME NEW pc \in Pcs
       PROVE  /\ To(w, pc) \in WorkerStates /\ To(w, pc).pc = pc
              /\ To(w, pc).job = worker[w].job /\ To(w, pc).base = worker[w].base
  BY StateTo
<1>pcs. "checkpoint" \in Pcs /\ "aborting" \in Pcs /\ "call" \in Pcs
  BY DEF Pcs
<1>1. ASSUME NEW outcome, Aborts(w, outcome) PROVE Reads
  <2>1. [To(w, "aborting") EXCEPT !.outcome = outcome].pc = "aborting"
    BY <1>to, <1>pcs DEF WorkerStates
  <2> QED BY <1>1, <2>1, ReadsAfter DEF Aborts, Loaded
<1>2. ASSUME Loaded(worker[w]), StageDone(w) PROVE Reads
  <2> DEFINE here == To(w, "checkpoint")
             state == IF worker[w].stage = Len(Stages)
                      THEN [here EXCEPT !.next = "publish"]
                      ELSE [here EXCEPT !.next = "prepare", !.stage = @ + 1]
  <2>1. state.job = worker[w].job /\ state.base = worker[w].base
    BY <1>to, <1>pcs DEF WorkerStates
  <2>2. Goes(w, state)
    BY <1>2 DEF StageDone
  <2> HIDE DEF state
  <2> QED BY <1>2, <2>1, <2>2, ReadsAfter
<1>3. ASSUME NEW pc \in Pcs, Goes(w, To(w, pc)), Loaded(To(w, pc)) => Loaded(worker[w])
      PROVE  Reads
  BY <1>3, <1>to, ReadsAfter
<1>4. ASSUME Goes(w, [To(w, "checkpoint") EXCEPT !.next = "load"]) PROVE Reads
  <2> DEFINE state == [To(w, "checkpoint") EXCEPT !.next = "load"]
  <2>1. state.pc = "checkpoint" /\ state.next = "load"
    BY <1>to, <1>pcs DEF WorkerStates
  <2> HIDE DEF state
  <2>2. ~Loaded(state)
    BY <2>1 DEF Loaded
  <2> QED BY <1>4, <2>2, ReadsAfter DEF state
<1>5. ASSUME Goes(w, [To(w, "checkpoint") EXCEPT !.next = "prepare", !.base = base, !.stage = 1])
      PROVE  Reads
  <2> DEFINE state == [To(w, "checkpoint") EXCEPT !.next = "prepare", !.base = base, !.stage = 1]
  <2>1. state.job = worker[w].job /\ state.base = base
    BY <1>to, <1>pcs DEF WorkerStates
  <2> HIDE DEF state
  <2> QED BY <1>5, <2>1, ReadsAfter DEF state
<1>6. ASSUME Loaded(worker[w]), Connects(w) PROVE Reads
  <2> DEFINE state == [To(w, "call") EXCEPT !.secret = Secret, !.compact = FALSE]
  <2>1. state.job = worker[w].job /\ state.base = worker[w].base
    BY <1>to, <1>pcs DEF WorkerStates
  <2>2. Goes(w, state) \/ StageFails(w)
    BY <1>6 DEF Connects
  <2> HIDE DEF state
  <2> QED BY <1>1, <1>6, <2>1, <2>2, ReadsAfter DEF StageFails
<1>8. ASSUME Loaded(worker[w]), AgainCompact(w) PROVE Reads
  <2> DEFINE state == [To(w, "call") EXCEPT !.compact = TRUE]
  <2>1. state.job = worker[w].job /\ state.base = worker[w].base
    BY <1>to, <1>pcs DEF WorkerStates
  <2>2. Goes(w, state)
    BY <1>8 DEF AgainCompact
  <2> HIDE DEF state
  <2> QED BY <1>8, <2>1, <2>2, ReadsAfter
<1>7. ASSUME Goes(w, Idle) PROVE Reads
  BY <1>7, ReadsAfter DEF Loaded, Idle
<1> QED BY <1>1, <1>2, <1>3, <1>4, <1>5, <1>6, <1>7, <1>8

LEMMA WorkerReads == ASSUME TypeInv, NEW w \in Workers, Runs(w) PROVE Reads
<1>1. worker[w].pc # "idle"
  BY DEF Runs, Begin, Checkpoint, LoadBase, Prepare, Heartbeat, Reserve, Send, Receive, Raise,
         Validate, Publish, Complete, FailGrant, FinishJob
<1>to. ASSUME NEW pc \in Pcs PROVE To(w, pc).pc = pc
  BY StateTo
<1>pcs. Pcs = {"idle", "claimed", "checkpoint", "load", "prepare", "call", "reserve", "send",
        "wait", "valid", "invalid", "empty", "publish", "complete", "aborting", "finish"}
  BY DEF Pcs
<1>2. CASE Begin(w)
  BY <1>1, <1>2, Reading DEF Begin
<1>3. CASE Checkpoint(w)
  <2>1. CASE Goes(w, To(w, worker[w].next))
    <3>1. worker[w].pc = "checkpoint" /\ worker[w].next \in {"load", "prepare", "publish"}
      BY <1>3 DEF Checkpoint, TypeInv, TypeOK, Memory, WorkerStates
    <3>2. Loaded(To(w, worker[w].next)) => Loaded(worker[w])
      BY <1>to, <1>pcs, <3>1 DEF Loaded
    <3> QED BY <1>1, <1>pcs, <2>1, <3>1, <3>2, Reading
  <2> QED BY <1>1, <1>3, <2>1, Reading DEF Checkpoint
<1>4. CASE LoadBase(w)
  BY <1>1, <1>4, Reading DEF LoadBase
<1>5. CASE Prepare(w)
  BY <1>1, <1>5, Reading DEF Prepare, StageFails, Loaded
<1>6. CASE Heartbeat(w)
  BY <1>1, <1>6, <1>pcs, Reading DEF Heartbeat, StageFails, Loaded
<1>7. CASE Reserve(w)
  BY <1>1, <1>7, <1>pcs, Reading DEF Reserve, StageFails, Loaded
<1>8. CASE Send(w)
  BY <1>1, <1>8, <1>pcs, Reading DEF Send, Loaded
<1>9. ASSUME NEW quality \in Qualities, Receive(w, quality) PROVE Reads
  BY <1>1, <1>9, <1>pcs, Reading DEF Receive, Qualities, Loaded
<1>10. ASSUME NEW limited \in BOOLEAN, Raise(w, limited) PROVE Reads
  BY <1>1, <1>10, Reading DEF Raise, StageFails, Loaded
<1>11. CASE Validate(w)
  BY <1>1, <1>11, Reading DEF Validate, StageFails, Loaded
<1>12. CASE Publish(w)
  <2>1. ~Loaded(To(w, "complete"))
    BY <1>to, <1>pcs DEF Loaded
  <2> QED BY <1>1, <1>12, <1>pcs, <2>1, Reading DEF Publish
<1>13. CASE Complete(w) \/ FinishJob(w)
  BY <1>1, <1>13, Reading DEF Complete, FinishJob
<1>14. CASE FailGrant(w)
  <2>1. ~Loaded(To(w, "finish"))
    BY <1>to, <1>pcs DEF Loaded
  <2> QED BY <1>1, <1>14, <1>pcs, <2>1, Reading DEF FailGrant
<1> QED BY <1>2, <1>3, <1>4, <1>5, <1>6, <1>7, <1>8, <1>9, <1>10, <1>11, <1>12, <1>13, <1>14
    DEF Runs

LEMMA SameReads == ASSUME UNCHANGED worker PROVE Reads
BY DEF Reads, Loaded

LEMMA StepReads == ASSUME TypeInv, [Next]_vars PROVE Reads
<1>1. CASE UNCHANGED vars \/ Owner \/ Survey
  BY <1>1, SameReads DEF vars, Owner, Preview, Confirm, CancelJob, WriteKey,
                         WriteGeneration, RevokeOwner,
                         Survey, ChangeAnswers, Analyse, Improve
<1>2. ASSUME NEW w \in Workers, Polls(w) PROVE Reads
  <2>1. CASE Claim(w)
    <3>1. PICK j \in Eligible : Goes(w, [Idle EXCEPT !.pc = "claimed", !.job = j,
                                                    !.attempt = job[j].attempts + 1])
      BY <2>1 DEF Claim
    <3>2. [Idle EXCEPT !.pc = "claimed", !.job = j, !.attempt = job[j].attempts + 1].pc = "claimed"
      BY DEF Idle
    <3> QED BY <3>1, <3>2, ReadsAfter DEF Loaded
  <2>2. CASE Sweep(w)
    BY <2>2, SameReads DEF Sweep
  <2> QED BY <1>2, <2>1, <2>2 DEF Polls
<1>3. ASSUME NEW w \in Workers, Kill(w) PROVE Reads
  BY <1>3, Reading DEF Kill
<1>4. ASSUME NEW j \in Jobs, ExpireAbandoned(j) \/ ExpireHeld(j) \/ ExpireGrant(j) PROVE Reads
  BY <1>4, SameReads DEF ExpireAbandoned, ExpireHeld, ExpireGrant
<1> QED BY <1>1, <1>2, <1>3, <1>4, WorkerReads DEF Next

\* A grant keeps the identity it was given, which was signed before.
LEMMA GrantIdentities ==
    ASSUME TypeInv, TypeInv', [Next]_vars, NEW j \in Jobs
    PROVE  /\ grant[j] # NoGrant => grant'[j].identity = grant[j].identity
           /\ grant[j] = NoGrant /\ grant'[j] # NoGrant =>
                 \E t \in Tokens : token[t] # None /\ grant'[j].identity = token[t]
<1>types. grant \in [Jobs -> Grants]
  BY DEF TypeInv, TypeOK
<1>1. CASE Quiet
  BY <1>1, CallTypes, SignedGrant DEF Quiet, Keeps, TypeInv
<1>2. ASSUME NEW t \in Tokens, Confirm(t)
      PROVE  \/ grant[j] # NoGrant /\ grant'[j].identity = grant[j].identity
             \/ grant[j] = NoGrant /\ grant'[j] = NoGrant
             \/ grant[j] = NoGrant /\ token[t] # None /\ grant'[j].identity = token[t]
  <2>1. PICK outcome \in Scheduled(WithoutObsolete) :
           /\ grant[outcome[2]] = NoGrant
           /\ grant' = [Staled EXCEPT ![outcome[2]] = NewGrant(t)]
    BY <1>2 DEF Confirm
  <2>2. token[t] # None
    BY <1>2 DEF Confirm, Confirmable
  <2>3. CASE j = outcome[2]
    <3>1. j \in DOMAIN Staled
      BY DEF Staled
    <3>2. grant'[j] = NewGrant(t)
      BY <2>1, <2>3, <3>1
    <3>3. NewGrant(t).identity = token[t]
      BY DEF NewGrant, NoGrant
    <3> QED BY <2>1, <2>2, <2>3, <3>2, <3>3
  <2>4. CASE j # outcome[2]
    <3>1. grant'[j] = Staled[j]
      BY <2>1, <2>4 DEF Staled
    <3>2. CASE grant'[j] = grant[j]
      BY <3>2
    <3>3. CASE Obsolete # {} /\ j = CHOOSE i \in Obsolete : TRUE
      <4>1. Active(grant[j])
        BY <3>3 DEF Obsolete
      <4>2. grant'[j] = [grant[j] EXCEPT !.status = "stale"]
        BY <3>1, <3>3 DEF Staled
      <4> QED BY <1>types, <4>1, <4>2, NoGrantIsInactive DEF Grants
    <3> QED BY <3>1, <3>2, <3>3 DEF Staled
  <2> QED BY <2>3, <2>4
<1>3. ASSUME NEW w \in Workers, Calls(w)
      PROVE  \/ grant'[j] = grant[j]
             \/ grant[j] # NoGrant /\ grant'[j].identity = grant[j].identity
  <2>1. CASE Send(w)
    BY <2>1 DEF Send, queue
  <2>2. CASE Reserve(w) /\ Reservable(Grant(w))
    <3>1. worker[w].job \in Jobs /\ Grant(w) # NoGrant
      BY <2>2, GrantOfWorker DEF Reserve
    <3>2. grant' = [grant EXCEPT ![worker[w].job] = Reserved(@)]
      BY <2>2 DEF Reserve
    <3>3. CASE j = worker[w].job
      <4>1. grant'[j] = Reserved(grant[j])
        BY <1>types, <3>1, <3>2, <3>3
      <4> QED BY <1>types, <3>1, <3>3, <4>1 DEF Reserved, Grants, Grant
    <3>4. CASE j # worker[w].job
      BY <1>types, <3>2, <3>4
    <3> QED BY <3>3, <3>4
  <2>3. ASSUME NEW quality \in Qualities, Receive(w, quality)
        PROVE  \/ grant'[j] = grant[j]
               \/ grant[j] # NoGrant /\ grant'[j].identity = grant[j].identity
    <3>1. worker[w].job \in Jobs /\ Grant(w) # NoGrant
      BY <2>3, GrantOfWorker DEF Receive
    <3>2. grant' = [grant EXCEPT ![worker[w].job].inFlight = FALSE]
      BY <2>3 DEF Receive
    <3>3. CASE j = worker[w].job
      <4>1. grant'[j] = [grant[j] EXCEPT !.inFlight = FALSE]
        BY <1>types, <3>1, <3>2, <3>3
      <4> QED BY <1>types, <3>1, <3>3, <4>1 DEF Grants, Grant
    <3>4. CASE j # worker[w].job
      BY <1>types, <3>2, <3>4
    <3> QED BY <3>3, <3>4
  <2> QED BY <1>3, <2>1, <2>2, <2>3 DEF Calls
<1> QED BY <1>1, <1>2, <1>3, StepKinds

\* The answers change, the current ones are published, and a preview signs what is published.
LEMMA StepVersions ==
    ASSUME TypeInv, [Next]_vars
    PROVE  /\ \/ base' = base /\ (input' = input \/ input' = input + 1)
              \/ base' = input /\ input' = input
           /\ token' = token \/ \E t \in Tokens :
                 /\ token' = [token EXCEPT ![t] = CurrentIdentity]
                 /\ CurrentIdentity # None /\ base' = base
<1>1. CASE UNCHANGED vars
  BY <1>1 DEF vars
<1>2. CASE Owner
  BY <1>2 DEF Owner, Preview, Confirm, CancelJob, WriteKey, WriteGeneration, RevokeOwner, survey
<1>3. CASE Survey
  BY <1>3 DEF Survey, ChangeAnswers, Analyse, Improve
<1>4. ASSUME NEW w \in Workers, Polls(w) \/ Runs(w) \/ Kill(w)
      PROVE  UNCHANGED <<input, base, token>>
  BY <1>4 DEF Polls, Claim, Sweep, Runs, Begin, Checkpoint, LoadBase, Prepare, Heartbeat, Reserve,
              Send, Receive, Raise, Validate, Publish, Complete, FailGrant, FinishJob, Kill, survey
<1>5. ASSUME NEW j \in Jobs, ExpireAbandoned(j) \/ ExpireHeld(j) \/ ExpireGrant(j)
      PROVE  UNCHANGED <<input, base, token>>
  BY <1>5 DEF ExpireAbandoned, ExpireHeld, ExpireGrant, survey
<1> QED BY <1>1, <1>2, <1>3, <1>4, <1>5 DEF Next

LEMMA VersionsStep == TypeInv /\ VersionsInv /\ [Next]_vars => VersionsInv'
<1> SUFFICES ASSUME TypeInv, VersionsInv, [Next]_vars PROVE VersionsInv'
  OBVIOUS
<1>types. /\ TypeInv' /\ base \in Nat /\ input \in Nat
          /\ \A t \in Tokens : token[t] # None => token[t].base \in Nat
          /\ \A j \in Jobs : grant[j] # NoGrant => grant[j].identity.base \in Nat
  <2>1. base \in Inputs /\ input \in Inputs /\ token \in [Tokens -> Identities \union {None}]
        /\ \A j \in Jobs : Signed(grant[j])
    BY DEF TypeInv, TypeOK
  <2>2. \A identity \in Identities : identity.base \in Nat
    BY BoundAssumption DEF Identities, Inputs
  <2> QED BY <2>1, <2>2, TypeStep DEF Inputs, Signed
<1>1. base' <= input' /\ base <= base' /\ base' \in Nat
  BY <1>types, StepVersions DEF VersionsInv
<1>2. ASSUME NEW t \in Tokens, token'[t] # None PROVE token'[t].base <= base'
  <2>1. CASE token'[t] = token[t]
    BY <1>types, <1>1, <1>2, <2>1 DEF VersionsInv
  <2>2. CASE token'[t] = CurrentIdentity /\ CurrentIdentity # None /\ base' = base
    <3>1. CurrentIdentity.base = base
      BY <2>2 DEF CurrentIdentity
    <3> QED BY <1>types, <2>2, <3>1
  <2>3. token \in [Tokens -> Identities \union {None}]
    BY DEF TypeInv, TypeOK
  <2> QED BY <2>1, <2>2, <2>3, StepVersions
<1>3. ASSUME NEW j \in Jobs, grant'[j] # NoGrant PROVE grant'[j].identity.base <= base'
  <2>1. CASE grant[j] # NoGrant /\ grant'[j].identity = grant[j].identity
    BY <1>types, <1>1, <2>1 DEF VersionsInv
  <2>2. ASSUME NEW t \in Tokens, token[t] # None, grant'[j].identity = token[t]
        PROVE  grant'[j].identity.base <= base'
    BY <1>types, <1>1, <2>2 DEF VersionsInv
  <2> QED BY <1>types, <1>3, <2>1, <2>2, GrantIdentities
<1>4. ASSUME NEW w \in Workers, Loaded(worker'[w])
      PROVE  Grant(w)'.identity.base <= worker'[w].base /\ worker'[w].base <= base'
  <2>1. /\ worker'[w].job = worker[w].job /\ worker[w].pc # "idle"
        /\ \/ Loaded(worker[w]) /\ worker'[w].base = worker[w].base
           \/ worker'[w].base = base
    BY <1>4, StepReads DEF Reads
  <2>2. worker[w].job \in Jobs /\ grant[worker[w].job] # NoGrant
    BY <2>1, GrantOfWorker DEF Grant
  <2>3. Grant(w)'.identity.base = grant[worker[w].job].identity.base
    <3>1. grant'[worker[w].job].identity = grant[worker[w].job].identity
      BY <1>types, <2>2, GrantIdentities
    <3> QED BY <2>1, <3>1 DEF Grant
  <2>4. worker[w].base \in Nat
    BY BoundAssumption DEF TypeInv, TypeOK, WorkerStates
  <2> QED BY <1>types, <1>1, <2>1, <2>2, <2>3, <2>4 DEF VersionsInv, Grant
<1> QED BY <1>1, <1>2, <1>3, <1>4 DEF VersionsInv

LEMMA VersionsHold == Spec => []VersionsInv
<1>1. Init => VersionsInv
  <2> SUFFICES ASSUME Init PROVE VersionsInv
    OBVIOUS
  <2>1. base = 1 /\ input = 1
    BY DEF Init
  <2>2. \A t \in Tokens : token[t] = None
    BY DEF Init
  <2>3. \A j \in Jobs : grant[j] = NoGrant
    BY DEF Init
  <2>4. \A w \in Workers : ~Loaded(worker[w])
    BY DEF Init, Idle, Loaded
  <2> QED BY <2>1, <2>2, <2>3, <2>4 DEF VersionsInv
<1> QED BY <1>1, VersionsStep, TypesHold, PTL DEF Spec
-----------------------------------------------------------------------------
(* Keys *)

\* The worker has a client, with the key it read.
Client(state) == state.pc \in {"call", "reserve", "send", "wait", "valid", "invalid", "empty"}

\* Generations only grow, and a client of a job that was confirmed under the present one has a key
\* that was stored under it.
KeysInv ==
    /\ \A t \in Tokens : token[t] # None => token[t].key <= key.generation
    /\ \A j \in Jobs : grant[j] # NoGrant => grant[j].identity.key <= key.generation
    /\ \A w \in Workers : Client(worker[w]) /\ Grant(w).identity.key = key.generation =>
           KeyOfGeneration(w)

\* A client keeps its key; a new one has that of the vault.
KeepsKeys ==
    \A w \in Workers : Client(worker'[w]) =>
        /\ worker'[w].job = worker[w].job /\ worker[w].pc # "idle"
        /\ \/ Client(worker[w]) /\ worker'[w].secret = worker[w].secret
           \/ worker'[w].secret = Secret /\ Secret # None /\ key' = key

LEMMA KeepsKeysAfter ==
    ASSUME TypeInv, NEW w \in Workers, NEW state, Goes(w, state),
           Client(state) =>
               /\ state.job = worker[w].job /\ worker[w].pc # "idle"
               /\ \/ Client(worker[w]) /\ state.secret = worker[w].secret
                  \/ state.secret = Secret /\ Secret # None /\ key' = key
    PROVE  KeepsKeys
<1>1. worker \in [Workers -> WorkerStates]
  BY DEF TypeInv, TypeOK
<1>2. ASSUME NEW v \in Workers PROVE worker'[v] = IF v = w THEN state ELSE worker[v]
  BY <1>1 DEF Goes
<1>3. ASSUME NEW v \in Workers, Client(worker[v]) PROVE worker[v].pc # "idle"
  BY <1>3 DEF Client
<1> QED BY <1>2, <1>3 DEF KeepsKeys

\* The moves of a worker: those without a client, those with the one it has, and a new one.
LEMMA Keying ==
    ASSUME TypeInv, NEW w \in Workers, worker[w].pc # "idle"
    PROVE  /\ \A outcome : Aborts(w, outcome) => KeepsKeys
           /\ StageDone(w) => KeepsKeys
           /\ \A pc \in Pcs : Goes(w, To(w, pc)) /\ (Client(To(w, pc)) => Client(worker[w]))
                  => KeepsKeys
           /\ \A next : Goes(w, [To(w, "checkpoint") EXCEPT !.next = next]) => KeepsKeys
           /\ Goes(w, [To(w, "checkpoint") EXCEPT !.next = "prepare", !.base = base, !.stage = 1])
                  => KeepsKeys
           /\ Connects(w) /\ key' = key => KeepsKeys
           /\ Client(worker[w]) /\ AgainCompact(w) => KeepsKeys
           /\ Goes(w, Idle) => KeepsKeys
<1>to. ASSUME NEW pc \in Pcs
       PROVE  /\ To(w, pc) \in WorkerStates /\ To(w, pc).pc = pc
              /\ To(w, pc).job = worker[w].job /\ To(w, pc).secret = worker[w].secret
  BY DEF To, WorkerStates, TypeInv, TypeOK
<1>pcs. "checkpoint" \in Pcs /\ "aborting" \in Pcs /\ "call" \in Pcs
  BY DEF Pcs
<1>without. ASSUME NEW state, Goes(w, state), state.pc \in {"checkpoint", "aborting", "idle"}
            PROVE  KeepsKeys
  BY <1>without, KeepsKeysAfter DEF Client
<1>1. ASSUME NEW outcome, Aborts(w, outcome) PROVE KeepsKeys
  <2>1. [To(w, "aborting") EXCEPT !.outcome = outcome].pc = "aborting"
    BY <1>to, <1>pcs DEF WorkerStates
  <2> QED BY <1>1, <1>without, <2>1 DEF Aborts
<1>2. ASSUME NEW next, Goes(w, [To(w, "checkpoint") EXCEPT !.next = next]) PROVE KeepsKeys
  <2>1. [To(w, "checkpoint") EXCEPT !.next = next].pc = "checkpoint"
    BY <1>to, <1>pcs DEF WorkerStates
  <2> QED BY <1>2, <1>without, <2>1
<1>3. ASSUME NEW next, NEW stage,
             Goes(w, [To(w, "checkpoint") EXCEPT !.next = next, !.stage = stage])
      PROVE  KeepsKeys
  <2>1. [To(w, "checkpoint") EXCEPT !.next = next, !.stage = stage].pc = "checkpoint"
    BY <1>to, <1>pcs DEF WorkerStates
  <2> QED BY <1>3, <1>without, <2>1
<1>4. ASSUME StageDone(w) PROVE KeepsKeys
  BY <1>2, <1>3, <1>4 DEF StageDone
<1>5. ASSUME Goes(w, [To(w, "checkpoint") EXCEPT !.next = "prepare", !.base = base, !.stage = 1])
      PROVE  KeepsKeys
  <2>1. [To(w, "checkpoint") EXCEPT !.next = "prepare", !.base = base, !.stage = 1].pc = "checkpoint"
    BY <1>to, <1>pcs DEF WorkerStates
  <2> QED BY <1>5, <1>without, <2>1
<1>6. ASSUME Connects(w), key' = key PROVE KeepsKeys
  <2> DEFINE state == [To(w, "call") EXCEPT !.secret = Secret, !.compact = FALSE]
  <2>1. state.job = worker[w].job /\ state.secret = Secret
    BY <1>to, <1>pcs DEF WorkerStates
  <2>2. (Goes(w, state) /\ Secret # None) \/ StageFails(w)
    BY <1>6 DEF Connects, Configured
  <2> HIDE DEF state
  <2> QED BY <1>1, <1>6, <2>1, <2>2, KeepsKeysAfter DEF StageFails
<1>7. ASSUME Client(worker[w]), AgainCompact(w) PROVE KeepsKeys
  <2> DEFINE state == [To(w, "call") EXCEPT !.compact = TRUE]
  <2>1. state.job = worker[w].job /\ state.secret = worker[w].secret
    BY <1>to, <1>pcs DEF WorkerStates
  <2>2. Goes(w, state)
    BY <1>7 DEF AgainCompact
  <2> HIDE DEF state
  <2> QED BY <1>7, <2>1, <2>2, KeepsKeysAfter
<1>8. ASSUME NEW pc \in Pcs, Goes(w, To(w, pc)), Client(To(w, pc)) => Client(worker[w])
      PROVE  KeepsKeys
  BY <1>8, <1>to, KeepsKeysAfter
<1>9. ASSUME Goes(w, Idle) PROVE KeepsKeys
  BY <1>9, <1>without DEF Idle
<1> QED BY <1>1, <1>2, <1>4, <1>5, <1>6, <1>7, <1>8, <1>9

LEMMA WorkerKeys == ASSUME TypeInv, NEW w \in Workers, Runs(w) PROVE KeepsKeys
<1>1. worker[w].pc # "idle"
  BY DEF Runs, Begin, Checkpoint, LoadBase, Prepare, Heartbeat, Reserve, Send, Receive, Raise,
         Validate, Publish, Complete, FailGrant, FinishJob
<1>to. ASSUME NEW pc \in Pcs PROVE To(w, pc).pc = pc
  BY StateTo
<1>pcs. Pcs = {"idle", "claimed", "checkpoint", "load", "prepare", "call", "reserve", "send",
        "wait", "valid", "invalid", "empty", "publish", "complete", "aborting", "finish"}
  BY DEF Pcs
<1>2. CASE Begin(w) \/ LoadBase(w)
  BY <1>1, <1>2, Keying DEF Begin, LoadBase
<1>3. CASE Checkpoint(w)
  <2>1. CASE Goes(w, To(w, worker[w].next))
    <3>1. worker[w].next \in {"load", "prepare", "publish"}
      BY <1>3 DEF Checkpoint, TypeInv, TypeOK, Memory, WorkerStates
    <3>2. ~Client(To(w, worker[w].next))
      BY <1>to, <1>pcs, <3>1 DEF Client
    <3> QED BY <1>1, <1>pcs, <2>1, <3>1, <3>2, Keying
  <2> QED BY <1>1, <1>3, <2>1, Keying DEF Checkpoint
<1>4. CASE Prepare(w)
  <2>1. key' = key
    BY <1>4 DEF Prepare, survey
  <2> QED BY <1>1, <1>4, <2>1, Keying DEF Prepare
<1>5. CASE Heartbeat(w) \/ Reserve(w) \/ Send(w)
  BY <1>1, <1>5, <1>pcs, Keying DEF Heartbeat, Reserve, Send, StageFails, Client
<1>6. ASSUME NEW quality \in Qualities, Receive(w, quality) PROVE KeepsKeys
  BY <1>1, <1>6, <1>pcs, Keying DEF Receive, Qualities, Client
<1>7. ASSUME NEW limited \in BOOLEAN, Raise(w, limited) PROVE KeepsKeys
  BY <1>1, <1>7, Keying DEF Raise, StageFails, Client
<1>8. CASE Validate(w)
  BY <1>1, <1>8, Keying DEF Validate, StageFails, Client
<1>9. CASE Publish(w) \/ FailGrant(w)
  <2>1. ~Client(To(w, "complete")) /\ ~Client(To(w, "finish"))
    BY <1>to, <1>pcs DEF Client
  <2> QED BY <1>1, <1>9, <1>pcs, <2>1, Keying DEF Publish, FailGrant
<1>10. CASE Complete(w) \/ FinishJob(w)
  BY <1>1, <1>10, Keying DEF Complete, FinishJob
<1> QED BY <1>2, <1>3, <1>4, <1>5, <1>6, <1>7, <1>8, <1>9, <1>10 DEF Runs

LEMMA SameKeys == ASSUME UNCHANGED worker PROVE KeepsKeys
BY DEF KeepsKeys, Client

LEMMA StepKeys == ASSUME TypeInv, [Next]_vars PROVE KeepsKeys
<1>1. CASE UNCHANGED vars \/ Owner \/ Survey
  BY <1>1, SameKeys DEF vars, Owner, Preview, Confirm, CancelJob, WriteKey, WriteGeneration,
                        RevokeOwner, Survey, ChangeAnswers, Analyse, Improve
<1>2. ASSUME NEW w \in Workers, Polls(w) PROVE KeepsKeys
  <2>1. CASE Claim(w)
    <3>1. PICK j \in Eligible : Goes(w, [Idle EXCEPT !.pc = "claimed", !.job = j,
                                                    !.attempt = job[j].attempts + 1])
      BY <2>1 DEF Claim
    <3>2. [Idle EXCEPT !.pc = "claimed", !.job = j, !.attempt = job[j].attempts + 1].pc = "claimed"
      BY DEF Idle
    <3> QED BY <3>1, <3>2, KeepsKeysAfter DEF Client
  <2>2. CASE Sweep(w)
    BY <2>2, SameKeys DEF Sweep
  <2> QED BY <1>2, <2>1, <2>2 DEF Polls
<1>3. ASSUME NEW w \in Workers, Kill(w) PROVE KeepsKeys
  BY <1>3, Keying DEF Kill
<1>4. ASSUME NEW j \in Jobs, ExpireAbandoned(j) \/ ExpireHeld(j) \/ ExpireGrant(j)
      PROVE  KeepsKeys
  BY <1>4, SameKeys DEF ExpireAbandoned, ExpireHeld, ExpireGrant
<1> QED BY <1>1, <1>2, <1>3, <1>4, WorkerKeys DEF Next

\* The vault changes by the two writes, and only then.
LEMMA StepVault ==
    ASSUME TypeInv, [Next]_vars
    PROVE  \/ key' = key
           \/ UNCHANGED <<token, grant>> /\ \E secret \in ApiKeys \union {None} : WriteKey(secret)
           \/ UNCHANGED <<token, grant>> /\ WriteGeneration
<1>1. CASE UNCHANGED vars
  BY <1>1 DEF vars
<1>2. CASE Owner
  BY <1>2 DEF Owner, Preview, Confirm, CancelJob, WriteKey, WriteGeneration, RevokeOwner, survey, queue
<1>3. CASE Survey
  BY <1>3 DEF Survey, ChangeAnswers, Analyse, Improve
<1>4. ASSUME NEW w \in Workers, Polls(w) \/ Runs(w) \/ Kill(w) PROVE key' = key
  BY <1>4 DEF Polls, Claim, Sweep, Runs, Begin, Checkpoint, LoadBase, Prepare, Heartbeat, Reserve,
              Send, Receive, Raise, Validate, Publish, Complete, FailGrant, FinishJob, Kill, survey
<1>5. ASSUME NEW j \in Jobs, ExpireAbandoned(j) \/ ExpireHeld(j) \/ ExpireGrant(j) PROVE key' = key
  BY <1>5 DEF ExpireAbandoned, ExpireHeld, ExpireGrant, survey
<1> QED BY <1>1, <1>2, <1>3, <1>4, <1>5 DEF Next

LEMMA KeysStep == TypeInv /\ KeysInv /\ [Next]_vars => KeysInv'
<1> SUFFICES ASSUME TypeInv, KeysInv, [Next]_vars PROVE KeysInv'
  OBVIOUS
<1>types. /\ TypeInv' /\ key.generation \in Nat /\ key'.generation \in Nat
          /\ \A t \in Tokens : token[t] # None => token[t].key \in Nat
          /\ \A j \in Jobs : grant[j] # NoGrant => grant[j].identity.key \in Nat
  <2>1. token \in [Tokens -> Identities \union {None}] /\ \A j \in Jobs : Signed(grant[j])
    BY DEF TypeInv, TypeOK
  <2>2. TypeInv'
    BY TypeStep
  <2>3. key.generation \in Nat /\ key'.generation \in Nat
    BY <2>2 DEF TypeInv, TypeOK
  <2> QED BY <2>1, <2>2, <2>3 DEF Identities, Signed
<1>grow. key.generation <= key'.generation
  BY <1>types, StepVault, KeyTypes DEF TypeInv
<1>1. ASSUME NEW t \in Tokens, token'[t] # None PROVE token'[t].key <= key'.generation
  <2>1. CASE token'[t] = token[t]
    BY <1>types, <1>grow, <1>1, <2>1 DEF KeysInv
  <2>2. CASE token'[t] = CurrentIdentity /\ CurrentIdentity # None
    <3>1. CurrentIdentity.key = key.generation
      BY <2>2 DEF CurrentIdentity
    <3> QED BY <1>grow, <2>2, <3>1
  <2>3. token \in [Tokens -> Identities \union {None}]
    BY DEF TypeInv, TypeOK
  <2> QED BY <2>1, <2>2, <2>3, StepVersions
<1>2. ASSUME NEW j \in Jobs, grant'[j] # NoGrant PROVE grant'[j].identity.key <= key'.generation
  <2>1. CASE grant[j] # NoGrant /\ grant'[j].identity = grant[j].identity
    BY <1>types, <1>grow, <2>1 DEF KeysInv
  <2>2. ASSUME NEW t \in Tokens, token[t] # None, grant'[j].identity = token[t]
        PROVE  grant'[j].identity.key <= key'.generation
    BY <1>types, <1>grow, <2>2 DEF KeysInv
  <2> QED BY <1>types, <1>2, <2>1, <2>2, GrantIdentities
<1>3. ASSUME NEW w \in Workers, Client(worker'[w]), Grant(w)'.identity.key = key'.generation
      PROVE  KeyOfGeneration(w)'
  <2>1. /\ worker'[w].job = worker[w].job /\ worker[w].pc # "idle"
        /\ \/ Client(worker[w]) /\ worker'[w].secret = worker[w].secret
           \/ worker'[w].secret = Secret /\ Secret # None /\ key' = key
    BY <1>3, StepKeys DEF KeepsKeys
  <2>2. worker[w].job \in Jobs /\ grant[worker[w].job] # NoGrant
    BY <2>1, GrantOfWorker DEF Grant
  <2>3. grant'[worker[w].job].identity = grant[worker[w].job].identity
    BY <1>types, <2>2, GrantIdentities
  <2>4. Grant(w).identity.key = key'.generation
    BY <1>3, <2>1, <2>3 DEF Grant
  <2>5. Grant(w).identity.key <= key.generation
    BY <2>2 DEF KeysInv, Grant
  <2>6. key'.generation = key.generation /\ ~WriteGeneration
    BY <1>types, <1>grow, <2>4, <2>5, KeyTypes DEF TypeInv
  <2>7. Range(key.secrets) \subseteq Range(key'.secrets)
    BY <2>6, StepVault, KeyTypes DEF TypeInv
  <2>8. CASE Client(worker[w]) /\ worker'[w].secret = worker[w].secret
    <3>1. KeyOfGeneration(w)
      BY <2>4, <2>6, <2>8 DEF KeysInv
    <3> QED BY <2>7, <2>8, <3>1 DEF KeyOfGeneration
  <2>9. CASE worker'[w].secret = Secret /\ Secret # None /\ key' = key
    BY <2>7, <2>9, KeyTypes DEF KeyOfGeneration, TypeInv
  <2> QED BY <2>1, <2>8, <2>9
<1> QED BY <1>1, <1>2, <1>3 DEF KeysInv

LEMMA KeysHold == Spec => []KeysInv
<1>1. Init => KeysInv
  <2> SUFFICES ASSUME Init PROVE KeysInv
    OBVIOUS
  <2>1. \A t \in Tokens : token[t] = None
    BY DEF Init
  <2>2. \A j \in Jobs : grant[j] = NoGrant
    BY DEF Init
  <2>3. \A w \in Workers : ~Client(worker[w])
    BY DEF Init, Idle, Client
  <2> QED BY <2>1, <2>2, <2>3 DEF KeysInv
<1> QED BY <1>1, KeysStep, TypesHold, PTL DEF Spec
-----------------------------------------------------------------------------
(* The theorems *)

\* Every call the provider receives was counted within the budget and marked before it was sent
\* (AuthorizedClient.generate_content), however often its worker is killed.
THEOREM CallsAreCountedFirst == Spec => []CallsAreReserved
<1>1. TypeInv /\ CallsInv => CallsAreReserved
  <2> SUFFICES ASSUME TypeInv, CallsInv PROVE CallsAreReserved
    OBVIOUS
  <2>1. \A j \in Jobs : grant[j].calls <= MaxCalls
    BY BoundAssumption DEF TypeInv, TypeOK, Grants
  <2> QED BY <2>1 DEF CallsInv, Counted, CallsAreReserved, Calling
<1> QED BY <1>1, TypesHold, CallsHold, PTL

\* A confirmation pays for one job, and at most one consent of the survey is in force (confirm).
THEOREM ConsentPaysOnce == Spec => []ConsentIsSpentOnce
<1>1. CallsInv => ConsentIsSpentOnce
  BY DEF CallsInv
<1> QED BY <1>1, CallsHold, PTL

\* No two workers wait for the provider at once: each waits under a mark on the grant of its job,
\* and there is one mark.
THEOREM CallsExclude == Spec => []OneCallAtATime
<1>1. TypeInv /\ CallsInv => OneCallAtATime
  <2> SUFFICES ASSUME TypeInv, CallsInv, NEW v \in Workers, NEW w \in Workers, v # w,
                      worker[v].pc = "wait", worker[w].pc = "wait"
               PROVE  FALSE
    BY DEF OneCallAtATime
  <2>1. Calling(worker[v]) /\ Calling(worker[w])
    BY DEF Calling
  <2>2. worker[v].job \in Jobs /\ worker[w].job \in Jobs
    BY CallTypes
  <2>3. /\ grant[worker[v].job].inFlight /\ grant[worker[w].job].inFlight
        /\ worker[v].job # worker[w].job
    BY <2>1 DEF CallsInv, Counted, Grant
  <2> QED BY <2>2, <2>3 DEF CallsInv, OneInFlight
<1> QED BY <1>1, TypesHold, CallsHold, PTL

\* After a call whose result is unknown nothing is sent: its mark stays without a worker, and
\* another mark, which a worker needs to send, there cannot be.
THEOREM UncertaintyStopsCalls == Spec => NoCallAfterUncertainty
<1>1. TypeInv /\ CallsInv /\ [Next]_vars => [lost => sent' = sent]_vars
  <2> SUFFICES ASSUME TypeInv, CallsInv, [Next]_vars, lost PROVE sent' = sent
    OBVIOUS
  <2>1. PICK j \in Jobs :
           grant[j].inFlight /\ \A w \in Workers : Calling(worker[w]) => worker[w].job # j
    BY DEF CallsInv, LostCall
  <2>2. ASSUME NEW w \in Workers, Calls(w) PROVE sent' = sent
    <3>1. SUFFICES ASSUME Send(w) PROVE FALSE
      BY <2>2 DEF Calls, Reserve, Receive, provider
    <3>2. Calling(worker[w]) /\ worker[w].job \in Jobs
      BY <3>1, GrantOfWorker DEF Send, Calling
    <3>3. grant[worker[w].job].inFlight /\ worker[w].job # j
      BY <2>1, <3>2 DEF CallsInv, Counted, Grant
    <3> QED BY <2>1, <3>2, <3>3 DEF CallsInv, OneInFlight
  <2> QED BY <2>2, StepKinds DEF Quiet, Confirm, provider
<1> QED BY <1>1, TypesHold, CallsHold, PTL DEF Spec, NoCallAfterUncertainty

\* A call sends the snapshot that was confirmed: the worker's base lies between the version the
\* consent was signed for and the published one, and the reservation finds the two equal. It is
\* sent with a key that was stored under the confirmed generation, though the client has read it
\* before the reservation: under that generation keys are only added.
THEOREM CallsSendWhatWasConfirmed == Spec => PaidForWhatWasConfirmed
<1> DEFINE Paid == \A w \in Workers : worker[w].pc = "reserve" /\ worker'[w].pc = "send" =>
              /\ Grant(w).identity = [base |-> worker[w].base, key |-> key.generation]
              /\ worker[w].base = input
              /\ owner
              /\ KeyOfGeneration(w)
<1>1. TypeInv /\ VersionsInv /\ KeysInv /\ [Next]_vars => [Paid]_vars
  <2> SUFFICES ASSUME TypeInv, VersionsInv, KeysInv, [Next]_vars, NEW w \in Workers,
                      worker[w].pc = "reserve", worker'[w].pc = "send"
               PROVE  /\ Grant(w).identity = [base |-> worker[w].base, key |-> key.generation]
                      /\ worker[w].base = input
                      /\ owner
                      /\ KeyOfGeneration(w)
    OBVIOUS
  <2>1. ~Quiet
    BY DEF Quiet, Rests, Calling
  <2>2. \A t \in Tokens : ~Confirm(t)
    BY DEF Confirm
  <2>3. PICK v \in Workers : Calls(v)
    BY <2>1, <2>2, StepKinds
  <2>4. v = w
    <3>1. \E pc \in Pcs : Goes(v, To(v, pc))
      BY <2>3 DEF Calls, Reserve, Send, Receive, Qualities, Pcs
    <3> QED BY <3>1, CallingTo
  <2>5. Reservable(Grant(w))
    BY <2>3, <2>4 DEF Calls, Send, Receive
  <2>6. /\ owner /\ base = input
        /\ Grant(w).identity = [base |-> base, key |-> key.generation]
    BY <2>5 DEF Reservable, GrantInvalid, CurrentIdentity
  <2>7. Grant(w).identity.base <= worker[w].base /\ worker[w].base <= base
    BY DEF VersionsInv, Loaded
  <2>8. base \in Nat /\ worker[w].base \in Nat /\ Grant(w).identity.base = base
    BY <2>6, BoundAssumption DEF TypeInv, TypeOK, Inputs, WorkerStates
  <2>9. worker[w].base = base
    BY <2>7, <2>8
  <2>10. KeyOfGeneration(w)
    <3>1. Client(worker[w]) /\ Grant(w).identity.key = key.generation
      BY <2>6 DEF Client
    <3> QED BY <3>1 DEF KeysInv
  <2> QED BY <2>6, <2>9, <2>10
<1> QED BY <1>1, TypesHold, VersionsHold, KeysHold, PTL DEF Spec, PaidForWhatWasConfirmed

-----------------------------------------------------------------------------
(* The catalogue of evidence *)

\* The replies of a data set, and a threshold that is no higher than the number of pairs a
\* correlation needs, which analyze_frame fixes on its own.
IsDataSet(columns, texts) ==
    /\ IsFiniteSet(Replies)
    /\ \A i \in DOMAIN columns : IsColumn(columns[i])
    /\ IsText(texts)
    /\ MinResponses \in Nat \ {0} /\ MinResponses <= MinPairs

LEMMA RepliesAreFinite ==
    ASSUME IsFiniteSet(Replies), NEW S \in SUBSET Replies
    PROVE  IsFiniteSet(S) /\ Cardinality(S) \in Nat
  BY FS_Subset, FS_CardinalityType

\* A set that contains one with enough members has enough.
LEMMA MoreIsEnough ==
    ASSUME NEW S, IsFiniteSet(S), NEW T \in SUBSET S, Enough(T), MinResponses \in Nat
    PROVE  Enough(S)
  <1>1. Cardinality(T) <= Cardinality(S) /\ IsFiniteSet(T)
    BY FS_Subset
  <1>2. Cardinality(T) \in Nat /\ Cardinality(S) \in Nat
    BY <1>1, FS_CardinalityType
  <1> QED
    BY <1>1, <1>2 DEF Enough

LEMMA SayingIsOfReplies ==
    ASSUME NEW q, NEW v
    PROVE  Saying(q, v) \subseteq Replies /\ Answered(q) \subseteq Replies
  BY DEF Saying, Answered

LEMMA DistributionRowIsOf ==
    ASSUME NEW i, NEW q, NEW shown, NEW row \in DistributionRows(i, q, shown)
    PROVE  \E v \in Visible(q, shown) : \E m \in {"total"} \union Rates(q) :
              row = Row(<<"distribution", i, Clean[v], m>>, "categorical_distribution", Saying(q, v),
                        AnsweredN(q, shown))
  BY DEF DistributionRows

\* Descriptive rows and distributions: behind each are enough replies, all in its sample.
LEMMA ChartRowsAreSound ==
    ASSUME NEW i, NEW q, IsColumn(q), NEW shown \in Bounded(q), MinResponses \in Nat,
           IsFiniteSet(Replies), NEW row \in DescriptiveRows(i, q) \union DistributionRows(i, q, shown)
    PROVE  Enough(row.behind) /\ row.behind \subseteq row.sample /\ row.sample \subseteq Replies
  <1>1. CASE row \in DescriptiveRows(i, q)
    BY <1>1, SayingIsOfReplies DEF DescriptiveRows, Row
  <1>2. CASE row \in DistributionRows(i, q, shown)
    <2>1. PICK v \in Visible(q, shown), m \in {"total"} \union Rates(q) :
             row = Row(<<"distribution", i, Clean[v], m>>, "categorical_distribution", Saying(q, v),
                       AnsweredN(q, shown))
      BY <1>2, DistributionRowIsOf
    <2>2. Enough(Saying(q, v)) /\ v \in shown
      BY <2>1 DEF Visible
    <2>3. Saying(q, v) \subseteq AnsweredN(q, shown)
      BY <2>2 DEF AnsweredN, Saying, Answered
    <2>4. AnsweredN(q, shown) \subseteq Replies
      BY DEF AnsweredN, Saying, Answered
    <2> QED
      BY <2>1, <2>2, <2>3, <2>4 DEF Row
  <1> QED
    BY <1>1, <1>2

\* A test that is carried out and safe stands on enough replies: on those of any of its groups,
\* or on its pairs.
LEMMA SafeTestsAreSound ==
    ASSUME NEW p, NEW q, NEW first, MinResponses \in Nat, MinResponses <= MinPairs,
           IsFiniteSet(Replies), NEW t \in TestsOf(p, q, first), Safe(t)
    PROVE  Enough(t.behind) /\ t.behind \subseteq Replies
  <1>1. ASSUME NEW family, NEW options, options # {}, t = Comparison(family, p, q, options)
        PROVE  Enough(t.behind) /\ t.behind \subseteq Replies
    <2>1. t.behind = UNION {Among(p, q, v) : v \in options}
      BY <1>1 DEF Comparison, Test
    <2>2. t.groups = [v \in options |-> Among(p, q, v)]
      BY <1>1 DEF Comparison, Test
    <2>3. PICK v \in options : TRUE
      BY <1>1
    <2>4. Enough(Among(p, q, v)) /\ Among(p, q, v) \subseteq t.behind
      BY <2>1, <2>2, <2>3 DEF Safe
    <2>5. t.behind \subseteq Replies
      BY <2>1 DEF Among, Saying, Answered
    <2>6. IsFiniteSet(t.behind)
      BY <2>5, RepliesAreFinite
    <2> QED
      BY <2>4, <2>5, <2>6, MoreIsEnough
  <1>2. ASSUME NEW options, Cardinality(options) \in 2 .. MaxGroups
        PROVE  options # {}
    BY <1>2, FS_EmptySet DEF MaxGroups
  <1>3. CASE t \in MeanComparison(p, q)
    <2>1. t = Comparison("mean_comparison", p, q, ValidGroups(p, q)) /\ ValidGroups(p, q) # {}
      BY <1>3, <1>2 DEF MeanComparison, When
    <2> QED
      BY <2>1, <1>1
  <1>4. CASE t \in RankComparison(p, q)
    <2>1. t = Comparison("nonparametric_rank", p, q, ValidGroups(p, q)) /\ ValidGroups(p, q) # {}
      BY <1>4, <1>2 DEF RankComparison, When
    <2> QED
      BY <2>1, <1>1
  <1>5. CASE t \in ChiSquare(p, q)
    <2>1. t = Comparison("categorical_association", p, q, Rows(p, q))
      BY <1>5 DEF ChiSquare, When
    <2>2. Rows(p, q) # {}
      <3> SUFFICES ASSUME Rows(p, q) = {} PROVE FALSE
        OBVIOUS
      <3>1. Cardinality(Rows(p, q)) = 0
        BY FS_EmptySet
      <3>2. Cardinality(Rows(p, q)) >= 2
        BY <1>5 DEF ChiSquare, When
      <3> QED
        BY <3>1, <3>2
    <2> QED
      BY <2>1, <2>2, <1>1
  <1>6. CASE t \in Correlation(p, q)
    <2>1. t.behind = Both(p, q) /\ Cardinality(Both(p, q)) >= MinPairs
      BY <1>6 DEF Correlation, When, Test
    <2>2. Both(p, q) \subseteq Replies
      BY DEF Both, Answered
    <2>3. Cardinality(Both(p, q)) \in Nat
      BY <2>2, RepliesAreFinite
    <2> QED
      BY <2>1, <2>2, <2>3 DEF Enough, MinPairs
  <1> QED
    BY <1>3, <1>4, <1>5, <1>6 DEF TestsOf

\* Every statistical row of the catalogue counts at least MinResponses replies, and none outside
\* its sample: a share is never above one, and what a finding may cite is not about one or two
\* replies. (The statistics that a stage is sent beside the catalogue are another matter.)
THEOREM StatisticsRowsAreSound ==
    ASSUME NEW columns, NEW texts, IsDataSet(columns, texts),
           NEW shown, \A i \in DOMAIN columns : shown[i] \in Bounded(columns[i]),
           NEW row \in StatisticalRows(columns, shown)
    PROVE  Enough(row.behind) /\ row.behind \subseteq row.sample /\ row.sample \subseteq Replies
  <1> USE DEF IsDataSet
  <1>1. CASE \E i \in DOMAIN columns :
                row \in DescriptiveRows(i, columns[i]) \union DistributionRows(i, columns[i], shown[i])
    <2>1. PICK i \in DOMAIN columns :
             row \in DescriptiveRows(i, columns[i]) \union DistributionRows(i, columns[i], shown[i])
      BY <1>1
    <2>2. IsColumn(columns[i]) /\ shown[i] \in Bounded(columns[i]) /\ MinResponses \in Nat
      OBVIOUS
    <2> QED
      BY <2>1, <2>2, ChartRowsAreSound
  <1>2. CASE \E p \in {r \in (DOMAIN columns) \X (DOMAIN columns) : r[1] # r[2]} :
                row \in TestRows(p[1], p[2], TestsOf(columns[p[1]], columns[p[2]], p[1] < p[2]))
    <2>1. PICK i, j : row \in TestRows(i, j, TestsOf(columns[i], columns[j], i < j))
      BY <1>2
    <2>2. PICK t \in TestsOf(columns[i], columns[j], i < j) :
             /\ Safe(t)
             /\ \E m \in TestMetrics(t) :
                    row = Row(<<"test", t.family, <<i, j>>, m>>, "statistical_test", t.behind, t.behind)
      BY <2>1 DEF TestRows
    <2>3. Enough(t.behind) /\ t.behind \subseteq Replies
      BY <2>2, SafeTestsAreSound
    <2> QED
      BY <2>2, <2>3 DEF Row
  <1>3. CASE row \in ChartRows(columns, shown)
    BY <1>1, <1>3 DEF ChartRows
  <1>4. CASE row \in PairRows(columns)
    BY <1>2, <1>4 DEF PairRows
  <1> QED
    BY <1>3, <1>4 DEF StatisticalRows

\* The same of its rows about the text: a word is shown when it occurs often enough, a mood when
\* enough answers have it and no other mood of its category is rare. (Often enough is not by enough
\* people.)
THEOREM TextRowsAreSound ==
    ASSUME NEW columns, NEW texts, IsDataSet(columns, texts), NEW words, NEW categories,
           NEW row \in TextRows(texts, words, categories)
    PROVE  /\ Enough(row.behind) /\ row.behind \subseteq row.sample
           /\ row.kind = "category_sentiment" => Enough(row.sample) /\ row.sample \subseteq DOMAIN texts
  <1>1. CASE row \in KeywordRows(texts, words)
    BY <1>1 DEF KeywordRows, Row
  <1>2. CASE row \in SentimentRows(texts, categories)
    <2>0. PICK c \in {d \in categories : Shown(texts, d)} :
             row \in {Row(<<"sentiment", Clean[c], l>>, "category_sentiment", CellOf(texts, c, l),
                          KnownOf(texts, c)) : l \in {k \in Known : CellOf(texts, c, k) # {}}}
      BY <1>2 DEF SentimentRows
    <2>1. PICK label \in Known :
             /\ Shown(texts, c) /\ CellOf(texts, c, label) # {}
             /\ row = Row(<<"sentiment", Clean[c], label>>, "category_sentiment",
                          CellOf(texts, c, label), KnownOf(texts, c))
      BY <2>0
    <2>2. Enough(CellOf(texts, c, label)) /\ Enough(KnownOf(texts, c))
      BY <2>1 DEF Shown
    <2>3. CellOf(texts, c, label) \subseteq KnownOf(texts, c)
      BY DEF KnownOf
    <2>4. KnownOf(texts, c) \subseteq DOMAIN texts
      BY DEF KnownOf, CellOf, Cell
    <2> QED
      BY <2>1, <2>2, <2>3, <2>4 DEF Row
  <1> QED
    BY <1>1, <1>2 DEF TextRows

\* Small groups that are merged are several: the merged label never shows a small group alone.
THEOREM MergedAreSeveral ==
    ASSUME IsFiniteSet(Replies), MinResponses \in Nat \ {0}, NEW q, NEW shown, ShowsMerged(q, shown)
    PROVE  \E v, u \in Hidden(q, shown) : v # u
  <1> SUFFICES ASSUME \A v, u \in Hidden(q, shown) : v = u PROVE FALSE
    OBVIOUS
  <1>1. CASE Hidden(q, shown) = {}
    <2>1. HiddenChecks(q, shown) = {}
      BY <1>1 DEF HiddenChecks, Checks
    <2>2. Cardinality(HiddenChecks(q, shown)) = 0
      BY <2>1, FS_EmptySet
    <2> QED
      BY <2>2 DEF ShowsMerged, Enough
  <1>2. CASE Hidden(q, shown) # {}
    <2>1. PICK v : Hidden(q, shown) = {v}
      BY <1>2
    <2>2. ~Enough(Saying(q, v))
      BY <2>1 DEF Hidden, Visible
    <2> DEFINE pair == [r \in Saying(q, v) |-> <<r, v>>]
    <2>3. HiddenChecks(q, shown) = {<<r, v>> : r \in Saying(q, v)}
      BY <2>1 DEF HiddenChecks, Checks, Saying
    <2>4. IsFiniteSet(Saying(q, v)) /\ Cardinality(Saying(q, v)) \in Nat
      BY SayingIsOfReplies, RepliesAreFinite
    <2>5. pair \in Surjection(Saying(q, v), HiddenChecks(q, shown))
      BY <2>3 DEF Surjection
    <2>6. /\ IsFiniteSet(HiddenChecks(q, shown))
          /\ Cardinality(HiddenChecks(q, shown)) <= Cardinality(Saying(q, v))
      BY <2>4, <2>5, FS_Surjection
    <2>7. Cardinality(HiddenChecks(q, shown)) \in Nat
      BY <2>6, FS_CardinalityType
    <2> QED
      BY <2>2, <2>4, <2>6, <2>7 DEF ShowsMerged, Enough
  <1> QED
    BY <1>1, <1>2

\* Rows with one id are one row, when no two options clean to the same text: the registry, keyed
\* by id, then loses none, and a citation names one row.
THEOREM DistributionIdsAreUnique ==
    ASSUME NEW columns, NEW shown, \A v, u \in Values : Clean[v] = Clean[u] => v = u,
           \A i \in DOMAIN columns : shown[i] \subseteq Values,
           NEW i \in DOMAIN columns, NEW j \in DOMAIN columns,
           NEW row \in DistributionRows(i, columns[i], shown[i]),
           NEW other \in DistributionRows(j, columns[j], shown[j]), row.id = other.id
    PROVE  row = other
  <1>1. PICK v \in Visible(columns[i], shown[i]), m \in {"total"} \union Rates(columns[i]) :
           row = Row(<<"distribution", i, Clean[v], m>>, "categorical_distribution",
                     Saying(columns[i], v), AnsweredN(columns[i], shown[i]))
    BY DistributionRowIsOf, SMTT(60)
  <1>2. PICK u \in Visible(columns[j], shown[j]), k \in {"total"} \union Rates(columns[j]) :
           other = Row(<<"distribution", j, Clean[u], k>>, "categorical_distribution",
                       Saying(columns[j], u), AnsweredN(columns[j], shown[j]))
    BY DistributionRowIsOf, SMTT(60)
  <1>3. <<"distribution", i, Clean[v], m>> = <<"distribution", j, Clean[u], k>>
    BY <1>1, <1>2 DEF Row
  <1>4. i = j /\ m = k /\ Clean[v] = Clean[u]
    BY <1>3
  <1>5. v \in Values /\ u \in Values
    BY DEF Visible
  <1> QED
    BY <1>1, <1>2, <1>4, <1>5

-----------------------------------------------------------------------------
(* The answers *)

Answer(summary, caveats, findings, drafts) ==
    [summary |-> summary, caveats |-> caveats, combined_findings |-> findings, improvement_drafts |-> drafts]

\* Malformed stands for what is no list and no dictionary.
MalformedIsNoList ==
    /\ \A S : \A f : f = [n \in S |-> f[n]] => f # Malformed
    /\ Malformed \notin Finding
    /\ \A summary, caveats, findings, drafts : Answer(summary, caveats, findings, drafts) # Malformed

\* An alias of the catalogue stands for the id at its place.
LEMMA AliasStandsForOne ==
    ASSUME NEW ids, NEW evidence, IsCatalog(ids, evidence), IsAliases, NEW i \in DOMAIN ids
    PROVE  Alias[i] \in AliasesOf(ids) /\ CanonicalOf(ids, Alias[i]) = ids[i]
  <1>1. DOMAIN ids = 1 .. Len(ids) /\ DOMAIN Alias = 1 .. Len(Alias) /\ Len(ids) \in Nat /\ Len(Alias) \in Nat
    BY DEF IsCatalog, IsAliases
  <1>2. \A j, k \in DOMAIN ids : Alias[j] = Alias[k] => j = k
    BY <1>1 DEF IsCatalog, IsAliases
  <1>3. (CHOOSE j \in DOMAIN ids : Alias[j] = Alias[i]) = i
    BY <1>2
  <1> QED
    BY <1>3 DEF AliasesOf, CanonicalOf

\* Whatever a reference names for the validation, the id that is stored for it names too, even
\* when an id looks like the alias of another row.
THEOREM StoredReferenceNamesTheSameRow ==
    ASSUME NEW ids, NEW evidence, IsCatalog(ids, evidence), IsAliases,
           NEW ref \in DOMAIN ProviderRegistry(ids, evidence)
    PROVE  /\ Restore(ids, ref) \in CanonicalIds(ids)
           /\ ProviderRegistry(ids, evidence)[ref] = evidence[Restore(ids, ref)]
  <1>1. ref \in CanonicalIds(ids) \union AliasesOf(ids)
    BY DEF ProviderRegistry
  <1>2. CASE ref \in AliasesOf(ids)
    <2>1. PICK i \in DOMAIN ids : ref = Alias[i]
      BY <1>2 DEF AliasesOf
    <2>2. CanonicalOf(ids, ref) = ids[i]
      BY <2>1, AliasStandsForOne
    <2> QED
      BY <1>1, <1>2, <2>2 DEF Restore, ProviderRegistry, CanonicalIds
  <1>3. CASE ref \notin AliasesOf(ids)
    BY <1>1, <1>3 DEF Restore, ProviderRegistry
  <1> QED
    BY <1>2, <1>3

LEMMA SequenceRangeIsFinite ==
    ASSUME NEW ids, NEW evidence, IsCatalog(ids, evidence)
    PROVE  IsFiniteSet(CanonicalIds(ids)) /\ IsFiniteSet(AliasesOf(ids))
  <1>1. IsFiniteSet(DOMAIN ids)
    <2>1. DOMAIN ids = 1 .. Len(ids) /\ Len(ids) \in Nat
      BY DEF IsCatalog
    <2> QED
      BY <2>1, FS_Interval
  <1> DEFINE id == [i \in DOMAIN ids |-> ids[i]]
             alias == [i \in DOMAIN ids |-> Alias[i]]
  <1>2. id \in Surjection(DOMAIN ids, CanonicalIds(ids))
    BY DEF Surjection, CanonicalIds
  <1>3. alias \in Surjection(DOMAIN ids, AliasesOf(ids))
    BY DEF Surjection, AliasesOf
  <1> QED
    BY <1>1, <1>2, <1>3, FS_Surjection

\* A valid finding, as it is stored, cites ids of the catalogue, no more than the limit, and all
\* its numbers are grounded in the rows of those ids.
LEMMA StoredFindingIsGrounded ==
    ASSUME NEW ids, NEW evidence, IsCatalog(ids, evidence), IsAliases,
           NEW f \in Finding, NEW limits, limits.refs \in Nat,
           ValidFinding(f, ProviderRegistry(ids, evidence), limits)
    PROVE  LET stored == Stored(f, ids)
           IN  /\ stored.refs # {} /\ stored.refs \subseteq CanonicalIds(ids)
               /\ Cardinality(stored.refs) <= limits.refs
               /\ \A text \in TextsOf(stored) :
                     ValidText(text, CitedRows(stored.refs, evidence))
  <1> DEFINE registry == ProviderRegistry(ids, evidence)
             refs == {Restore(ids, ref) : ref \in f.refs}
  <1>1. f.refs # {} /\ f.refs \subseteq DOMAIN registry /\ Cardinality(f.refs) <= limits.refs
    BY DEF ValidFinding, ValidRefs
  <1>2. Stored(f, ids) = [f EXCEPT !.refs = refs]
    BY DEF Stored
  <1>3. /\ Stored(f, ids).refs = refs /\ Stored(f, ids).texts = f.texts
        /\ Stored(f, ids).limitations = f.limitations /\ Stored(f, ids).criteria = f.criteria
    BY <1>2 DEF Finding
  <1>4. TextsOf(Stored(f, ids)) = TextsOf(f)
    BY <1>3 DEF TextsOf
  <1>5. \A ref \in f.refs : Restore(ids, ref) \in CanonicalIds(ids) /\ registry[ref] = evidence[Restore(ids, ref)]
    BY <1>1, StoredReferenceNamesTheSameRow
  <1>6. CitedRows(refs, evidence) = CitedRows(f.refs, registry)
    BY <1>5 DEF CitedRows
  <1>7. IsFiniteSet(f.refs) /\ Cardinality(f.refs) \in Nat
    <2>1. DOMAIN registry = CanonicalIds(ids) \union AliasesOf(ids)
      BY DEF ProviderRegistry
    <2>2. IsFiniteSet(DOMAIN registry)
      BY <2>1, SequenceRangeIsFinite, FS_Union
    <2> QED
      BY <1>1, <2>2, FS_Subset, FS_CardinalityType
  <1>8. Cardinality(refs) <= Cardinality(f.refs) /\ Cardinality(refs) \in Nat
    <2> DEFINE restore == [ref \in f.refs |-> Restore(ids, ref)]
    <2>1. restore \in Surjection(f.refs, refs)
      BY DEF Surjection
    <2>2. IsFiniteSet(refs) /\ Cardinality(refs) <= Cardinality(f.refs)
      BY <1>7, <2>1, FS_Surjection
    <2> QED
      BY <2>2, FS_CardinalityType
  <1>9. \A text \in TextsOf(f) : ValidText(text, CitedRows(f.refs, registry))
    BY DEF ValidFinding
  <1> HIDE DEF registry
  <1>10. refs # {} /\ refs \subseteq CanonicalIds(ids)
    BY <1>1, <1>5
  <1>11. Cardinality(refs) <= limits.refs
    BY <1>1, <1>7, <1>8
  <1> HIDE DEF refs
  <1> QED
    BY <1>3, <1>4, <1>6, <1>9, <1>10, <1>11

\* An early stage loses only its bad findings: an answer of the right shape is accepted once it
\* is sanitised, whatever its findings say.
THEOREM BadFindingsDoNotCostTheStage ==
    ASSUME NEW payload, NEW sections, NEW registry, NEW limits, limits.findings \in Nat,
           EarlyShape(payload, sections, limits), \A s \in sections : IsRows(payload[s]), MalformedIsNoList
    PROVE  EarlyAccepted(EarlySanitized(payload, sections, registry, limits), sections, registry, limits)
  <1> DEFINE kept(s) == Kept(payload[s], registry, limits)
             result == EarlySanitized(payload, sections, registry, limits)
  <1>1. result = [s \in sections |-> kept(s)]
    BY DEF EarlySanitized
  <1>2. ASSUME NEW s \in sections
        PROVE  /\ Cardinality(DOMAIN kept(s)) <= limits.findings
               /\ \A n \in DOMAIN kept(s) : ValidFinding(kept(s)[n], registry, limits)
    <2>1. DOMAIN kept(s) \subseteq DOMAIN payload[s]
      BY DEF Kept
    <2>2. IsFiniteSet(DOMAIN payload[s]) /\ Cardinality(DOMAIN payload[s]) <= limits.findings
      BY DEF IsRows, EarlyShape
    <2>3. Cardinality(DOMAIN kept(s)) <= Cardinality(DOMAIN payload[s])
      BY <2>1, <2>2, FS_Subset
    <2>4. Cardinality(DOMAIN kept(s)) \in Nat /\ Cardinality(DOMAIN payload[s]) \in Nat
      BY <2>1, <2>2, FS_Subset, FS_CardinalityType
    <2>5. \A n \in DOMAIN kept(s) : ValidFinding(kept(s)[n], registry, limits)
      BY DEF Kept
    <2> QED
      BY <2>2, <2>3, <2>4, <2>5
  <1>3. result # Malformed /\ DOMAIN result = sections
    BY <1>1 DEF MalformedIsNoList
  <1> HIDE DEF kept, result
  <1>4. \A s \in sections : result[s] = kept(s)
    BY <1>1
  <1>5. \A s \in sections : kept(s) # Malformed
    <2> TAKE s \in sections
    <2>1. kept(s) = [n \in DOMAIN kept(s) |-> kept(s)[n]]
      BY DEF kept, Kept
    <2> QED
      BY <2>1 DEF MalformedIsNoList
  <1>6. EarlyShape(result, sections, limits)
    BY <1>2, <1>3, <1>4, <1>5 DEF EarlyShape
  <1>7. EarlyAccepted(result, sections, registry, limits)
    BY <1>2, <1>4, <1>6 DEF EarlyAccepted
  <1> QED
    BY <1>7 DEF result

\* What an early stage stores: each finding cites rows of the catalogue, and every number in its
\* texts is one that those very rows give.
THEOREM StoredFindingsAreGrounded ==
    ASSUME NEW ids, NEW evidence, IsCatalog(ids, evidence), IsAliases, NEW limits, limits.refs \in Nat,
           NEW payload, NEW sections,
           EarlyAccepted(payload, sections, ProviderRegistry(ids, evidence), limits),
           NEW s \in sections, NEW n \in DOMAIN payload[s], payload[s][n] \in Finding
    PROVE  LET stored == Stored(payload[s][n], ids)
           IN  /\ stored.refs # {} /\ stored.refs \subseteq CanonicalIds(ids)
               /\ Cardinality(stored.refs) <= limits.refs
               /\ \A text \in TextsOf(stored) : \A number \in text.numbers :
                     Grounded(number, CitedRows(stored.refs, evidence))
  <1>1. ValidFinding(payload[s][n], ProviderRegistry(ids, evidence), limits)
    BY DEF EarlyAccepted
  <1>2. \A text, found : ValidText(text, found) => \A number \in text.numbers : Grounded(number, found)
    BY DEF ValidText
  <1> QED
    BY <1>1, <1>2, StoredFindingIsGrounded

\* What is left of a list has only valid rows when all its rows are dictionaries.
LEMMA SynthesisKeptIsValid ==
    ASSUME NEW found, IsRows(found), found # Malformed, Dictionaries(found) = DOMAIN found, MalformedIsNoList,
           NEW registry, NEW limits
    PROVE  LET kept == SynthesisKept(found, registry, limits)
           IN  /\ kept # Malformed /\ DOMAIN kept \subseteq DOMAIN found
               /\ \A n \in DOMAIN kept : kept[n] # Malformed /\ ValidRow(kept[n], registry, limits)
  <1> DEFINE kept == SynthesisKept(found, registry, limits)
             good == {m \in Dictionaries(found) : ValidRow(Normalize(found[m], registry), registry, limits)}
  <1>1. kept = [n \in good |-> IF found[n] = Malformed THEN Malformed ELSE Normalize(found[n], registry)]
    BY DEF SynthesisKept
  <1>2. good \subseteq DOMAIN found /\ \A n \in good : found[n] # Malformed
    BY DEF Dictionaries
  <1>3. kept = [n \in good |-> Normalize(found[n], registry)]
    BY <1>1, <1>2
  <1>4. \A n \in good : ValidRow(Normalize(found[n], registry), registry, limits)
    OBVIOUS
  <1>5. kept = [n \in good |-> kept[n]]
    BY <1>3
  <1>6. kept # Malformed
    BY <1>5 DEF MalformedIsNoList
  <1>0. \A n \in good : Normalize(found[n], registry) # Malformed
    <2> TAKE n \in good
    <2>1. found[n] \in Finding
      BY <1>2 DEF IsRows
    <2>2. Normalize(found[n], registry) \in Finding
      BY <2>1 DEF Normalize, Finding
    <2> QED
      BY <2>2 DEF MalformedIsNoList
  <1> HIDE DEF good, kept
  <1>7. DOMAIN kept \subseteq DOMAIN found
    BY <1>2, <1>3
  <1>8. \A n \in DOMAIN kept : kept[n] # Malformed /\ ValidRow(kept[n], registry, limits)
    BY <1>0, <1>3, <1>4
  <1> QED
    BY <1>6, <1>7, <1>8 DEF kept

\* The synthesis is refused only for its summary, its caveats, rows that are no dictionaries, or
\* more good rows than there may be; never for a bad finding or draft.
THEOREM SynthesisSurvivesBadRows ==
    ASSUME NEW summary, NEW caveats, NEW findings, NEW drafts, NEW registry, NEW limits, MalformedIsNoList,
           IsRows(findings), findings # Malformed, Dictionaries(findings) = DOMAIN findings,
           IsRows(drafts), drafts # Malformed, Dictionaries(drafts) = DOMAIN drafts,
           ValidFrame(Answer(summary, caveats, findings, drafts), registry, limits),
           Cardinality(DOMAIN SynthesisKept(findings, registry, limits)) <= limits["combined_findings"],
           Cardinality(DOMAIN SynthesisKept(drafts, registry, limits)) <= limits["improvement_drafts"]
    PROVE  SynthesisAccepted(SynthesisSanitized(Answer(summary, caveats, findings, drafts), registry, limits),
                             registry, limits)
  <1> DEFINE payload == Answer(summary, caveats, findings, drafts)
             result == SynthesisSanitized(payload, registry, limits)
             first == SynthesisKept(findings, registry, limits)
             second == SynthesisKept(drafts, registry, limits)
  <1>0. payload # Malformed
    BY DEF MalformedIsNoList
  <1>1. result = Answer(summary, caveats, first, second)
    BY <1>0 DEF SynthesisSanitized, Answer
  <1>2. first # Malformed /\ \A n \in DOMAIN first : first[n] # Malformed /\ ValidRow(first[n], registry, limits)
    BY SynthesisKeptIsValid
  <1>3. second # Malformed /\ \A n \in DOMAIN second : second[n] # Malformed /\ ValidRow(second[n], registry, limits)
    BY SynthesisKeptIsValid
  <1>6. result # Malformed
    BY <1>1 DEF MalformedIsNoList
  <1>4. ValidFrame(result, registry, limits)
    BY <1>1 DEF ValidFrame, Answer
  <1>5. result["combined_findings"] = first /\ result["improvement_drafts"] = second
    BY <1>1 DEF Answer
  <1> HIDE DEF result, first, second
  <1> QED
    BY <1>2, <1>3, <1>4, <1>5, <1>6 DEF SynthesisAccepted, Lists, result, first, second

=============================================================================
