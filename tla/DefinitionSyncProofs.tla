------------------------- MODULE DefinitionSyncProofs -------------------------
(***************************************************************************)
(* Theorems about DefinitionSync for every set of surveys, devices and     *)
(* data sets and every page size: no edit undoes another, the cursor of a  *)
(* link is its own, a sync skips no change, and the node's copy is bound   *)
(* to the data set its definition names.                                   *)
(***************************************************************************)
EXTENDS DefinitionSync, FiniteSetTheorems, WellFoundedInduction, TLAPS

-----------------------------------------------------------------------------
(* The invariants *)

\* Version v of a survey that belongs to a node: such a survey keeps its owner and its revisions.
Known(s, v) == owner[s] # None /\ v \in 1..Version(s)

\* Everything a node was told of is a revision of a survey that belongs to a node.
KnownInv ==
    /\ \A s \in Surveys : local[s].version # 0 => Known(s, local[s].version)
    /\ \A c \in changes : Known(c.survey, c.version)
    /\ \A p \in sync.page : Known(p.survey, p.version)
    /\ sync.pc \notin {"idle", "linked"} => sync.by # None
    /\ write["node"].pc # "idle" => owner[write["node"].survey] # None
    /\ write["node"].pc = "replied" => Known(write["node"].survey, write["node"].expected)
    /\ \A t \in Tabs : reg[t].pc = "replied" => Known(reg[t].survey, reg[t].version)

\* Data sets belong to nodes, and what was purged does not come back.
SurveyInv ==
    /\ \A s \in Surveys : owner[s] # None => Exists(s)
    /\ \A s \in External : Exists(s) => owner[s] # None
    /\ \A s \in purged : ~Exists(s) /\ s \notin External
    /\ \A t \in Tabs : reg[t].pc # "idle" => reg[t].survey \in External
    /\ \A w \in Writers : write[w].pc # "idle" => write[w].survey \in Surveys

\* The row locks: a locked survey exists, has one writer, and a number when it belongs to a node.
LockInv ==
    /\ \A w \in Writers : write[w].pc = "locked" =>
           /\ Exists(write[w].survey)
           /\ write[w].seq = IF owner[write[w].survey] = None THEN 0 ELSE NextSeq
    /\ \A v, w \in Writers :
           /\ write[v].pc = "locked" /\ write[w].pc = "locked"
           /\ write[v].survey = write[w].survey \/ (write[v].seq # 0 /\ write[w].seq # 0)
           => v = w

\* The change log is finite and not ahead of the clock.
ClockInv == IsFiniteSet(changes) /\ \A c \in changes : c.seq <= clock.value

TypeInv == TypeOK /\ KnownInv /\ SurveyInv /\ LockInv /\ ClockInv

\* A registration's reply names the data set of its version.
SourceInv ==
    /\ NodeSourceMatchesDefinition
    /\ \A t \in Tabs : reg[t].pc = "replied" =>
           revision[reg[t].survey][reg[t].version].source = reg[t].source

\* An edit is made to the version it expects; its survey may have been deleted since.
MadeTo(e) ==
    /\ Exists(e.survey) \/ e.survey \in purged
    /\ Exists(e.survey) =>
           /\ e.expected \in 1..Version(e.survey)
           /\ e.settings = revision[e.survey][e.expected].settings
           /\ Version(e.survey) = e.expected /\ e.pc # "row" =>
                  e.questions = revision[e.survey][e.expected].questions

Editing == {"row", "ready", "checked", "locked"}

EditsInv ==
    /\ NoEditIsLost
    /\ \A w \in Writers : write[w].pc \in Editing => MadeTo(write[w])
    /\ \A w \in Writers : write[w].pc = "locked" =>
           Version(write[w].survey) = write[w].expected
    /\ write["node"].pc = "row" => write["node"].expected <= local[write["node"].survey].version
    /\ /\ write["node"].pc \in {"checked", "locked"}
       /\ Version(write["node"].survey) = write["node"].expected
       => owner[write["node"].survey] = write["node"].by

\* The cursors are those of the link, and what a request read is not ahead of the clock.
SyncInv ==
    /\ sync.gen <= link.generation
    /\ sync.pc # "idle" /\ Current => sync.cursor = link.cursor
    /\ sync.pc = "definitions" => sync.read <= clock.value
    /\ sync.pc = "rows" => sync.cursor.device = sync.by /\ sync.cursor.seq <= clock.value
    /\ sync.pc = "apply" => /\ sync.next.gen = sync.gen /\ sync.next.device # None
                            /\ sync.next.seq <= clock.value
    /\ link.cursor # NoCursor => /\ link.cursor.gen = link.generation
                                 /\ link.cursor.device # None
                                 /\ link.cursor.seq <= clock.value

\* The change to a survey's version is still to come for a cursor.
Ahead(s, cursor) ==
    \E c \in changes : c.survey = s /\ c.version = Version(s) /\ c.seq > cursor.seq

\* What a page leaves out is ahead of the cursor it comes with.
PageComplete ==
    sync.pc = "apply" /\ Current =>
        \A s \in Surveys :
            /\ owner[s] = sync.next.device /\ sync.next.seq >= clock.pruned
            /\ local[s].version < Version(s)
            /\ \A p \in sync.page : p.survey = s => p.version < Version(s)
            => Ahead(s, sync.next)

MissInv ==
    /\ NoChangeIsMissed
    /\ sync.pc = "rows" => sync.cursor.seq >= clock.pruned
    /\ PageComplete

-----------------------------------------------------------------------------
(* Maxima *)

LEMMA LeastElement ==
    ASSUME NEW S, S \subseteq Nat, S # {}
    PROVE  \E x \in S : \A y \in S : x <= y
<1>1. PICK x \in S : \A y \in S : <<y, x>> \notin OpToRel(<, Nat)
  BY NatLessThanWellFounded, WFMin
<1>2. \A y \in S : ~(y < x)
  BY <1>1 DEF OpToRel
<1> QED BY <1>2

\* The maximum of a bounded set of numbers is its greatest element.
LEMMA MaxType ==
    ASSUME NEW n \in Nat, NEW S \in SUBSET (0 .. n), S # {}
    PROVE  Max(S) \in S /\ \A y \in S : y <= Max(S)
<1> DEFINE T == {m \in 0 .. n : n - m \in S}
<1>1. PICK z \in S : TRUE
  OBVIOUS
<1>2. n - z \in T
  OBVIOUS
<1>3. \A m \in T : m \in Nat
  OBVIOUS
<1> HIDE DEF T
<1>4. T \subseteq Nat /\ T # {}
  BY <1>2, <1>3
<1> USE DEF T
<1>5. PICK t \in T : \A y \in T : t <= y
  BY <1>4, LeastElement
<1>6. n - t \in S
  BY <1>5
<1>7. ASSUME NEW y \in S PROVE n - t >= y
  <2>1. n - y \in T
    OBVIOUS
  <2> QED BY <1>5, <2>1
<1>8. \E x \in S : \A y \in S : x >= y
  BY <1>6, <1>7
<1> QED BY <1>8 DEF Max

-----------------------------------------------------------------------------
(* Types *)

LEMMA InitialTypes ==
    /\ NoWrite \in WriteStates /\ NoWrite.pc = "idle" /\ NoReg \in RegStates /\ NoReg.pc = "idle"
    /\ NoCursor \in CursorType /\ NoSync \in SyncStates /\ NoSync.pc = "idle" /\ NoSync.page = {}
    /\ NoSync.gen = 0 /\ NoCursor.device = None
BY DEF NoWrite, WriteStates, NoReg, RegStates, NoCursor, CursorType, NoSync, NoPage, SyncStates,
       Maybe

LEMMA RevisionTypes ==
    ASSUME TypeOK, NEW s \in Surveys
    PROVE  /\ Version(s) \in Nat /\ revision[s] \in Seq(Definition)
           /\ \A v \in 1 .. Version(s) : revision[s][v] \in Definition
           /\ Exists(s) => Live(s) \in Definition
<1>1. revision[s] \in Seq(Definition)
  BY DEF TypeOK
<1>2. Version(s) \in Nat /\ \A v \in 1 .. Version(s) : revision[s][v] \in Definition
  BY <1>1 DEF Version
<1>3. Exists(s) => Version(s) \in 1 .. Version(s)
  BY <1>2 DEF Exists
<1> QED BY <1>1, <1>2, <1>3 DEF Live

\* A definition becomes the next version of a survey.
Appended(s, definition) == revision' = [revision EXCEPT ![s] = Append(@, definition)]
Announced(s) ==
    /\ clock' = [clock EXCEPT !.value = NextSeq]
    /\ changes' = changes \union {[seq |-> NextSeq, survey |-> s, version |-> Version(s) + 1]}

LEMMA AppendedTypes ==
    ASSUME TypeOK, NEW s \in Surveys, NEW definition \in Definition, Appended(s, definition)
    PROVE  /\ revision' \in [Surveys -> Seq(Definition)]
           /\ Version(s)' = Version(s) + 1 /\ revision'[s][Version(s) + 1] = definition
           /\ \A v \in 1 .. Version(s) : revision'[s][v] = revision[s][v]
           /\ \A u \in Surveys : u # s => revision'[u] = revision[u]
<1>1. revision \in [Surveys -> Seq(Definition)] /\ revision[s] \in Seq(Definition)
  BY DEF TypeOK
<1>2. Append(revision[s], definition) \in Seq(Definition)
  BY <1>1
<1>3. /\ revision'[s] = Append(revision[s], definition)
      /\ \A u \in Surveys : u # s => revision'[u] = revision[u]
  BY <1>1 DEF Appended
<1>4. revision' \in [Surveys -> Seq(Definition)]
  BY <1>1, <1>2 DEF Appended
<1> QED BY <1>1, <1>3, <1>4 DEF Version

LEMMA AnnouncedTypes ==
    ASSUME TypeOK, NEW s \in Surveys, Announced(s)
    PROVE  /\ clock' \in Clock /\ clock'.value = clock.value + 1 /\ clock'.pruned = clock.pruned
           /\ changes' \subseteq Change
<1>1. clock \in Clock /\ changes \subseteq Change /\ Version(s) \in Nat
  BY RevisionTypes DEF TypeOK
<1> DEFINE seq == clock.value + 1
           version == Version(s) + 1
<1>2. seq \in Nat /\ version \in Nat
  BY <1>1 DEF Clock
<1>3. clock' = [clock EXCEPT !.value = seq]
      /\ changes' = changes \union {[seq |-> seq, survey |-> s, version |-> version]}
  BY DEF Announced, NextSeq
<1> HIDE DEF seq, version
<1>4. [seq |-> seq, survey |-> s, version |-> version] \in Change
  BY <1>2 DEF Change
<1>5. clock' \in Clock /\ clock'.value = seq /\ clock'.pruned = clock.pruned
  BY <1>1, <1>2, <1>3 DEF Clock
<1> QED BY <1>1, <1>3, <1>4, <1>5 DEF seq

\* Where a version comes from: a first one, one of a data set, or the edit that holds the lock.
Reason(s, definition) ==
    \/ ~Exists(s) \/ s \in External \/ definition = Live(s)
    \/ \E w \in Writers : /\ write[w].pc = "locked" /\ write[w].survey = s
                          /\ definition = Lifecycle(write[w])

\* A write of a survey: the locks that are left are on others, and without a number when it takes
\* one.
Writes(s, definition) ==
    /\ s \notin purged /\ UNCHANGED purged
    /\ Appended(s, definition) /\ Reason(s, definition)
    /\ \E d \in Maybe(Devices) : owner' = [owner EXCEPT ![s] = d] /\ (owner[s] # None => d # None)
    /\ \A w \in Writers : write'[w].pc = "locked" =>
           /\ write'[w] = write[w] /\ write[w].survey # s
           /\ owner'[s] # None => write[w].seq = 0
    /\ IF owner'[s] = None THEN UNCHANGED <<clock, changes>> ELSE Announced(s)
    /\ s \in External => owner'[s] # None

LEMMA LifecycleType ==
    ASSUME TypeOK, NEW e \in WriteStates, e.survey \in Surveys, Exists(e.survey)
    PROVE  Lifecycle(e) \in Definition
<1>1. Live(e.survey) \in Definition /\ Version(e.survey) \in Nat
  BY RevisionTypes
<1>2. Questions(e) \in Nat /\ Settings(e) \in Nat
  BY <1>1 DEF Questions, Settings, WriteStates
<1> DEFINE now == Live(e.survey)
           next == Version(e.survey) + 1
           publishing == now.published = 0 /\ Published(e)
           reanalyse == now.published # 0 /\ Settings(e) # now.settings
           published == IF publishing THEN next ELSE now.published
           analysis == IF publishing \/ reanalyse THEN next ELSE now.analysis
<1>3. next \in Nat /\ now \in Definition
  BY <1>1
<1> HIDE DEF next, publishing, reanalyse, now
<1>4. published \in Nat /\ analysis \in Nat /\ now.source \in Maybe(Sources)
  BY <1>3 DEF Definition
<1>5. Lifecycle(e) = [questions |-> Questions(e), settings |-> Settings(e), source |-> now.source,
                      published |-> published, analysis |-> analysis]
  BY DEF Lifecycle, now, next, publishing, reanalyse
<1> HIDE DEF published, analysis
<1> QED BY <1>2, <1>4, <1>5 DEF Definition

Deletes(s) ==
    /\ Exists(s) /\ SurveyFree(s) /\ owner[s] = None
    /\ revision' = [revision EXCEPT ![s] = <<>>] /\ purged' = purged \union {s}
    /\ UNCHANGED <<owner, clock, changes, write>>

Prunes(last) ==
    /\ last \in {c.seq : c \in changes}
    /\ sync.pc = "rows" => "late_prune" \in Disturbances
    /\ changes' = {c \in changes : c.seq > last}
    /\ clock' = [clock EXCEPT !.pruned = IF @ > last THEN @ ELSE last]
    /\ UNCHANGED <<owner, revision, purged, write>>

\* Every step writes one survey, deletes a draft, prunes or leaves the cloud alone.
CloudKind ==
    \/ UNCHANGED cloud
    \/ \E s \in Surveys, definition \in Definition : Writes(s, definition)
    \/ \E s \in Surveys : Deletes(s)
    \/ \E last \in Nat : Prunes(last)

LEMMA CloudKinds ==
    ASSUME TypeInv, [Next]_vars
    PROVE  CloudKind
<1>types. /\ TypeOK /\ owner \in [Surveys -> Maybe(Devices)] /\ token \in Maybe(Devices)
          /\ write \in [Writers -> WriteStates] /\ reg \in [Tabs -> RegStates]
          /\ changes \subseteq Change /\ clock \in Clock
  BY DEF TypeInv, TypeOK
<1>1. ASSUME NEW s \in Surveys, NEW q \in 0 .. 1, CreateSurvey(s, q) PROVE CloudKind
  <2> DEFINE definition == NewDraft(q)
  <2>1. /\ s \notin External /\ s \notin purged /\ ~Exists(s) /\ Appended(s, definition)
        /\ UNCHANGED <<owner, purged, clock, changes, write>>
    BY <1>1 DEF CreateSurvey, RecordVersion, Appended
  <2>2. owner[s] = None /\ \A w \in Writers : write[w].pc = "locked" => write[w].survey # s
    BY <2>1 DEF TypeInv, SurveyInv, LockInv
  <2>3. definition \in Definition
    BY DEF NewDraft, Definition, Maybe
  <2>4. owner' = [owner EXCEPT ![s] = None]
    BY <1>types, <2>1, <2>2
  <2> HIDE DEF definition
  <2>5. Writes(s, definition)
    BY <2>1, <2>2, <2>4 DEF Writes, Reason, Maybe
  <2> QED BY <2>3, <2>5 DEF CloudKind
<1>2. ASSUME NEW s \in Surveys, NEW d \in Devices, AssignSurveyToNode(s, d) PROVE CloudKind
  <2> DEFINE definition == Live(s)
  <2>1. /\ s \notin External /\ Exists(s) /\ SurveyFree(s) /\ ClockFree /\ UNCHANGED <<purged, write>>
        /\ owner' = [owner EXCEPT ![s] = d] /\ RecordVersion(s, definition, NextSeq)
    BY <1>2 DEF AssignSurveyToNode
  <2>2. s \notin purged /\ d # None /\ owner'[s] = d /\ definition \in Definition
    BY <1>types, <2>1, RevisionTypes, DevicesAssumption DEF TypeInv, SurveyInv
  <2>3. NextSeq # 0
    BY <1>types DEF NextSeq, Clock
  <2>4. Appended(s, definition) /\ Announced(s)
    BY <2>1, <2>3 DEF RecordVersion, Appended, Announced
  <2>5. Writes(s, definition)
    BY <2>1, <2>2, <2>4 DEF Writes, Reason, Maybe, SurveyFree, ClockFree
  <2> HIDE DEF definition
  <2> QED BY <2>2, <2>5 DEF CloudKind
<1>3. ASSUME NEW s \in Surveys, DeleteDraft(s) PROVE CloudKind
  <2>1. Deletes(s)
    BY <1>3 DEF DeleteDraft, Deletes
  <2> QED BY <2>1 DEF CloudKind
<1>4. ASSUME PruneSurveyChanges PROVE CloudKind
  <2>1. PICK last \in {c.seq : c \in changes} :
            /\ Disturb(IF sync.pc = "rows" THEN "late_prune" ELSE "prune")
            /\ changes' = {c \in changes : c.seq > last}
            /\ clock' = [clock EXCEPT !.pruned = IF @ > last THEN @ ELSE last]
            /\ UNCHANGED <<owner, revision, purged, write>>
    BY <1>4 DEF PruneSurveyChanges
  <2>2. last \in Nat
    BY <1>types DEF Change
  <2>3. Prunes(last)
    BY <2>1 DEF Prunes, Disturb
  <2> QED BY <2>2, <2>3 DEF CloudKind
<1>5. ASSUME NEW s \in Surveys, NodeCreateSurvey(s) PROVE CloudKind
  <2>1. CASE Exists(s)
    BY <1>5, <2>1 DEF NodeCreateSurvey, CloudKind, cloud
  <2>2. CASE ~Exists(s)
    <3> DEFINE definition == NewDraft(0)
    <3>1. /\ s \notin External /\ s \notin purged /\ UNCHANGED purged /\ token # None /\ ClockFree
          /\ owner' = [owner EXCEPT ![s] = token] /\ RecordVersion(s, definition, NextSeq)
      BY <1>5, <2>2 DEF NodeCreateSurvey
    <3>2. definition \in Definition
      BY DEF NewDraft, Definition, Maybe
    <3> HIDE DEF definition
    <3>3. NextSeq # 0 /\ owner'[s] = token
      BY <1>types, <3>1 DEF NextSeq, Clock
    <3>4. Appended(s, definition) /\ Announced(s)
      BY <3>1, <3>3 DEF RecordVersion, Appended, Announced
    <3>5. \A w \in Writers : write'[w].pc = "locked" =>
              write'[w] = write[w] /\ write[w].survey # s /\ write[w].seq = 0
      <4> DEFINE reply == [NoWrite EXCEPT !.pc = "replied", !.survey = s, !.expected = 1]
      <4>1. write' = [write EXCEPT !["node"] = reply]
        BY <1>5, <2>2 DEF NodeCreateSurvey
      <4>2. reply.pc = "replied"
        BY DEF NoWrite
      <4> HIDE DEF reply
      <4>3. \A w \in Writers : write'[w].pc = "locked" => write'[w] = write[w]
        BY <1>types, <4>1, <4>2
      <4> QED BY <2>2, <3>1, <4>3 DEF TypeInv, LockInv, ClockFree
    <3>6. Writes(s, definition)
      BY <1>types, <2>2, <3>1, <3>3, <3>4, <3>5 DEF Writes, Reason
    <3> QED BY <3>2, <3>6 DEF CloudKind
  <2> QED BY <2>1, <2>2
<1>6. ASSUME NEW t \in Tabs, PostDataset(t) PROVE CloudKind
  <2> DEFINE s == reg[t].survey
             definition == Registered(s, reg[t].source)
  <2>1. CASE UNCHANGED <<owner, revision, clock, changes>>
    BY <1>6, <2>1 DEF PostDataset, CloudKind, cloud
  <2>2. CASE ~UNCHANGED <<owner, revision, clock, changes>>
    <3>1. /\ reg[t].pc = "form" /\ ~RegistrationRefused(reg[t]) /\ SurveyFree(s) /\ ClockFree
          /\ UNCHANGED <<purged, write>>
          /\ owner' = [owner EXCEPT ![s] = token] /\ RecordVersion(s, definition, NextSeq)
      BY <1>6, <2>2 DEF PostDataset
    <3>2. /\ s \in External /\ s \in Surveys /\ s \notin purged /\ token # None
          /\ Exists(s) => owner[s] = token
      BY <3>1, ExternalAssumption DEF RegistrationRefused, TypeInv, SurveyInv
    <3>3. reg[t].source \in Maybe(Sources)
      BY <1>types DEF RegStates
    <3>4. definition \in Definition
      <4> DEFINE next == Version(s) + 1
                 published == IF Exists(s) THEN Live(s).published ELSE next
      <4>1. next \in Nat /\ published \in Nat
        BY <1>types, <3>2, RevisionTypes DEF Definition
      <4>2. definition = [questions |-> 1, settings |-> 1, source |-> reg[t].source,
                          published |-> published, analysis |-> next]
        BY DEF Registered
      <4> HIDE DEF next, published
      <4> QED BY <3>3, <4>1, <4>2 DEF Definition
    <3> HIDE DEF s, definition
    <3>5. NextSeq # 0 /\ owner'[s] = token
      BY <1>types, <3>1, <3>2 DEF NextSeq, Clock
    <3>6. Appended(s, definition) /\ Announced(s)
      BY <3>1, <3>5 DEF RecordVersion, Appended, Announced
    <3>7. Writes(s, definition)
      BY <1>types, <3>1, <3>2, <3>5, <3>6 DEF Writes, Reason, SurveyFree, ClockFree
    <3> QED BY <3>2, <3>4, <3>7 DEF CloudKind
  <2> QED BY <2>1, <2>2
<1>7. ASSUME NEW w \in Writers, CommitChange(w) PROVE CloudKind
  <2> DEFINE e == write[w]
             s == e.survey
             definition == Lifecycle(e)
  <2>1. /\ e.pc = "locked" /\ RecordVersion(s, definition, e.seq) /\ UNCHANGED <<owner, purged>>
    BY <1>7 DEF CommitChange
  <2>2. /\ s \in Surveys /\ Exists(s) /\ e \in WriteStates
        /\ e.seq = IF owner[s] = None THEN 0 ELSE NextSeq
    BY <1>types, <2>1 DEF TypeInv, SurveyInv, LockInv
  <2>3. definition \in Definition /\ s \notin purged /\ (s \in External => owner[s] # None)
    BY <1>types, <2>2, LifecycleType DEF TypeInv, SurveyInv
  <2>4. Reason(s, definition)
    BY <2>1 DEF Reason
  <2>9. \A v \in Writers : write'[v].pc = "locked" =>
            /\ write'[v] = write[v] /\ write[v].survey # s
            /\ owner[s] # None => write[v].seq = 0
    <3>1. PICK after : write' = [write EXCEPT ![w] = after] /\ after.pc # "locked"
      <4>1. /\ NoWrite.pc # "locked"
            /\ [NoWrite EXCEPT !.pc = "replied", !.survey = s, !.expected = Version(s) + 1].pc
                   # "locked"
        BY DEF NoWrite
      <4>2. \E after \in {NoWrite, [NoWrite EXCEPT !.pc = "replied", !.survey = s,
                                                   !.expected = Version(s) + 1]} :
                write' = [write EXCEPT ![w] = after]
        BY <1>7 DEF CommitChange
      <4> QED BY <4>1, <4>2
    <3>2. \A v \in Writers : write'[v].pc = "locked" => v # w /\ write'[v] = write[v]
      BY <1>types, <3>1
    <3>3. NextSeq # 0
      BY <1>types DEF NextSeq, Clock
    <3> QED BY <2>1, <2>2, <3>2, <3>3 DEF TypeInv, LockInv
  <2> HIDE DEF definition, s, e
  <2>5. owner' = [owner EXCEPT ![s] = owner[s]] /\ owner[s] \in Maybe(Devices)
    BY <1>types, <2>1, <2>2
  <2>6. NextSeq # 0
    BY <1>types DEF NextSeq, Clock
  <2>7. Appended(s, definition) /\ IF owner[s] = None THEN UNCHANGED <<clock, changes>> ELSE Announced(s)
    BY <2>1, <2>2, <2>6 DEF RecordVersion, Appended, Announced
  <2>8. Writes(s, definition)
    BY <2>1, <2>2, <2>3, <2>4, <2>5, <2>7, <2>9 DEF Writes
  <2> QED BY <2>2, <2>3, <2>8 DEF CloudKind
<1>8. CASE \/ \E w \in Writers, s \in Surveys : OpenForm(w, s)
           \/ \E w \in Writers : ReadQuestions(w) \/ AbortChange(w) \/ ChangeDefinition(w)
           \/ LoseReply \/ PutSurvey \/ ApplyReply
  BY <1>8 DEF OpenForm, ReadQuestions, AbortChange, ChangeDefinition, LoseReply, PutSurvey,
              ApplyReply, CloudKind
<1>9. CASE \E t \in Tabs : \/ \E s \in Surveys, source \in Sources : PreviewDataset(t, s, source)
                           \/ LoseDatasetReply(t) \/ BindDataset(t)
  BY <1>9 DEF PreviewDataset, LoseDatasetReply, BindDataset, CloudKind
<1>10. CASE SyncSteps \/ SyncFails
  BY <1>10 DEF SyncSteps, SyncFails, StartSync, OpenClient, SnapshotClock, SnapshotDefinitions,
               ChangesClock, ChangesRows, Gone, ApplyPage, CloudKind
<1>11. CASE Linking \/ ResetLink \/ NodeCrash \/ UNCHANGED vars
  BY <1>11 DEF Linking, SaveToken, DeleteToken, ResetLink, NodeCrash, vars, cloud, CloudKind
<1> QED BY <1>1, <1>2, <1>3, <1>4, <1>5, <1>6, <1>7, <1>8, <1>9, <1>10, <1>11
        DEF Next, Edit, FinishEdit, CloudSteps, Registration

LEMMA WrittenSurvey ==
    ASSUME TypeOK, NEW s \in Surveys, NEW definition \in Definition, Writes(s, definition)
    PROVE  /\ revision' \in [Surveys -> Seq(Definition)]
           /\ Version(s)' = Version(s) + 1 /\ revision'[s][Version(s) + 1] = definition
           /\ \A v \in 1 .. Version(s) : revision'[s][v] = revision[s][v]
           /\ owner' \in [Surveys -> Maybe(Devices)] /\ (owner[s] # None => owner'[s] # None)
           /\ \A u \in Surveys : u # s => /\ revision'[u] = revision[u] /\ owner'[u] = owner[u]
                                          /\ Version(u)' = Version(u)
           /\ Version(s) \in Nat
<1>1. owner \in [Surveys -> Maybe(Devices)]
  BY DEF TypeOK
<1>2. PICK d \in Maybe(Devices) :
          owner' = [owner EXCEPT ![s] = d] /\ (owner[s] # None => d # None)
  BY DEF Writes
<1>3. /\ revision' \in [Surveys -> Seq(Definition)]
      /\ Version(s)' = Version(s) + 1 /\ revision'[s][Version(s) + 1] = definition
      /\ \A v \in 1 .. Version(s) : revision'[s][v] = revision[s][v]
      /\ \A u \in Surveys : u # s => revision'[u] = revision[u]
  BY AppendedTypes DEF Writes
<1> QED BY <1>1, <1>2, <1>3, RevisionTypes DEF Version

\* The cloud's rows keep their types.
LEMMA CloudTypes ==
    ASSUME TypeOK, CloudKind
    PROVE  /\ owner' \in [Surveys -> Maybe(Devices)] /\ revision' \in [Surveys -> Seq(Definition)]
           /\ purged' \subseteq Surveys /\ clock' \in Clock /\ changes' \subseteq Change
           /\ clock'.value >= clock.value
<1>types. /\ owner \in [Surveys -> Maybe(Devices)] /\ revision \in [Surveys -> Seq(Definition)]
          /\ purged \subseteq Surveys /\ clock \in Clock /\ changes \subseteq Change
  BY DEF TypeOK
<1>0. clock.value \in Nat /\ clock.pruned \in Nat
  BY <1>types DEF Clock
<1>1. CASE UNCHANGED cloud
  BY <1>types, <1>0, <1>1 DEF cloud
<1>2. ASSUME NEW s \in Surveys, NEW definition \in Definition, Writes(s, definition)
      PROVE  /\ owner' \in [Surveys -> Maybe(Devices)] /\ revision' \in [Surveys -> Seq(Definition)]
             /\ purged' \subseteq Surveys /\ clock' \in Clock /\ changes' \subseteq Change
             /\ clock'.value >= clock.value
  <2>1. UNCHANGED <<clock, changes>> \/ Announced(s)
    BY <1>2 DEF Writes
  <2>2. clock' \in Clock /\ changes' \subseteq Change /\ clock'.value >= clock.value
    BY <1>types, <1>0, <2>1, AnnouncedTypes
  <2> QED BY <1>types, <1>2, <2>2, WrittenSurvey DEF Writes
<1>3. ASSUME NEW s \in Surveys, Deletes(s)
      PROVE  /\ owner' \in [Surveys -> Maybe(Devices)] /\ revision' \in [Surveys -> Seq(Definition)]
             /\ purged' \subseteq Surveys /\ clock' \in Clock /\ changes' \subseteq Change
             /\ clock'.value >= clock.value
  BY <1>types, <1>0, <1>3 DEF Deletes
<1>4. ASSUME NEW last \in Nat, Prunes(last)
      PROVE  /\ owner' \in [Surveys -> Maybe(Devices)] /\ revision' \in [Surveys -> Seq(Definition)]
             /\ purged' \subseteq Surveys /\ clock' \in Clock /\ changes' \subseteq Change
             /\ clock'.value >= clock.value
  <2> DEFINE pruned == IF clock.pruned > last THEN clock.pruned ELSE last
  <2>1. pruned \in Nat /\ clock' = [clock EXCEPT !.pruned = pruned]
    BY <1>0, <1>4 DEF Prunes
  <2> HIDE DEF pruned
  <2>2. clock' \in Clock /\ clock'.value = clock.value
    BY <1>types, <2>1 DEF Clock
  <2> QED BY <1>types, <1>0, <1>4, <2>2 DEF Prunes
<1> QED BY <1>1, <1>2, <1>3, <1>4 DEF CloudKind

\* Surveys that belong to a node keep a node and their revisions.
LEMMA KnownKept ==
    ASSUME TypeOK, CloudKind, NEW s \in Surveys, NEW v, Known(s, v)
    PROVE  Known(s, v)' /\ revision'[s][v] = revision[s][v]
<1>1. Version(s) \in Nat /\ v \in 1 .. Version(s) /\ owner[s] # None
  BY RevisionTypes DEF Known
<1>2. CASE UNCHANGED <<owner, revision>>
  BY <1>1, <1>2 DEF Known, Version
<1>3. ASSUME NEW u \in Surveys, NEW definition \in Definition, Writes(u, definition)
      PROVE  Known(s, v)' /\ revision'[s][v] = revision[s][v]
  <2>1. CASE u = s
    <3>1. /\ Version(s)' = Version(s) + 1 /\ owner'[s] # None /\ revision'[s][v] = revision[s][v]
      BY <1>1, <1>3, <2>1, WrittenSurvey
    <3>2. v \in 1 .. Version(s)'
      BY <1>1, <3>1
    <3> QED BY <3>1, <3>2 DEF Known
  <2>2. CASE u # s
    <3>1. revision'[s] = revision[s] /\ owner'[s] = owner[s] /\ Version(s)' = Version(s)
      BY <1>3, <2>2, WrittenSurvey
    <3> QED BY <1>1, <3>1 DEF Known
  <2> QED BY <2>1, <2>2
<1>4. ASSUME NEW u \in Surveys, Deletes(u)
      PROVE  Known(s, v)' /\ revision'[s][v] = revision[s][v]
  <2>1. u # s /\ owner' = owner
    BY <1>1, <1>4 DEF Deletes
  <2>2. revision'[s] = revision[s]
    BY <1>4, <2>1 DEF Deletes, TypeOK
  <2> QED BY <1>1, <2>1, <2>2 DEF Known, Version
<1>5. ASSUME NEW last \in Nat, Prunes(last) PROVE UNCHANGED <<owner, revision>>
  BY <1>5 DEF Prunes
<1> QED BY <1>2, <1>3, <1>4, <1>5 DEF CloudKind, cloud

\* The surveys' owners, data sets and purges, and what the changes mention.
LEMMA SurveysKept ==
    ASSUME TypeInv, CloudKind
    PROVE  /\ \A s \in Surveys : owner'[s] # None => Exists(s)'
           /\ \A s \in External : Exists(s)' => owner'[s] # None
           /\ \A s \in purged' : ~Exists(s)' /\ s \notin External
           /\ \A c \in changes' : owner'[c.survey] # None /\ c.version \in 1 .. Version(c.survey)'
<1>types. /\ TypeOK /\ purged \subseteq Surveys /\ changes \subseteq Change
          /\ \A s \in External : s \in Surveys
          /\ \A s \in Surveys : Version(s) \in Nat
  BY RevisionTypes, ExternalAssumption DEF TypeInv, TypeOK
<1>inv. /\ \A s \in Surveys : owner[s] # None => Exists(s)
        /\ \A s \in External : Exists(s) => owner[s] # None
        /\ \A s \in purged : ~Exists(s) /\ s \notin External
        /\ \A c \in changes : c.survey \in Surveys /\ Known(c.survey, c.version)
  BY <1>types DEF TypeInv, SurveyInv, KnownInv, Change
<1>old. \A c \in changes : owner'[c.survey] # None /\ c.version \in 1 .. Version(c.survey)'
  BY <1>types, <1>inv, KnownKept DEF Known
<1>1. CASE UNCHANGED cloud \/ \E last \in Nat : Prunes(last)
  <2>1. UNCHANGED <<owner, revision, purged>> /\ changes' \subseteq changes
    BY <1>1 DEF cloud, Prunes
  <2> QED BY <1>inv, <1>old, <2>1 DEF Exists, Version
<1>2. ASSUME NEW u \in Surveys, NEW definition \in Definition, Writes(u, definition)
      PROVE  /\ \A s \in Surveys : owner'[s] # None => Exists(s)'
             /\ \A s \in External : Exists(s)' => owner'[s] # None
             /\ \A s \in purged' : ~Exists(s)' /\ s \notin External
             /\ \A c \in changes' : owner'[c.survey] # None /\ c.version \in 1 .. Version(c.survey)'
  <2>1. /\ Version(u)' = Version(u) + 1
        /\ \A s \in Surveys : s # u => owner'[s] = owner[s] /\ Version(s)' = Version(s)
    BY <1>types, <1>2, WrittenSurvey
  <2>2. /\ u \notin purged /\ UNCHANGED purged
        /\ u \in External => owner'[u] # None
        /\ IF owner'[u] = None THEN UNCHANGED <<clock, changes>> ELSE Announced(u)
    BY <1>2 DEF Writes
  <2>3. Exists(u)' /\ \A s \in Surveys : s # u => Exists(s)' = Exists(s)
    BY <1>types, <2>1 DEF Exists
  <2>4. ASSUME NEW c \in changes'
        PROVE  owner'[c.survey] # None /\ c.version \in 1 .. Version(c.survey)'
    <3>1. CASE c \in changes
      BY <1>old, <3>1
    <3>2. CASE c \notin changes
      <4>1. owner'[u] # None /\ c = [seq |-> NextSeq, survey |-> u, version |-> Version(u) + 1]
        BY <2>2, <2>4, <3>2 DEF Announced
      <4> QED BY <1>types, <2>1, <4>1
    <3> QED BY <3>1, <3>2
  <2>5. \A s \in Surveys : owner'[s] # None => Exists(s)'
    BY <1>inv, <2>1, <2>3
  <2>6. \A s \in External : Exists(s)' => owner'[s] # None
    BY <1>inv, <1>types, <2>1, <2>2, <2>3
  <2>7. \A s \in purged' : ~Exists(s)' /\ s \notin External
    BY <1>inv, <1>types, <2>2, <2>3
  <2> QED BY <2>4, <2>5, <2>6, <2>7
<1>3. ASSUME NEW u \in Surveys, Deletes(u)
      PROVE  /\ \A s \in Surveys : owner'[s] # None => Exists(s)'
             /\ \A s \in External : Exists(s)' => owner'[s] # None
             /\ \A s \in purged' : ~Exists(s)' /\ s \notin External
             /\ \A c \in changes' : owner'[c.survey] # None /\ c.version \in 1 .. Version(c.survey)'
  <2>1. /\ owner[u] = None /\ purged' = purged \union {u} /\ UNCHANGED <<owner, changes>>
        /\ revision' = [revision EXCEPT ![u] = <<>>]
    BY <1>3 DEF Deletes
  <2>2. revision'[u] = <<>> /\ \A s \in Surveys : s # u => revision'[s] = revision[s]
    BY <1>types, <2>1 DEF TypeOK
  <2>3. ~Exists(u)' /\ \A s \in Surveys : s # u => Exists(s)' = Exists(s)
    BY <2>2 DEF Exists, Version
  <2>4. u \notin External
    BY <1>inv, <1>3, <2>1 DEF Deletes
  <2> QED BY <1>inv, <1>types, <1>old, <2>1, <2>3, <2>4
<1> QED BY <1>1, <1>2, <1>3 DEF CloudKind

-----------------------------------------------------------------------------
(* The memory of the edits, registrations and of the sync *)

LEMMA ShownVersions ==
    ASSUME TypeInv, NEW w \in Writers, NEW s \in Surveys
    PROVE  /\ Shown(w, s) \in 0 .. Version(s)
           /\ Shown(w, s) # 0 => revision[s][Shown(w, s)] \in Definition
<1>1. Version(s) \in Nat /\ \A v \in 1 .. Version(s) : revision[s][v] \in Definition
  BY RevisionTypes DEF TypeInv
<1>2. local[s].version \in Nat /\ (local[s].version # 0 => local[s].version \in 1 .. Version(s))
  BY DEF TypeInv, TypeOK, Copy, KnownInv, Known
<1>3. Shown(w, s) \in 0 .. Version(s)
  BY <1>1, <1>2 DEF Shown
<1> QED BY <1>1, <1>3

\* The same edit of the same version of a survey.
SameEdit(e, after) ==
    /\ after.survey = e.survey /\ after.expected = e.expected /\ after.settings = e.settings

\* What a step does to the edit of writer w, and the memory it leaves.
Opens(w, after) ==
    /\ after.pc = "row" /\ after.survey \in Surveys
    /\ after.expected = Shown(w, after.survey) /\ after.expected # 0
    /\ after.settings = revision[after.survey][after.expected].settings
    /\ UNCHANGED <<cloud, local>>
Reads(w, after) ==
    /\ write[w].pc = "row" /\ after.pc = "ready" /\ SameEdit(write[w], after)
    /\ Shown(w, after.survey) # 0
    /\ after.questions = revision[after.survey][Shown(w, after.survey)].questions
    /\ UNCHANGED <<cloud, local>>
Checks(w, after) ==
    /\ write[w].pc = "ready" /\ after.pc = "checked" /\ w = "node" /\ SameEdit(write[w], after)
    /\ after.questions = write[w].questions
    /\ after.by # None /\ owner[after.survey] = after.by
    /\ UNCHANGED <<cloud, local>>
Locks(w, after) ==
    /\ write[w].pc = (IF w = "web" THEN "ready" ELSE "checked")
    /\ after.pc = "locked" /\ SameEdit(write[w], after)
    /\ after.questions = write[w].questions /\ after.by = write[w].by
    /\ SurveyFree(after.survey) /\ Exists(after.survey)
    /\ Version(after.survey) = after.expected
    /\ owner[after.survey] = None \/ ClockFree
    /\ after.seq = IF owner[after.survey] = None THEN 0 ELSE NextSeq
    /\ UNCHANGED <<cloud, local>>
Replies(w, after) ==
    /\ w = "node" /\ after.pc = "replied" /\ after.survey \in Surveys
    /\ owner'[after.survey] # None /\ after.expected \in 1 .. Len(revision'[after.survey])
    /\ UNCHANGED local

WriteKind ==
    \/ UNCHANGED write
    \/ \E w \in Writers, after \in WriteStates :
           /\ write' = [write EXCEPT ![w] = after]
           /\ \/ after.pc = "idle"
              \/ Opens(w, after) \/ Reads(w, after) \/ Checks(w, after) \/ Locks(w, after)
              \/ Replies(w, after)

LEMMA WriteKinds ==
    ASSUME TypeInv, [Next]_vars
    PROVE  WriteKind
<1>types. /\ TypeOK /\ write \in [Writers -> WriteStates] /\ token \in Maybe(Devices)
          /\ \A s \in Surveys : Version(s) \in Nat
  BY RevisionTypes DEF TypeInv, TypeOK
<1>idle. NoWrite \in WriteStates /\ NoWrite.pc = "idle"
  BY InitialTypes
<1>1. ASSUME NEW w \in Writers, NEW s \in Surveys, OpenForm(w, s) PROVE WriteKind
  <2> DEFINE expected == Shown(w, s)
             shown == revision[s][expected]
             published == shown.published # 0
             after == [NoWrite EXCEPT !.pc = "row", !.survey = s, !.expected = expected,
                           !.settings = shown.settings, !.source = shown.source,
                           !.published = published]
  <2>1. /\ write' = [write EXCEPT ![w] = after] /\ expected # 0 /\ UNCHANGED <<cloud, local>>
    BY <1>1 DEF OpenForm
  <2>2. expected \in Nat /\ shown \in Definition
    BY <2>1, <1>types, ShownVersions
  <2>3. published \in BOOLEAN /\ shown.settings \in Nat /\ shown.source \in Maybe(Sources)
    BY <2>2 DEF Definition
  <2> HIDE DEF expected, shown, published
  <2>4. after \in WriteStates
    BY <1>idle, <2>2, <2>3 DEF NoWrite, WriteStates, Maybe
  <2>5. /\ after.pc = "row" /\ after.survey = s /\ after.expected = expected
        /\ after.settings = shown.settings
    BY DEF NoWrite
  <2> HIDE DEF after
  <2>6. Opens(w, after)
    BY <2>1, <2>5 DEF Opens, expected, shown
  <2> QED BY <2>1, <2>4, <2>6 DEF WriteKind
<1>2. ASSUME NEW w \in Writers, ReadQuestions(w) PROVE WriteKind
  <2> DEFINE s == write[w].survey
             questions == revision[s][Shown(w, s)].questions
  <2>1. write[w].pc = "row" /\ s \in Surveys /\ write[w] \in WriteStates /\ UNCHANGED <<cloud, local>>
    BY <1>2, <1>types DEF ReadQuestions, TypeInv, SurveyInv
  <2>2. CASE Shown(w, s) = 0
    BY <1>2, <1>idle, <2>2 DEF ReadQuestions, WriteKind
  <2>3. CASE Shown(w, s) # 0
    <3>1. PICK k \in Kinds :
              write' = [write EXCEPT ![w] = [@ EXCEPT !.pc = "ready", !.kind = k,
                                                      !.questions = questions]]
      BY <1>2, <2>3 DEF ReadQuestions
    <3> DEFINE after == [write[w] EXCEPT !.pc = "ready", !.kind = k, !.questions = questions]
    <3>2. questions \in Nat
      BY <2>1, <2>3, ShownVersions DEF Definition
    <3> HIDE DEF questions
    <3>3. after \in WriteStates
      BY <2>1, <3>2 DEF WriteStates, Maybe
    <3>4. /\ after.pc = "ready" /\ after.questions = questions /\ after.survey = s
          /\ after.expected = write[w].expected /\ after.settings = write[w].settings
      BY <2>1 DEF WriteStates
    <3>5. write' = [write EXCEPT ![w] = after]
      BY <3>1
    <3> HIDE DEF after
    <3>6. Reads(w, after)
      BY <2>1, <2>3, <3>4 DEF Reads, SameEdit, questions
    <3> QED BY <3>3, <3>5, <3>6 DEF WriteKind
  <2> QED BY <2>2, <2>3
<1>3. ASSUME PutSurvey PROVE WriteKind
  <2> DEFINE e == write["node"]
             after == [e EXCEPT !.pc = "checked", !.by = token]
  <2>1. /\ e.pc = "ready" /\ e \in WriteStates /\ UNCHANGED <<cloud, local>>
        /\ \/ write' = [write EXCEPT !["node"] = NoWrite]
           \/ /\ token # None /\ owner[e.survey] = token
              /\ write' = [write EXCEPT !["node"] = after]
    BY <1>3, <1>types DEF PutSurvey, Writers
  <2>2. after \in WriteStates
    BY <1>types, <2>1 DEF WriteStates
  <2>3. /\ after.pc = "checked" /\ after.by = token /\ after.survey = e.survey
        /\ after.expected = e.expected /\ after.settings = e.settings
        /\ after.questions = e.questions
    BY <2>1 DEF WriteStates
  <2> HIDE DEF after
  <2>4. token # None /\ owner[e.survey] = token => Checks("node", after)
    BY <2>1, <2>3 DEF Checks, SameEdit
  <2> HIDE DEF e
  <2> QED BY <1>idle, <2>1, <2>2, <2>4 DEF WriteKind, Writers
<1>4. ASSUME NEW w \in Writers, ChangeDefinition(w) PROVE WriteKind
  <2> DEFINE e == write[w]
             s == e.survey
             seq == IF owner[s] = None THEN 0 ELSE NextSeq
             after == [e EXCEPT !.pc = "locked", !.seq = seq]
  <2>1. /\ e.pc = (IF w = "web" THEN "ready" ELSE "checked") /\ SurveyFree(s)
        /\ UNCHANGED <<cloud, local>>
        /\ \/ write' = [write EXCEPT ![w] = NoWrite]
           \/ /\ Exists(s) /\ Version(s) = e.expected /\ (owner[s] = None \/ ClockFree)
              /\ write' = [write EXCEPT ![w] = after]
    BY <1>4 DEF ChangeDefinition, VersionConflict
  <2>2. seq \in Nat /\ e \in WriteStates
    BY <1>types DEF NextSeq, TypeOK, Clock
  <2>a. seq = IF owner[s] = None THEN 0 ELSE NextSeq
    OBVIOUS
  <2> HIDE DEF seq
  <2>3. after \in WriteStates
    BY <2>2 DEF WriteStates
  <2>4. /\ after.pc = "locked" /\ after.seq = seq /\ after.survey = s
        /\ after.expected = e.expected /\ after.settings = e.settings
        /\ after.questions = e.questions /\ after.by = e.by
    BY <2>2 DEF WriteStates
  <2> HIDE DEF after
  <2>5. CASE write' = [write EXCEPT ![w] = NoWrite]
    BY <1>idle, <2>5 DEF WriteKind
  <2>6. CASE /\ Exists(s) /\ Version(s) = e.expected /\ (owner[s] = None \/ ClockFree)
             /\ write' = [write EXCEPT ![w] = after]
    <3>1. Locks(w, after)
      BY <2>1, <2>4, <2>6, <2>a DEF Locks, SameEdit
    <3> QED BY <2>3, <2>6, <3>1 DEF WriteKind
  <2> QED BY <2>1, <2>5, <2>6
<1>5. ASSUME NEW w \in Writers, CommitChange(w) PROVE WriteKind
  <2>a. write[w].pc = "locked"
    BY <1>5 DEF CommitChange
  <2>b. PICK s \in Surveys : s = write[w].survey /\ Exists(s)
    BY <2>a DEF TypeInv, SurveyInv, LockInv
  <2>c. PICK definition \in Definition : definition = Lifecycle(write[w])
    BY <1>types, <2>b, LifecycleType
  <2>d. PICK version \in Nat : version = Version(s) + 1
    BY <1>types
  <2> DEFINE after == [NoWrite EXCEPT !.pc = "replied", !.survey = s, !.expected = version]
  <2>1. /\ RecordVersion(s, definition, write[w].seq) /\ UNCHANGED <<owner, local>>
        /\ write' = [write EXCEPT ![w] = IF w = "web" THEN NoWrite ELSE after]
    BY <1>5, <2>b, <2>c, <2>d DEF CommitChange
  <2>3. CASE w = "web"
    BY <1>idle, <2>1, <2>3 DEF WriteKind
  <2>4. CASE w # "web"
    <3>1. after \in WriteStates
      BY DEF NoWrite, WriteStates, Maybe
    <3>2. after.pc = "replied" /\ after.survey = s /\ after.expected = version
      BY DEF NoWrite
    <3>3. version \in 1 .. Len(revision'[s])
      <4>1. Appended(s, definition)
        BY <2>1 DEF RecordVersion, Appended
      <4>2. Version(s)' = version
        BY <1>types, <2>d, <4>1, AppendedTypes
      <4> QED BY <1>types, <2>d, <4>2 DEF Version
    <3>4. owner'[s] # None /\ w = "node"
      BY <2>1, <2>4, <2>a, <2>b DEF TypeInv, KnownInv, Writers
    <3> HIDE DEF after
    <3>5. Replies(w, after)
      BY <2>1, <3>2, <3>3, <3>4 DEF Replies
    <3> QED BY <2>1, <2>4, <3>1, <3>5 DEF WriteKind
  <2> QED BY <2>3, <2>4
<1>6. ASSUME NEW w \in Writers, AbortChange(w) PROVE WriteKind
  BY <1>idle, <1>6 DEF AbortChange, WriteKind
<1>7. ASSUME NEW s \in Surveys, NodeCreateSurvey(s) PROVE WriteKind
  <2> DEFINE version == IF Exists(s) THEN Version(s) ELSE 1
             after == [NoWrite EXCEPT !.pc = "replied", !.survey = s, !.expected = version]
  <2>1. /\ write' = [write EXCEPT !["node"] = after] /\ token # None /\ UNCHANGED local
        /\ IF Exists(s) THEN owner[s] = token /\ UNCHANGED <<owner, revision>>
           ELSE owner' = [owner EXCEPT ![s] = token] /\ RecordVersion(s, NewDraft(0), NextSeq)
    BY <1>7 DEF NodeCreateSurvey
  <2>2. version \in Nat
    BY <1>types
  <2>3. owner'[s] # None
    BY <2>1 DEF TypeInv, TypeOK
  <2>4. version \in 1 .. Len(revision'[s])
    <3>1. CASE Exists(s)
      BY <1>types, <2>1, <3>1 DEF Exists, Version
    <3>2. CASE ~Exists(s)
      <4>1. NewDraft(0) \in Definition
        BY DEF NewDraft, Definition, Maybe
      <4>2. Version(s)' = Version(s) + 1
        BY <1>types, <2>1, <3>2, <4>1, AppendedTypes DEF RecordVersion, Appended
      <4> QED BY <1>types, <3>2, <4>2 DEF Version
    <3> QED BY <3>1, <3>2
  <2> HIDE DEF version
  <2>5. after \in WriteStates
    BY <2>2 DEF NoWrite, WriteStates, Maybe
  <2>6. after.pc = "replied" /\ after.survey = s /\ after.expected = version
    BY DEF NoWrite
  <2> HIDE DEF after
  <2>7. Replies("node", after)
    BY <2>1, <2>3, <2>4, <2>6 DEF Replies
  <2> QED BY <2>1, <2>5, <2>7 DEF WriteKind, Writers
<1>8. CASE ApplyReply \/ LoseReply \/ NodeCrash
  <2>1. write' = [write EXCEPT !["node"] = NoWrite]
    BY <1>8 DEF ApplyReply, LoseReply, NodeCrash
  <2> QED BY <1>idle, <2>1 DEF WriteKind, Writers
<1>9. CASE \/ \E s \in Surveys, q \in 0..1 : CreateSurvey(s, q)
           \/ \E s \in Surveys, d \in Devices : AssignSurveyToNode(s, d)
           \/ (\E s \in Surveys : DeleteDraft(s)) \/ PruneSurveyChanges \/ Registration
           \/ SyncSteps \/ SyncFails \/ Linking \/ ResetLink \/ UNCHANGED vars
  <2>1. UNCHANGED write
    BY <1>9 DEF CreateSurvey, AssignSurveyToNode, DeleteDraft, PruneSurveyChanges, Registration,
                PreviewDataset, PostDataset, LoseDatasetReply, BindDataset, SyncSteps, SyncFails,
                StartSync, OpenClient, SnapshotClock, SnapshotDefinitions, ChangesClock,
                ChangesRows, Gone, ApplyPage, Linking, SaveToken, DeleteToken, ResetLink, vars
  <2> QED BY <2>1 DEF WriteKind
<1> QED BY <1>1, <1>2, <1>3, <1>4, <1>5, <1>6, <1>7, <1>8, <1>9
        DEF Next, Edit, FinishEdit, CloudSteps

\* What a step does to the registration of a tab.
Answers(t, after) ==
    /\ after.pc = "replied" /\ after.survey \in External
    /\ owner'[after.survey] # None /\ after.version \in 1 .. Len(revision'[after.survey])
    /\ revision'[after.survey][after.version].source = after.source

RegKind ==
    \/ UNCHANGED reg
    \/ reg' = [t \in Tabs |-> NoReg]
    \/ \E t \in Tabs, after \in RegStates :
           /\ reg' = [reg EXCEPT ![t] = after]
           /\ \/ after.pc = "idle" \/ (after.pc = "form" /\ after.survey \in External)
              \/ Answers(t, after)

LEMMA RegKinds ==
    ASSUME TypeInv, [Next]_vars
    PROVE  RegKind
<1>types. /\ TypeOK /\ reg \in [Tabs -> RegStates] /\ token \in Maybe(Devices) /\ link \in Link
          /\ \A s \in Surveys : Version(s) \in Nat /\ s \in Surveys /\ local[s] \in Copy
  BY RevisionTypes DEF TypeInv, TypeOK
<1>idle. NoReg \in RegStates /\ NoReg.pc = "idle"
  BY InitialTypes
<1>1. ASSUME NEW t \in Tabs, NEW s \in Surveys, NEW source \in Sources, PreviewDataset(t, s, source)
      PROVE  RegKind
  <2> DEFINE expected == local[s].version
             gen == link.generation
             after == [NoReg EXCEPT !.pc = "form", !.survey = s, !.source = source,
                                    !.expected = expected, !.gen = gen]
  <2>1. reg' = [reg EXCEPT ![t] = after] /\ s \in External
    BY <1>1 DEF PreviewDataset
  <2>2. expected \in Nat /\ gen \in Nat
    BY <1>types DEF Copy, Link
  <2> HIDE DEF expected, gen
  <2>3. after \in RegStates /\ after.pc = "form" /\ after.survey = s
    BY <2>2 DEF NoReg, RegStates, Maybe
  <2> HIDE DEF after
  <2> QED BY <2>1, <2>3 DEF RegKind
<1>2. ASSUME NEW t \in Tabs, PostDataset(t) PROVE RegKind
  <2>1. reg[t].pc = "form"
    BY <1>2 DEF PostDataset
  <2>2. PICK s \in Surveys : s = reg[t].survey /\ s \in External
    BY <2>1, ExternalAssumption DEF TypeInv, SurveyInv
  <2>3. PICK source \in Maybe(Sources) : source = reg[t].source
    BY <1>types DEF RegStates
  <2>4. PICK version \in Nat : version = Version(s)
    BY <1>types
  <2> DEFINE next == version + 1
             same == [reg[t] EXCEPT !.pc = "replied", !.version = version]
             new == [reg[t] EXCEPT !.pc = "replied", !.version = next]
  <2>5. \/ reg' = [reg EXCEPT ![t] = NoReg]
        \/ /\ Exists(s) /\ Live(s).source = source /\ owner[s] # None
           /\ reg' = [reg EXCEPT ![t] = same] /\ UNCHANGED <<owner, revision>>
        \/ /\ token # None /\ owner' = [owner EXCEPT ![s] = token]
           /\ RecordVersion(s, Registered(s, source), NextSeq)
           /\ reg' = [reg EXCEPT ![t] = new]
    BY <1>2, <2>2, <2>3, <2>4
       DEF PostDataset, Answered, Closed, RegistrationRefused, TypeInv, SurveyInv
  <2>6. /\ same \in RegStates /\ same.pc = "replied" /\ same.survey = s /\ same.source = source
        /\ same.version = version
    BY <1>types, <2>2, <2>3, <2>4 DEF RegStates
  <2>7. next \in Nat
    OBVIOUS
  <2> HIDE DEF next
  <2>8. /\ new \in RegStates /\ new.pc = "replied" /\ new.survey = s /\ new.source = source
        /\ new.version = next
    BY <1>types, <2>2, <2>3, <2>7 DEF RegStates
  <2> HIDE DEF same, new
  <2>9. CASE reg' = [reg EXCEPT ![t] = NoReg]
    BY <1>idle, <2>9 DEF RegKind
  <2>10. CASE /\ Exists(s) /\ Live(s).source = source /\ owner[s] # None
              /\ reg' = [reg EXCEPT ![t] = same] /\ UNCHANGED <<owner, revision>>
    <3>1. version \in 1 .. Len(revision[s]) /\ revision[s][version].source = source
      BY <2>4, <2>10 DEF Exists, Version, Live
    <3>2. Answers(t, same)
      BY <2>2, <2>6, <2>10, <3>1 DEF Answers
    <3> QED BY <2>6, <2>10, <3>2 DEF RegKind
  <2>11. CASE /\ token # None /\ owner' = [owner EXCEPT ![s] = token]
              /\ RecordVersion(s, Registered(s, source), NextSeq)
              /\ reg' = [reg EXCEPT ![t] = new]
    <3>0. PICK definition : definition = Registered(s, source)
      OBVIOUS
    <3>1. definition \in Definition /\ definition.source = source
      <4> DEFINE v == Version(s) + 1
                 published == IF Exists(s) THEN Live(s).published ELSE v
      <4>1. v \in Nat /\ published \in Nat
        BY <1>types, RevisionTypes DEF Definition
      <4>2. Registered(s, source) = [questions |-> 1, settings |-> 1, source |-> source,
                                     published |-> published, analysis |-> v]
        BY DEF Registered
      <4> HIDE DEF v, published
      <4> QED BY <2>3, <3>0, <4>1, <4>2 DEF Definition
    <3>2. Appended(s, definition)
      BY <2>11, <3>0 DEF RecordVersion, Appended
    <3>3. Version(s)' = next /\ revision'[s][next] = definition
      BY <1>types, <2>4, <3>1, <3>2, AppendedTypes DEF next
    <3>4. owner'[s] # None /\ next \in 1 .. Len(revision'[s])
      BY <1>types, <2>4, <2>11, <3>3 DEF Version, TypeOK, next
    <3>5. Answers(t, new)
      BY <2>2, <2>8, <3>1, <3>3, <3>4 DEF Answers
    <3> QED BY <2>8, <2>11, <3>5 DEF RegKind
  <2> QED BY <2>5, <2>9, <2>10, <2>11
<1>3. ASSUME NEW t \in Tabs, LoseDatasetReply(t) PROVE RegKind
  <2> DEFINE after == [reg[t] EXCEPT !.pc = "form", !.version = 0]
  <2>1. reg' = [reg EXCEPT ![t] = after] /\ reg[t].survey \in External
    BY <1>3 DEF LoseDatasetReply, TypeInv, SurveyInv
  <2>2. after \in RegStates /\ after.pc = "form" /\ after.survey = reg[t].survey
    BY <1>types DEF RegStates
  <2> HIDE DEF after
  <2> QED BY <2>1, <2>2 DEF RegKind
<1>4. ASSUME NEW t \in Tabs, BindDataset(t) PROVE RegKind
  BY <1>4, <1>idle DEF BindDataset, Closed, RegKind
<1>5. CASE NodeCrash
  BY <1>5 DEF NodeCrash, RegKind
<1>6. CASE \/ Edit \/ FinishEdit \/ CloudSteps \/ SyncSteps \/ SyncFails \/ Linking \/ ResetLink
           \/ UNCHANGED vars
  <2>1. UNCHANGED reg
    BY <1>6 DEF Edit, FinishEdit, CloudSteps, OpenForm, ReadQuestions, AbortChange, LoseReply,
                PutSurvey, ApplyReply, ChangeDefinition, CommitChange,
                CreateSurvey, AssignSurveyToNode, DeleteDraft, NodeCreateSurvey,
                PruneSurveyChanges, SyncSteps, SyncFails,
                StartSync, OpenClient, SnapshotClock, SnapshotDefinitions, ChangesClock,
                ChangesRows, Gone, ApplyPage, Linking, SaveToken, DeleteToken, ResetLink, vars
  <2> QED BY <2>1 DEF RegKind
<1> QED BY <1>1, <1>2, <1>3, <1>4, <1>5, <1>6 DEF Next, Registration

\* What a step does to the node's copy of survey s: a newer version of it, or the data set of a
\* registration, whose version the copy has by then.
LocalKind(s) ==
    \/ local'[s] = local[s]
    \/ /\ UNCHANGED cloud /\ local'[s] \in Copy
       /\ \E v \in Nat : /\ Known(s, v) /\ v >= local[s].version /\ local'[s].version = v
                         /\ \/ local'[s].source = revision[s][v].source
                            \/ \E t \in Tabs : /\ reg[t].pc = "replied" /\ reg[t].survey = s
                                               /\ reg[t].version = v
                                               /\ local'[s].source = reg[t].source

LEMMA UpsertedCopy ==
    ASSUME TypeInv, NEW s \in Surveys, NEW v \in Nat, Known(s, v)
    PROVE  /\ Upserted(s, v) \in Copy
           /\ Upserted(s, v) = local[s] \/ /\ Upserted(s, v).version = v /\ v > local[s].version
                                           /\ Upserted(s, v).source = revision[s][v].source
           /\ Upserted(s, v).version >= v /\ Upserted(s, v).version >= local[s].version
<1>1. local[s] \in Copy /\ local[s].version \in Nat
  BY DEF TypeInv, TypeOK, Copy
<1>2. revision[s][v].source \in Maybe(Sources)
  BY RevisionTypes DEF TypeInv, Known, Definition
<1> QED BY <1>1, <1>2 DEF Upserted, Newer, Copy

LEMMA LocalKinds ==
    ASSUME TypeInv, [Next]_vars
    PROVE  (\A s \in Surveys : LocalKind(s)) /\ local' \in [Surveys -> Copy]
<1>types. /\ TypeOK /\ local \in [Surveys -> Copy] /\ reg \in [Tabs -> RegStates]
          /\ write \in [Writers -> WriteStates] /\ sync \in SyncStates
          /\ \A s \in Surveys : local[s].version \in Nat /\ Version(s) \in Nat
  BY RevisionTypes DEF TypeInv, TypeOK, Copy
<1>1. CASE ApplyReply
  <2>1. write["node"].pc = "replied" /\ UNCHANGED cloud
    BY <1>1 DEF ApplyReply
  <2>2. PICK u \in Surveys, v \in Nat : u = write["node"].survey /\ v = write["node"].expected
    BY <1>types, <2>1 DEF TypeInv, SurveyInv, Writers, WriteStates
  <2>3. local' = [local EXCEPT ![u] = Upserted(u, v)] /\ Known(u, v)
    BY <1>1, <2>1, <2>2 DEF ApplyReply, TypeInv, KnownInv
  <2>4. LocalKind(u) /\ local' \in [Surveys -> Copy]
    BY <1>types, <2>1, <2>3, UpsertedCopy DEF LocalKind
  <2> QED BY <1>types, <2>3, <2>4 DEF LocalKind
<1>2. ASSUME NEW t \in Tabs, BindDataset(t)
      PROVE  (\A s \in Surveys : LocalKind(s)) /\ local' \in [Surveys -> Copy]
  <2>1. reg[t].pc = "replied" /\ UNCHANGED cloud
    BY <1>2 DEF BindDataset
  <2>2. PICK u \in Surveys, v \in Nat : u = reg[t].survey /\ v = reg[t].version
    BY <1>types, <2>1, ExternalAssumption DEF TypeInv, SurveyInv, RegStates
  <2>3. PICK source \in Maybe(Sources) : source = reg[t].source
    BY <1>types DEF RegStates
  <2> DEFINE copy == Upserted(u, v)
             bound == [copy EXCEPT !.source = source]
  <2>4. /\ Known(u, v)
        /\ \/ UNCHANGED local
           \/ copy.version = v /\ local' = [local EXCEPT ![u] = bound]
    BY <1>2, <2>1, <2>2, <2>3 DEF BindDataset, TypeInv, KnownInv
  <2>5. copy \in Copy /\ copy.version >= local[u].version
    BY <2>4, UpsertedCopy
  <2> HIDE DEF copy
  <2>6. bound \in Copy /\ bound.version = copy.version /\ bound.source = source
    BY <2>5 DEF Copy
  <2> HIDE DEF bound
  <2>7. LocalKind(u) /\ local' \in [Surveys -> Copy]
    BY <1>types, <2>1, <2>2, <2>3, <2>4, <2>5, <2>6 DEF LocalKind
  <2> QED BY <1>types, <2>4, <2>7 DEF LocalKind
<1>3. CASE ApplyPage
  <2>1. UNCHANGED cloud /\ (UNCHANGED local \/ local' = [s \in Surveys |-> Applied(s)])
    BY <1>3 DEF ApplyPage
  <2>2. ASSUME NEW s \in Surveys PROVE LocalKind(s) /\ local'[s] \in Copy
    <3> DEFINE versions == {p.version : p \in {p \in sync.page : p.survey = s}}
    <3>1. CASE UNCHANGED local \/ versions = {}
      BY <1>types, <2>1, <3>1 DEF LocalKind, Applied
    <3>2. CASE local' = [u \in Surveys |-> Applied(u)] /\ versions # {}
      <4>1. \A v \in versions : Known(s, v) /\ v \in 0 .. Version(s)
        <5>1. \A p \in sync.page : Known(p.survey, p.version) /\ p.version \in Nat
          BY <1>types DEF TypeInv, KnownInv, SyncStates
        <5> QED BY <1>types, <5>1 DEF Known
      <4>2. Max(versions) \in versions
        BY <1>types, <3>2, <4>1, MaxType
      <4>3. Max(versions) \in Nat /\ Known(s, Max(versions))
        BY <1>types, <4>1, <4>2
      <4>4. local'[s] = Upserted(s, Max(versions))
        BY <3>2 DEF Applied
      <4> HIDE DEF versions
      <4> QED BY <1>types, <2>1, <4>3, <4>4, UpsertedCopy DEF LocalKind
    <3> QED BY <2>1, <3>1, <3>2
  <2>3. local' \in [Surveys -> Copy]
    BY <1>types, <2>1, <2>2
  <2> QED BY <2>2, <2>3
<1>4. CASE \/ Edit \/ PutSurvey \/ (\E w \in Writers : ChangeDefinition(w) \/ CommitChange(w))
           \/ CloudSteps
           \/ (\E t \in Tabs : \/ \E s \in Surveys, source \in Sources : PreviewDataset(t, s, source)
                               \/ PostDataset(t) \/ LoseDatasetReply(t))
           \/ StartSync \/ OpenClient \/ SnapshotClock \/ SnapshotDefinitions
           \/ ChangesClock \/ ChangesRows \/ Gone
           \/ SyncFails \/ Linking \/ ResetLink \/ NodeCrash \/ UNCHANGED vars
  <2>1. UNCHANGED local
    BY <1>4 DEF Edit, CloudSteps, OpenForm, ReadQuestions, AbortChange, LoseReply,
                PutSurvey, ChangeDefinition, CommitChange,
                CreateSurvey, AssignSurveyToNode, DeleteDraft, NodeCreateSurvey,
                PruneSurveyChanges, PreviewDataset, PostDataset, LoseDatasetReply, SyncFails,
                StartSync, OpenClient, SnapshotClock, SnapshotDefinitions, ChangesClock,
                ChangesRows, Gone, Linking, SaveToken, DeleteToken, ResetLink, NodeCrash, vars
  <2> QED BY <1>types, <2>1 DEF LocalKind
<1> QED BY <1>1, <1>2, <1>3, <1>4 DEF Next, FinishEdit, Registration, SyncSteps

\* A page of changes, in the order of their numbers.
RowsRead == {c \in changes : c.seq > sync.cursor.seq /\ owner[c.survey] = sync.by}
UpTo(c) == {d \in RowsRead : d.seq <= c.seq}
PageRead == {c \in RowsRead : Cardinality(UpTo(c)) <= PageSize}

LEMMA PageBounds ==
    ASSUME TypeInv
    PROVE  /\ PageRead \subseteq RowsRead /\ RowsRead \subseteq changes
           /\ PageRead # {} => /\ Max({c.seq : c \in PageRead}) \in {c.seq : c \in PageRead}
                               /\ \A c \in PageRead : c.seq <= Max({d.seq : d \in PageRead})
<1>1. PageRead \subseteq RowsRead /\ RowsRead \subseteq changes
  BY DEF PageRead, RowsRead
<1> DEFINE seqs == {c.seq : c \in PageRead}
<1>2. clock.value \in Nat /\ \A c \in changes : c.seq \in 0 .. clock.value
  BY DEF TypeInv, TypeOK, Clock, Change, ClockInv
<1>3. seqs \in SUBSET (0 .. clock.value) /\ (PageRead # {} => seqs # {})
  BY <1>1, <1>2
<1>4. PageRead # {} => Max(seqs) \in seqs /\ \A n \in seqs : n <= Max(seqs)
  BY <1>2, <1>3, MaxType
<1> QED BY <1>1, <1>4

\* What a step does to the sync and to the link.
Begins ==
    /\ sync'.pc = "linked" /\ sync'.gen = link.generation /\ sync'.cursor = link.cursor
    /\ sync'.page = {} /\ UNCHANGED link
SamePage == sync'.gen = sync.gen /\ sync'.page = sync.page /\ sync'.by = sync.by
Connects ==
    /\ sync.pc = "linked" /\ sync'.pc \in {"snapshot", "changes"}
    /\ sync'.gen = sync.gen /\ sync'.page = sync.page /\ sync'.by # None
    /\ sync'.cursor = sync.cursor /\ UNCHANGED link
ReadsClock ==
    /\ sync.pc = "snapshot" /\ sync'.pc = "definitions" /\ sync'.read = clock.value
    /\ SamePage /\ sync'.cursor = sync.cursor /\ UNCHANGED link
ListsAll ==
    /\ sync.pc = "definitions" /\ sync'.pc = "apply" /\ sync'.gen = sync.gen /\ sync'.by = sync.by
    /\ sync'.page = {[survey |-> s, version |-> Version(s)] :
                         s \in {s \in Surveys : Exists(s) /\ owner[s] = sync.by}}
    /\ sync'.next = Cursor(sync.by, sync.read)
    /\ sync'.cursor = sync.cursor /\ UNCHANGED link
ChecksCursor ==
    /\ sync.pc = "changes" /\ (sync'.pc = "gone" \/ (sync'.pc = "rows" /\ ~CursorInvalid))
    /\ SamePage /\ sync'.cursor = sync.cursor /\ UNCHANGED link
ListsChanges ==
    /\ sync.pc = "rows" /\ sync'.pc = "apply" /\ sync'.gen = sync.gen /\ sync'.by = sync.by
    /\ sync'.page = {[survey |-> c.survey, version |-> c.version] : c \in PageRead}
    /\ sync'.next = Cursor(sync.by, IF PageRead = {} THEN sync.cursor.seq
                                    ELSE Max({c.seq : c \in PageRead}))
    /\ sync'.cursor = sync.cursor /\ UNCHANGED link
StartsOver ==
    /\ sync.pc = "gone" /\ Current /\ sync'.pc = "snapshot" /\ SamePage
    /\ sync'.cursor = NoCursor /\ link'.cursor = NoCursor /\ link'.generation = link.generation
Applies ==
    /\ sync.pc = "apply" /\ Current /\ local' = [s \in Surveys |-> Applied(s)]
    /\ link'.cursor = sync.next /\ link'.generation = link.generation
    /\ \/ sync' = NoSync
       \/ /\ sync'.pc = "changes" /\ sync'.gen = sync.gen /\ sync'.by = sync.by
          /\ sync'.cursor = sync.next /\ sync'.page = {}

SyncKind ==
    \/ UNCHANGED <<sync, link>>
    \/ sync' = NoSync /\ UNCHANGED link
    \/ /\ UNCHANGED <<sync, cloud, local>>
       /\ link'.generation = link.generation + 1 /\ link'.cursor = NoCursor
    \/ /\ UNCHANGED cloud
       /\ \/ UNCHANGED local /\ \/ Begins \/ Connects \/ ReadsClock \/ ListsAll
                                \/ ChecksCursor \/ ListsChanges \/ StartsOver
          \/ Applies

LEMMA SyncKinds ==
    ASSUME TypeInv, [Next]_vars
    PROVE  SyncKind /\ sync' \in SyncStates /\ link' \in Link
<1>types. /\ TypeOK /\ sync \in SyncStates /\ link \in Link /\ token \in Maybe(Devices)
          /\ clock \in Clock /\ connect \in Maybe(Devices \union {"disconnect"})
          /\ \A s \in Surveys : Version(s) \in Nat
  BY RevisionTypes DEF TypeInv, TypeOK
<1>idle. NoSync \in SyncStates /\ NoCursor \in CursorType
  BY InitialTypes
<1>1. CASE StartSync
  <2> DEFINE gen == link.generation
             cursor == link.cursor
  <2>1. sync' = [NoSync EXCEPT !.pc = "linked", !.gen = gen, !.cursor = cursor]
        /\ UNCHANGED <<cloud, link, local>>
    BY <1>1 DEF StartSync
  <2>2. gen \in Nat /\ cursor \in CursorType
    BY <1>types DEF Link
  <2> HIDE DEF gen, cursor
  <2>3. sync' \in SyncStates
    BY <1>idle, <2>1, <2>2 DEF SyncStates
  <2>4. /\ sync'.pc = "linked" /\ sync'.gen = gen /\ sync'.cursor = cursor /\ sync'.page = NoSync.page
    BY <2>1 DEF NoSync
  <2>5. Begins
    BY <2>1, <2>4, InitialTypes DEF Begins, gen, cursor
  <2> QED BY <1>types, <2>1, <2>3, <2>5 DEF SyncKind
<1>2. CASE OpenClient
  <2> DEFINE pc == IF sync.cursor = NoCursor THEN "snapshot" ELSE "changes"
             after == [sync EXCEPT !.by = token, !.pc = pc]
  <2>1. /\ sync.pc = "linked" /\ UNCHANGED <<cloud, link, local>>
        /\ sync' = NoSync \/ (token # None /\ sync' = after)
    BY <1>2 DEF OpenClient
  <2>2. pc \in {"snapshot", "changes"}
    OBVIOUS
  <2> HIDE DEF pc
  <2>3. /\ after \in SyncStates /\ after.pc = pc /\ after.by = token /\ after.gen = sync.gen
        /\ after.page = sync.page /\ after.cursor = sync.cursor
    BY <1>types, <2>2 DEF SyncStates
  <2> HIDE DEF after
  <2>4. CASE sync' = NoSync
    BY <1>types, <1>idle, <2>1, <2>4 DEF SyncKind
  <2>5. CASE token # None /\ sync' = after
    <3>1. Connects
      BY <2>1, <2>2, <2>3, <2>5 DEF Connects
    <3> QED BY <1>types, <2>1, <2>3, <2>5, <3>1 DEF SyncKind
  <2> QED BY <2>1, <2>4, <2>5
<1>3. CASE SnapshotClock
  <2> DEFINE read == clock.value
  <2>1. /\ sync.pc = "snapshot" /\ UNCHANGED <<cloud, link, local>>
        /\ sync' = [sync EXCEPT !.pc = "definitions", !.read = read]
    BY <1>3 DEF SnapshotClock
  <2>2. read \in Nat
    BY <1>types DEF Clock
  <2> HIDE DEF read
  <2>3. /\ sync' \in SyncStates /\ sync'.pc = "definitions" /\ sync'.read = read
        /\ sync'.gen = sync.gen /\ sync'.page = sync.page /\ sync'.by = sync.by
        /\ sync'.cursor = sync.cursor
    BY <1>types, <2>1, <2>2 DEF SyncStates
  <2>4. ReadsClock
    BY <2>1, <2>3 DEF ReadsClock, SamePage, read
  <2> QED BY <1>types, <2>1, <2>3, <2>4 DEF SyncKind
<1>4. CASE SnapshotDefinitions
  <2> DEFINE page == {[survey |-> s, version |-> Version(s)] :
                          s \in {s \in Surveys : Exists(s) /\ owner[s] = sync.by}}
             next == Cursor(sync.by, sync.read)
  <2>1. /\ sync.pc = "definitions" /\ UNCHANGED <<cloud, link, local>>
        /\ sync' = [sync EXCEPT !.pc = "apply", !.more = FALSE, !.page = page, !.next = next]
    BY <1>4 DEF SnapshotDefinitions
  <2>2. page \in SUBSET [survey : Surveys, version : Nat] /\ next \in CursorType
    BY <1>types DEF Cursor, CursorType, SyncStates
  <2> HIDE DEF page, next
  <2>3. /\ sync' \in SyncStates /\ sync'.pc = "apply" /\ sync'.page = page /\ sync'.next = next
        /\ sync'.gen = sync.gen /\ sync'.by = sync.by /\ sync'.cursor = sync.cursor
    BY <1>types, <2>1, <2>2 DEF SyncStates
  <2>4. ListsAll
    BY <2>1, <2>3 DEF ListsAll, page, next
  <2> QED BY <1>types, <2>1, <2>3, <2>4 DEF SyncKind
<1>5. CASE ChangesClock
  <2> DEFINE pc == IF CursorInvalid THEN "gone" ELSE "rows"
  <2>1. /\ sync.pc = "changes" /\ UNCHANGED <<cloud, link, local>>
        /\ sync' = [sync EXCEPT !.pc = pc]
    BY <1>5 DEF ChangesClock
  <2>2. pc = "gone" \/ (pc = "rows" /\ ~CursorInvalid)
    OBVIOUS
  <2> HIDE DEF pc
  <2>3. /\ sync' \in SyncStates /\ sync'.pc = pc
        /\ sync'.gen = sync.gen /\ sync'.page = sync.page /\ sync'.by = sync.by
        /\ sync'.cursor = sync.cursor
    BY <1>types, <2>1, <2>2 DEF SyncStates
  <2>4. ChecksCursor
    BY <2>1, <2>2, <2>3 DEF ChecksCursor, SamePage
  <2> QED BY <1>types, <2>1, <2>3, <2>4 DEF SyncKind
<1>6. CASE ChangesRows
  <2> DEFINE page == {[survey |-> c.survey, version |-> c.version] : c \in PageRead}
             last == IF PageRead = {} THEN sync.cursor.seq ELSE Max({c.seq : c \in PageRead})
             next == Cursor(sync.by, last)
             more == PageRead # RowsRead
  <2>1. /\ sync.pc = "rows" /\ UNCHANGED <<cloud, link, local>>
        /\ sync' = [sync EXCEPT !.pc = "apply", !.more = more, !.page = page, !.next = next]
    BY <1>6 DEF ChangesRows, PageRead, RowsRead, UpTo
  <2>2. page \in SUBSET [survey : Surveys, version : Nat]
    BY <1>types, PageBounds DEF TypeOK, Change
  <2>3. last \in Nat
    <3>1. \A c \in PageRead : c.seq \in Nat
      BY <1>types, PageBounds DEF TypeOK, Change
    <3>2. sync.cursor.seq \in Nat
      BY <1>types DEF SyncStates, CursorType
    <3> QED BY <3>1, <3>2, PageBounds
  <2>a. last = IF PageRead = {} THEN sync.cursor.seq ELSE Max({c.seq : c \in PageRead})
    OBVIOUS
  <2> HIDE DEF last
  <2>4. next \in CursorType /\ more \in BOOLEAN
    BY <1>types, <2>3 DEF Cursor, CursorType, SyncStates
  <2>b. next = Cursor(sync.by, last)
    OBVIOUS
  <2> HIDE DEF page, next, more
  <2>5. /\ sync' \in SyncStates /\ sync'.pc = "apply" /\ sync'.page = page /\ sync'.next = next
        /\ sync'.gen = sync.gen /\ sync'.by = sync.by /\ sync'.cursor = sync.cursor
    BY <1>types, <2>1, <2>2, <2>4 DEF SyncStates
  <2>6. ListsChanges
    BY <2>1, <2>5, <2>a, <2>b DEF ListsChanges, page
  <2> QED BY <1>types, <2>1, <2>5, <2>6 DEF SyncKind
<1>7. CASE Gone
  <2> DEFINE after == [sync EXCEPT !.pc = "snapshot", !.cursor = NoCursor]
             linked == [link EXCEPT !.cursor = NoCursor]
  <2>1. /\ sync.pc = "gone" /\ UNCHANGED <<cloud, local>>
        /\ \/ Current /\ link' = linked /\ sync' = after
           \/ sync' = NoSync /\ UNCHANGED link
    BY <1>7 DEF Gone
  <2>2. /\ after \in SyncStates /\ after.pc = "snapshot" /\ after.cursor = NoCursor
        /\ after.gen = sync.gen /\ after.page = sync.page /\ after.by = sync.by
    BY <1>types, <1>idle DEF SyncStates
  <2>3. linked \in Link /\ linked.cursor = NoCursor /\ linked.generation = link.generation
    BY <1>types, <1>idle DEF Link
  <2> HIDE DEF after, linked
  <2>4. CASE Current /\ link' = linked /\ sync' = after
    <3>1. StartsOver
      BY <2>1, <2>2, <2>3, <2>4 DEF StartsOver, SamePage
    <3> QED BY <2>1, <2>2, <2>3, <2>4, <3>1 DEF SyncKind
  <2>5. CASE sync' = NoSync /\ UNCHANGED link
    BY <1>types, <1>idle, <2>5 DEF SyncKind
  <2> QED BY <2>1, <2>4, <2>5
<1>8. CASE ApplyPage
  <2> DEFINE next == sync.next
             after == [sync EXCEPT !.pc = "changes", !.cursor = next, !.page = NoPage,
                                   !.next = NoCursor, !.more = FALSE]
             linked == [link EXCEPT !.cursor = next]
  <2>1. /\ sync.pc = "apply" /\ UNCHANGED cloud
        /\ \/ /\ Current /\ local' = [s \in Surveys |-> Applied(s)]
              /\ link' = linked /\ (sync' = after \/ sync' = NoSync)
           \/ sync' = NoSync /\ UNCHANGED link
    BY <1>8 DEF ApplyPage
  <2>2. next \in CursorType /\ next = sync.next
    BY <1>types DEF SyncStates
  <2> HIDE DEF next
  <2>3. /\ after \in SyncStates /\ after.pc = "changes" /\ after.cursor = next
        /\ after.gen = sync.gen /\ after.page = {} /\ after.by = sync.by
    BY <1>types, <1>idle, <2>2 DEF SyncStates, NoPage
  <2>4. linked \in Link /\ linked.cursor = next /\ linked.generation = link.generation
    BY <1>types, <2>2 DEF Link
  <2> HIDE DEF after, linked
  <2>5. CASE /\ Current /\ local' = [s \in Surveys |-> Applied(s)]
             /\ link' = linked /\ (sync' = after \/ sync' = NoSync)
    <3>1. Applies
      BY <2>1, <2>2, <2>3, <2>4, <2>5 DEF Applies
    <3> QED BY <1>idle, <2>1, <2>3, <2>4, <2>5, <3>1 DEF SyncKind
  <2>6. CASE sync' = NoSync /\ UNCHANGED link
    BY <1>types, <1>idle, <2>6 DEF SyncKind
  <2> QED BY <2>1, <2>5, <2>6
<1>9. CASE SyncFails \/ NodeCrash
  BY <1>9, <1>types, <1>idle DEF SyncFails, NodeCrash, SyncKind
<1>10. CASE ResetLink
  <2> DEFINE device == IF connect = "disconnect" THEN None ELSE connect
             generation == link.generation + 1
  <2>1. /\ link' = [device |-> device, generation |-> generation, cursor |-> NoCursor]
        /\ UNCHANGED <<sync, cloud, local>>
    BY <1>10 DEF ResetLink
  <2>2. device \in Maybe(Devices) /\ generation \in Nat
    BY <1>types DEF Maybe, Link
  <2> HIDE DEF device
  <2>3. link' \in Link /\ link'.generation = link.generation + 1 /\ link'.cursor = NoCursor
    BY <1>idle, <2>1, <2>2 DEF Link
  <2> QED BY <1>types, <2>1, <2>3 DEF SyncKind
<1>11. CASE Edit \/ FinishEdit \/ CloudSteps \/ Registration \/ Linking \/ UNCHANGED vars
  <2>1. UNCHANGED <<sync, link>>
    BY <1>11 DEF Edit, FinishEdit, CloudSteps, OpenForm, ReadQuestions, AbortChange, LoseReply,
                 PutSurvey, ApplyReply, ChangeDefinition, CommitChange,
                 CreateSurvey, AssignSurveyToNode, DeleteDraft, NodeCreateSurvey,
                 PruneSurveyChanges, Registration, PreviewDataset, PostDataset,
                 LoseDatasetReply, BindDataset, Linking, SaveToken, DeleteToken, vars
  <2> QED BY <1>types, <2>1 DEF SyncKind
<1> QED BY <1>1, <1>2, <1>3, <1>4, <1>5, <1>6, <1>7, <1>8, <1>9, <1>10, <1>11 DEF Next, SyncSteps

-----------------------------------------------------------------------------
(* Type correctness *)

\* What a sync read was of its device's surveys.
LEMMA SyncKnown ==
    ASSUME TypeInv, [Next]_vars
    PROVE  /\ \A p \in sync'.page : Known(p.survey, p.version)'
           /\ sync'.pc \notin {"idle", "linked"} => sync'.by # None
<1>types. TypeOK /\ \A s \in Surveys : Version(s) \in Nat
  BY RevisionTypes DEF TypeInv
<1>kind. CloudKind /\ SyncKind
  BY CloudKinds, SyncKinds
<1>idle. NoSync.pc = "idle" /\ NoSync.page = {}
  BY InitialTypes
<1>old. \A p \in sync.page : p.survey \in Surveys /\ Known(p.survey, p.version)
  BY DEF TypeInv, TypeOK, SyncStates, KnownInv
<1>1. sync'.pc \notin {"idle", "linked"} => sync'.by # None
  BY <1>kind, <1>idle DEF SyncKind, Begins, Connects, ReadsClock, ListsAll, ChecksCursor,
                          ListsChanges, StartsOver, Applies, SamePage, TypeInv, KnownInv
<1>2. CASE sync'.page \subseteq sync.page
  <2>1. ASSUME NEW p \in sync'.page PROVE Known(p.survey, p.version)'
    <3>1. PICK s \in Surveys : s = p.survey
      BY <1>2, <1>old, <2>1
    <3>2. PICK v : v = p.version /\ Known(s, v)
      BY <1>2, <1>old, <2>1, <3>1
    <3>3. Known(s, v)'
      BY <1>types, <1>kind, <3>2, KnownKept
    <3> QED BY <3>1, <3>2, <3>3 DEF Known
  <2> QED BY <1>1, <2>1
<1>3. CASE UNCHANGED cloud /\ ListsAll
  <2>1. ASSUME NEW p \in sync'.page PROVE Known(p.survey, p.version)'
    <3>1. PICK s \in Surveys : /\ Exists(s) /\ owner[s] = sync.by
                               /\ p = [survey |-> s, version |-> Version(s)]
      BY <1>3, <2>1 DEF ListsAll
    <3>2. sync.by # None
      BY <1>3 DEF ListsAll, TypeInv, KnownInv
    <3>3. p.survey = s /\ p.version = Version(s) /\ Version(s) \in 1 .. Version(s)
      BY <1>types, <3>1 DEF Exists
    <3> QED BY <1>3, <3>1, <3>2, <3>3 DEF Known, cloud, Version
  <2> QED BY <1>1, <2>1
<1>4. CASE UNCHANGED cloud /\ ListsChanges
  <2>1. ASSUME NEW p \in sync'.page PROVE Known(p.survey, p.version)'
    <3>1. PICK c \in PageRead : p = [survey |-> c.survey, version |-> c.version]
      BY <1>4, <2>1 DEF ListsChanges
    <3>2. Known(c.survey, c.version) /\ p.survey = c.survey /\ p.version = c.version
      BY <3>1, PageBounds DEF TypeInv, KnownInv
    <3> QED BY <1>4, <3>2 DEF Known, cloud, Version
  <2> QED BY <1>1, <2>1
<1>5. \/ UNCHANGED sync \/ sync' = NoSync
      \/ UNCHANGED cloud /\ (Begins \/ Connects \/ ReadsClock \/ ListsAll
                                     \/ ChecksCursor \/ ListsChanges \/ StartsOver \/ Applies)
  BY <1>kind DEF SyncKind
<1>6. \/ sync'.page \subseteq sync.page
      \/ UNCHANGED cloud /\ (ListsAll \/ ListsChanges)
  BY <1>5, <1>idle DEF Begins, Connects, ReadsClock, ChecksCursor, StartsOver, Applies, SamePage
<1> QED BY <1>2, <1>3, <1>4, <1>6


LEMMA OwnersKept ==
    ASSUME TypeInv, CloudKind, NEW s \in Surveys, owner[s] # None
    PROVE  owner'[s] # None
<1>1. Known(s, 1)
  BY RevisionTypes DEF TypeInv, SurveyInv, Exists, Known
<1> QED BY <1>1, KnownKept DEF TypeInv, Known

\* The node edits surveys that belong to a node, and is answered with one of their versions.
LEMMA WriteKnown ==
    ASSUME TypeInv, [Next]_vars
    PROVE  /\ write' \in [Writers -> WriteStates]
           /\ \A w \in Writers : write'[w].pc # "idle" => write'[w].survey \in Surveys
           /\ write'["node"].pc # "idle" => owner'[write'["node"].survey] # None
           /\ write'["node"].pc = "replied" =>
                  Known(write["node"].survey, write["node"].expected)'
<1>types. /\ TypeOK /\ write \in [Writers -> WriteStates] /\ "node" \in Writers
          /\ \A w \in Writers : write[w].pc # "idle" => write[w].survey \in Surveys
  BY DEF TypeInv, TypeOK, Writers, SurveyInv
<1>kind. CloudKind /\ WriteKind
  BY CloudKinds, WriteKinds
<1>old. /\ write["node"].pc # "idle" => owner'[write["node"].survey] # None
        /\ write["node"].pc = "replied" =>
               /\ owner'[write["node"].survey] # None
               /\ write["node"].expected \in 1 .. Len(revision'[write["node"].survey])
  <2>1. ASSUME write["node"].pc # "idle" PROVE owner'[write["node"].survey] # None
    BY <1>types, <1>kind, <2>1, OwnersKept DEF TypeInv, KnownInv
  <2>2. ASSUME write["node"].pc = "replied"
        PROVE  write["node"].expected \in 1 .. Len(revision'[write["node"].survey])
    <3>1. PICK s \in Surveys : s = write["node"].survey
      BY <1>types, <2>2
    <3>2. PICK v : v = write["node"].expected /\ Known(s, v)
      BY <2>2, <3>1 DEF TypeInv, KnownInv
    <3>3. Known(s, v)'
      BY <1>types, <1>kind, <3>2, KnownKept
    <3> QED BY <3>1, <3>2, <3>3 DEF Known, Version
  <2> QED BY <2>1, <2>2
<1>1. CASE UNCHANGED write
  BY <1>types, <1>old, <1>1 DEF Known, Version
<1>2. ASSUME NEW w \in Writers, NEW after \in WriteStates, write' = [write EXCEPT ![w] = after],
             \/ after.pc = "idle"
             \/ Opens(w, after) \/ Reads(w, after) \/ Checks(w, after) \/ Locks(w, after)
             \/ Replies(w, after)
      PROVE  /\ write' \in [Writers -> WriteStates]
             /\ \A v \in Writers : write'[v].pc # "idle" => write'[v].survey \in Surveys
             /\ write'["node"].pc # "idle" => owner'[write'["node"].survey] # None
             /\ write'["node"].pc = "replied" =>
                    write'["node"].expected \in 1 .. Len(revision'[write'["node"].survey])
  <2>1. /\ write' \in [Writers -> WriteStates] /\ write'[w] = after
        /\ \A v \in Writers : v # w => write'[v] = write[v]
    BY <1>types, <1>2
  <2>2. after.pc # "idle" => after.survey \in Surveys
    BY <1>types, <1>2 DEF Opens, Reads, Checks, Locks, Replies, SameEdit
  <2>3. \A v \in Writers : write'[v].pc # "idle" => write'[v].survey \in Surveys
    BY <1>types, <2>1, <2>2
  <2>4. CASE w # "node"
    BY <1>types, <1>old, <2>1, <2>3, <2>4
  <2>5. CASE w = "node"
    <3>1. write'["node"] = after
      BY <2>1, <2>5
    <3>2. after.pc = "replied" => /\ owner'[after.survey] # None
                                  /\ after.expected \in 1 .. Len(revision'[after.survey])
      BY <1>2 DEF Opens, Reads, Checks, Locks, Replies
    <3>3. CASE Opens(w, after)
      <4>1. /\ after.survey \in Surveys /\ local[after.survey].version # 0
            /\ UNCHANGED cloud
        BY <2>5, <3>3 DEF Opens, Shown
      <4>2. owner[after.survey] # None
        BY <4>1 DEF TypeInv, KnownInv, Known
      <4> QED BY <2>1, <2>3, <3>1, <3>2, <4>1, <4>2 DEF cloud
    <3>4. CASE Reads(w, after) \/ Checks(w, after) \/ Locks(w, after)
      <4>1. after.survey = write["node"].survey /\ write["node"].pc # "idle"
        BY <2>5, <3>4 DEF Reads, Checks, Locks, SameEdit
      <4> QED BY <1>old, <2>1, <2>3, <3>1, <3>2, <4>1
    <3> QED BY <1>2, <2>1, <2>3, <3>1, <3>2, <3>3, <3>4 DEF Replies
  <2> QED BY <2>4, <2>5
<1>3. ASSUME NEW w \in Writers, NEW after \in WriteStates, write' = [write EXCEPT ![w] = after],
             \/ after.pc = "idle"
             \/ Opens(w, after) \/ Reads(w, after) \/ Checks(w, after) \/ Locks(w, after)
             \/ Replies(w, after)
      PROVE  /\ write' \in [Writers -> WriteStates]
             /\ \A v \in Writers : write'[v].pc # "idle" => write'[v].survey \in Surveys
             /\ write'["node"].pc # "idle" => owner'[write'["node"].survey] # None
             /\ write'["node"].pc = "replied" =>
                    Known(write["node"].survey, write["node"].expected)'
  BY <1>2, <1>3 DEF Known, Version
<1> QED BY <1>kind, <1>1, <1>3 DEF WriteKind

\* A registration's survey is a data set's, and its reply names one of the versions.
LEMMA RegKnown ==
    ASSUME TypeInv, [Next]_vars, NEW t \in Tabs
    PROVE  /\ reg' \in [Tabs -> RegStates]
           /\ reg'[t].pc # "idle" => reg'[t].survey \in External
           /\ reg'[t].pc = "replied" => Known(reg[t].survey, reg[t].version)'
<1>types. TypeOK /\ reg \in [Tabs -> RegStates] /\ \A s \in External : s \in Surveys
  BY ExternalAssumption DEF TypeInv, TypeOK
<1>idle. NoReg \in RegStates /\ NoReg.pc = "idle"
  BY InitialTypes
<1>kind. CloudKind /\ RegKind
  BY CloudKinds, RegKinds
<1>old. /\ reg[t].pc # "idle" => reg[t].survey \in External
        /\ reg[t].pc = "replied" => /\ owner'[reg[t].survey] # None
                                    /\ reg[t].version \in 1 .. Len(revision'[reg[t].survey])
  <2>1. reg[t].pc # "idle" => reg[t].survey \in External
    BY DEF TypeInv, SurveyInv
  <2>2. ASSUME reg[t].pc = "replied"
        PROVE  /\ owner'[reg[t].survey] # None
               /\ reg[t].version \in 1 .. Len(revision'[reg[t].survey])
    <3>1. PICK s \in Surveys : s = reg[t].survey
      BY <1>types, <2>1, <2>2
    <3>2. PICK v : v = reg[t].version /\ Known(s, v)
      BY <2>2, <3>1 DEF TypeInv, KnownInv
    <3>3. Known(s, v)'
      BY <1>types, <1>kind, <3>2, KnownKept
    <3> QED BY <3>1, <3>2, <3>3 DEF Known, Version
  <2> QED BY <2>1, <2>2
<1>1. \/ reg'[t] = reg[t] \/ reg'[t].pc = "idle"
      \/ reg'[t].pc = "form" /\ reg'[t].survey \in External
      \/ Answers(t, reg'[t])
  BY <1>types, <1>idle, <1>kind DEF RegKind, Answers
<1>2. reg' \in [Tabs -> RegStates]
  BY <1>types, <1>idle, <1>kind DEF RegKind
<1>3. reg'[t].pc # "idle" => reg'[t].survey \in External
  BY <1>1, <1>old DEF Answers
<1>4. reg'[t].pc = "replied" =>
          owner'[reg'[t].survey] # None /\ reg'[t].version \in 1 .. Len(revision'[reg'[t].survey])
  BY <1>1, <1>old DEF Answers
<1> QED BY <1>2, <1>3, <1>4 DEF Known, Version

\* A lock is an old one, or the one lock that a step took.
LEMMA LockKinds ==
    ASSUME TypeInv, [Next]_vars
    PROVE  \/ \A v \in Writers : write'[v].pc = "locked" => write'[v] = write[v]
           \/ \E w \in Writers : /\ Locks(w, write'[w])
                                 /\ \A v \in Writers : v # w => write'[v] = write[v]
<1>1. WriteKind /\ write \in [Writers -> WriteStates]
  BY WriteKinds DEF TypeInv, TypeOK
<1>2. CASE UNCHANGED write
  BY <1>2
<1>3. ASSUME NEW w \in Writers, NEW after \in WriteStates, write' = [write EXCEPT ![w] = after],
             \/ after.pc = "idle"
             \/ Opens(w, after) \/ Reads(w, after) \/ Checks(w, after) \/ Locks(w, after)
             \/ Replies(w, after)
      PROVE  \/ \A v \in Writers : write'[v].pc = "locked" => write'[v] = write[v]
             \/ \E u \in Writers : /\ Locks(u, write'[u])
                                   /\ \A v \in Writers : v # u => write'[v] = write[v]
  <2>1. write'[w] = after /\ \A v \in Writers : v # w => write'[v] = write[v]
    BY <1>1, <1>3
  <2>2. after.pc # "locked" \/ Locks(w, after)
    BY <1>3 DEF Opens, Reads, Checks, Replies
  <2> QED BY <2>1, <2>2
<1> QED BY <1>1, <1>2, <1>3 DEF WriteKind

\* What the row locks are for: one writer of a survey, one number at a time.
LEMMA LockStep ==
    ASSUME TypeInv, [Next]_vars
    PROVE  LockInv'
<1>types. /\ TypeOK /\ clock \in Clock /\ clock.value \in Nat
          /\ \A w \in Writers : write[w].pc # "idle" => write[w].survey \in Surveys
          /\ \A s \in Surveys : Version(s) \in Nat
  BY RevisionTypes DEF TypeInv, TypeOK, SurveyInv, Clock
<1>old. /\ \A w \in Writers : write[w].pc = "locked" =>
               /\ Exists(write[w].survey)
               /\ write[w].seq = IF owner[write[w].survey] = None THEN 0 ELSE NextSeq
        /\ \A v, w \in Writers :
               /\ write[v].pc = "locked" /\ write[w].pc = "locked"
               /\ write[v].survey = write[w].survey \/ (write[v].seq # 0 /\ write[w].seq # 0)
               => v = w
  BY DEF TypeInv, LockInv
<1>kind. CloudKind
  BY CloudKinds
<1>1. ASSUME \A v \in Writers : write'[v].pc = "locked" => write'[v] = write[v],
             \A v \in Writers : write'[v].pc = "locked" =>
                 /\ Len(revision'[write[v].survey]) > 0
                 /\ write[v].seq = IF owner'[write[v].survey] = None THEN 0 ELSE clock'.value + 1
      PROVE  LockInv'
  BY <1>old, <1>1 DEF LockInv, Exists, Version, NextSeq
<1>2. ASSUME UNCHANGED cloud,
             \A v \in Writers : write'[v].pc = "locked" => write'[v] = write[v]
      PROVE  LockInv'
  BY <1>old, <1>1, <1>2 DEF cloud, Exists, Version, NextSeq
<1>3. ASSUME NEW w \in Writers, Locks(w, write'[w]),
             \A v \in Writers : v # w => write'[v] = write[v]
      PROVE  LockInv'
  <2> DEFINE after == write'[w]
  <2>1. /\ after.pc = "locked" /\ SurveyFree(after.survey) /\ Exists(after.survey)
        /\ owner[after.survey] = None \/ ClockFree
        /\ after.seq = IF owner[after.survey] = None THEN 0 ELSE NextSeq
        /\ UNCHANGED <<owner, revision, purged, clock, changes>>
    BY <1>3 DEF Locks, cloud
  <2>2. \A v \in Writers \ {w} : write[v].pc = "locked" =>
            /\ write[v].survey # after.survey
            /\ after.seq # 0 => write[v].seq = 0
    BY <2>1 DEF SurveyFree, ClockFree
  <2>3. \A v \in Writers : write'[v].pc = "locked" =>
            /\ Exists(write'[v].survey)
            /\ write'[v].seq = IF owner[write'[v].survey] = None THEN 0 ELSE NextSeq
    BY <1>old, <1>3, <2>1
  <2> HIDE DEF after
  <2>4. \A u, v \in Writers :
            /\ write'[u].pc = "locked" /\ write'[v].pc = "locked"
            /\ write'[u].survey = write'[v].survey \/ (write'[u].seq # 0 /\ write'[v].seq # 0)
            => u = v
    <3>1. \A v \in Writers : v # w /\ write'[v].pc = "locked" =>
              /\ write'[v].survey # write'[w].survey
              /\ write'[w].seq # 0 => write'[v].seq = 0
      BY <1>3, <2>2 DEF after
    <3> QED BY <1>old, <1>3, <3>1
  <2> QED BY <2>1, <2>3, <2>4 DEF LockInv, Exists, Version, NextSeq
<1>4. ASSUME NEW s \in Surveys, NEW definition \in Definition, Writes(s, definition)
      PROVE  LockInv'
  <2>1. \A v \in Writers : write'[v].pc = "locked" =>
            /\ write'[v] = write[v] /\ write[v].survey # s
            /\ owner'[s] # None => write[v].seq = 0
    BY <1>4 DEF Writes
  <2>2. \A u \in Surveys : u # s => revision'[u] = revision[u] /\ owner'[u] = owner[u]
    BY <1>types, <1>4, WrittenSurvey
  <2>3. owner'[s] = None => clock' = clock
    BY <1>4 DEF Writes
  <2>4. ASSUME NEW v \in Writers, write'[v].pc = "locked"
        PROVE  /\ Len(revision'[write[v].survey]) > 0
               /\ write[v].seq = IF owner'[write[v].survey] = None THEN 0 ELSE clock'.value + 1
    <3>1. PICK u \in Surveys : u = write[v].survey /\ u # s
      BY <1>types, <2>1, <2>4
    <3>2. write[v].pc = "locked" /\ revision'[u] = revision[u] /\ owner'[u] = owner[u]
      BY <2>1, <2>2, <2>4, <3>1
    <3>3. write[v].seq = 0 \/ clock' = clock
      BY <2>1, <2>3, <2>4
    <3>4. NextSeq # 0
      BY <1>types DEF NextSeq
    <3> QED BY <1>old, <3>1, <3>2, <3>3, <3>4 DEF Exists, Version, NextSeq
  <2> QED BY <1>1, <2>1, <2>4
<1>5. ASSUME NEW s \in Surveys, Deletes(s) PROVE LockInv'
  <2>1. SurveyFree(s) /\ UNCHANGED <<owner, clock, write>>
        /\ \A u \in Surveys : u # s => revision'[u] = revision[u]
    BY <1>types, <1>5 DEF Deletes, TypeOK
  <2>2. \A v \in Writers : write[v].pc = "locked" => write[v].survey \in Surveys /\ write[v].survey # s
    BY <1>types, <2>1 DEF SurveyFree
  <2> QED BY <1>old, <1>1, <2>1, <2>2 DEF Exists, Version, NextSeq
<1>6. ASSUME NEW last \in Nat, Prunes(last) PROVE LockInv'
  <2>1. UNCHANGED <<owner, revision, write>> /\ clock'.value = clock.value
    BY <1>types, <1>6 DEF Prunes, Clock
  <2> QED BY <1>old, <1>1, <2>1 DEF Exists, Version, NextSeq
<1>7. UNCHANGED cloud => LockInv'
  BY <1>2, <1>3, LockKinds
<1> QED BY <1>kind, <1>4, <1>5, <1>6, <1>7 DEF CloudKind

LEMMA ClockStep ==
    ASSUME TypeInv, CloudKind
    PROVE  ClockInv'
<1>types. /\ TypeOK /\ changes \subseteq Change /\ clock \in Clock /\ clock.value \in Nat
          /\ IsFiniteSet(changes) /\ \A c \in changes : c.seq <= clock.value /\ c.seq \in Nat
  BY DEF TypeInv, TypeOK, ClockInv, Clock, Change
<1>1. CASE UNCHANGED <<changes, clock>>
  BY <1>types, <1>1 DEF ClockInv
<1>2. ASSUME NEW s \in Surveys, Announced(s) PROVE ClockInv'
  <2> DEFINE c == [seq |-> NextSeq, survey |-> s, version |-> Version(s) + 1]
  <2>1. changes' = changes \union {c} /\ c.seq = clock.value + 1
    BY <1>2 DEF Announced, NextSeq
  <2>2. clock'.value = clock.value + 1
    BY <1>types, <1>2, AnnouncedTypes
  <2> HIDE DEF c
  <2>3. IsFiniteSet(changes')
    BY <1>types, <2>1, FS_AddElement
  <2> QED BY <1>types, <2>1, <2>2, <2>3 DEF ClockInv
<1>3. ASSUME NEW last \in Nat, Prunes(last) PROVE ClockInv'
  <2>1. changes' \subseteq changes /\ clock'.value = clock.value
    BY <1>types, <1>3 DEF Prunes, Clock
  <2>2. IsFiniteSet(changes')
    BY <1>types, <2>1, FS_Subset
  <2> QED BY <1>types, <2>1, <2>2 DEF ClockInv
<1>4. ASSUME NEW s \in Surveys, NEW definition, Writes(s, definition)
      PROVE  UNCHANGED <<changes, clock>> \/ Announced(s)
  BY <1>4 DEF Writes
<1> QED BY <1>1, <1>2, <1>3, <1>4 DEF CloudKind, cloud, Deletes

LEMMA OtherTypes ==
    ASSUME TypeOK, [Next]_vars
    PROVE  /\ token' \in Maybe(Devices) /\ connect' \in Maybe(Devices \union {"disconnect"})
           /\ scenario' = scenario /\ events' \in Nat
<1>types. /\ token \in Maybe(Devices) /\ connect \in Maybe(Devices \union {"disconnect"})
          /\ events \in Nat
  BY DEF TypeOK
<1>1. scenario' = scenario
  BY DEF Next, Edit, FinishEdit, CloudSteps, OpenForm, ReadQuestions, AbortChange, LoseReply,
         PutSurvey, ApplyReply, ChangeDefinition, CommitChange, CreateSurvey,
         AssignSurveyToNode, DeleteDraft, NodeCreateSurvey, PruneSurveyChanges, SyncSteps,
         SyncFails, StartSync, OpenClient, SnapshotClock, SnapshotDefinitions, ChangesClock,
         ChangesRows, Gone, ApplyPage, Linking, SaveToken, DeleteToken, ResetLink, NodeCrash,
         Registration, PreviewDataset, PostDataset, LoseDatasetReply, BindDataset, vars
<1>2. events' = events \/ events' = events + 1
  BY DEF Next, Edit, FinishEdit, CloudSteps, OpenForm, ReadQuestions, AbortChange, LoseReply,
         PutSurvey, ApplyReply, ChangeDefinition, CommitChange, CreateSurvey, Disturb,
         AssignSurveyToNode, DeleteDraft, NodeCreateSurvey, PruneSurveyChanges, SyncSteps,
         SyncFails, StartSync, OpenClient, SnapshotClock, SnapshotDefinitions, ChangesClock,
         ChangesRows, Gone, ApplyPage, Linking, SaveToken, DeleteToken, ResetLink, NodeCrash,
         Registration, PreviewDataset, PostDataset, LoseDatasetReply, BindDataset, vars
<1>3. /\ token' = token \/ token' \in Maybe(Devices)
      /\ connect' = connect \/ connect' \in Maybe(Devices \union {"disconnect"})
  BY DEF Next, Edit, FinishEdit, CloudSteps, OpenForm, ReadQuestions, AbortChange, LoseReply,
         PutSurvey, ApplyReply, ChangeDefinition, CommitChange, CreateSurvey,
         AssignSurveyToNode, DeleteDraft, NodeCreateSurvey, PruneSurveyChanges, SyncSteps,
         SyncFails, StartSync, OpenClient, SnapshotClock, SnapshotDefinitions, ChangesClock,
         ChangesRows, Gone, ApplyPage, Linking, SaveToken, DeleteToken, ResetLink, NodeCrash,
         Registration, PreviewDataset, PostDataset, LoseDatasetReply, BindDataset, vars, Maybe
<1> QED BY <1>types, <1>1, <1>2, <1>3

LEMMA TypeInit == Init => TypeInv
<1> SUFFICES ASSUME Init PROVE TypeInv
  OBVIOUS
<1>1. /\ NoWrite \in WriteStates /\ NoReg \in RegStates /\ NoSync \in SyncStates
      /\ NoCursor \in CursorType /\ NoWrite.pc = "idle" /\ NoReg.pc = "idle"
      /\ NoSync.pc = "idle" /\ NoSync.page = {}
  BY InitialTypes
<1>2. TypeOK
  <2>1. clock \in Clock /\ link \in Link /\ local \in [Surveys -> Copy]
    BY <1>1 DEF Init, Clock, Link, Copy, Maybe
  <2>2. owner \in [Surveys -> Maybe(Devices)] /\ revision \in [Surveys -> Seq(Definition)]
    BY DEF Init, Maybe
  <2> QED BY <1>1, <2>1, <2>2 DEF Init, TypeOK, Maybe
<1>3. \A s \in Surveys : Version(s) = 0 /\ ~Exists(s)
  BY DEF Init, Version, Exists
<1>4. KnownInv /\ SurveyInv
  BY <1>1, <1>3, ExternalAssumption DEF Init, KnownInv, SurveyInv, Writers
<1>5. LockInv
  BY <1>1 DEF Init, LockInv
<1>6. ClockInv
  BY FS_EmptySet DEF Init, ClockInv
<1> QED BY <1>2, <1>4, <1>5, <1>6 DEF TypeInv

LEMMA TypeStep == TypeInv /\ [Next]_vars => TypeInv'
<1> SUFFICES ASSUME TypeInv, [Next]_vars PROVE TypeInv'
  OBVIOUS
<1>types. TypeOK
  BY DEF TypeInv
<1>kind. CloudKind
  BY CloudKinds
<1>1. TypeOK'
  BY <1>types, <1>kind, CloudTypes, OtherTypes, LocalKinds, SyncKinds, WriteKnown, RegKnown
     DEF TypeOK, Tabs
<1>2. \A s \in Surveys : local'[s].version # 0 => Known(s, local[s].version)'
  <2> SUFFICES ASSUME NEW s \in Surveys, local'[s].version # 0
               PROVE  Known(s, local[s].version)'
    OBVIOUS
  <2>1. PICK v : v = local'[s].version
    OBVIOUS
  <2>2. Known(s, v)
    BY <2>1, LocalKinds DEF LocalKind, TypeInv, KnownInv
  <2>3. Known(s, v)'
    BY <1>types, <1>kind, <2>2, KnownKept
  <2> QED BY <2>1, <2>3 DEF Known
<1>3. \A c \in changes' : Known(c.survey, c.version)'
  BY <1>kind, SurveysKept DEF Known
<1>4. KnownInv'
  BY <1>2, <1>3, SyncKnown, WriteKnown, RegKnown DEF KnownInv
<1>5. SurveyInv'
  BY <1>kind, SurveysKept, WriteKnown, RegKnown DEF SurveyInv
<1> QED BY <1>1, <1>4, <1>5, <1>kind, LockStep, ClockStep DEF TypeInv

LEMMA TypesHold == Spec => []TypeInv
BY TypeInit, TypeStep, PTL DEF Spec

\* Rows, revisions, the stored cursor and the memory of the processes have their types.
THEOREM TypeCorrect == Spec => []TypeOK
<1>1. TypeInv => TypeOK
  BY DEF TypeInv
<1> QED BY <1>1, TypesHold, PTL

-----------------------------------------------------------------------------
(* The cursor of a link *)

LEMMA SyncInit == Init => SyncInv
BY InitialTypes DEF Init, SyncInv

LEMMA SyncStep == TypeInv /\ SyncInv /\ [Next]_vars => SyncInv'
<1> SUFFICES ASSUME TypeInv, SyncInv, [Next]_vars PROVE SyncInv'
  OBVIOUS
<1>types. /\ sync \in SyncStates /\ link \in Link /\ clock \in Clock
          /\ sync.gen \in Nat /\ link.generation \in Nat /\ clock.value \in Nat
          /\ sync.cursor.seq \in Nat /\ sync.next.seq \in Nat /\ link.cursor.seq \in Nat
  BY DEF TypeInv, TypeOK, SyncStates, Link, Clock, CursorType
<1>idle. NoSync.pc = "idle" /\ NoSync.gen = 0
  BY InitialTypes
<1>kind. SyncKind
  BY SyncKinds
<1>clock. clock' \in Clock /\ clock'.value \in Nat /\ clock'.value >= clock.value
  BY CloudKinds, CloudTypes DEF TypeInv, Clock
<1>inv. /\ sync.gen <= link.generation
        /\ sync.pc # "idle" /\ sync.gen = link.generation => sync.cursor = link.cursor
        /\ sync.pc = "definitions" => sync.read <= clock.value
        /\ sync.pc = "rows" => sync.cursor.device = sync.by /\ sync.cursor.seq <= clock.value
        /\ sync.pc = "apply" => /\ sync.next.gen = sync.gen /\ sync.next.device # None
                                /\ sync.next.seq <= clock.value
        /\ link.cursor # NoCursor => /\ link.cursor.gen = link.generation
                                     /\ link.cursor.device # None
                                     /\ link.cursor.seq <= clock.value
  BY DEF SyncInv, Current
<1>1. CASE UNCHANGED <<sync, link>>
  <2>1. sync.pc = "definitions" => sync.read \in Nat
    BY <1>types DEF SyncStates
  <2> QED BY <1>1, <1>types, <1>clock, <1>inv, <2>1 DEF SyncInv, Current
<1>2. CASE sync' = NoSync /\ UNCHANGED link
  BY <1>2, <1>types, <1>idle, <1>clock, <1>inv DEF SyncInv, Current
<1>3. CASE UNCHANGED sync /\ link'.generation = link.generation + 1 /\ link'.cursor = NoCursor
  <2>1. sync.pc = "definitions" => sync.read \in Nat
    BY <1>types DEF SyncStates
  <2> QED BY <1>3, <1>types, <1>clock, <1>inv, <2>1 DEF SyncInv, Current
<1>4. CASE UNCHANGED cloud /\ (Begins \/ Connects)
  BY <1>4, <1>types, <1>inv DEF SyncInv, Current, Begins, Connects, cloud
<1>5. CASE UNCHANGED cloud /\ ReadsClock
  BY <1>5, <1>types, <1>inv DEF SyncInv, Current, ReadsClock, SamePage, cloud
<1>6. CASE UNCHANGED cloud /\ ListsAll
  <2>1. /\ sync'.next.gen = sync.gen /\ sync'.next.seq = sync.read
        /\ sync'.next.device = sync.by /\ sync.by # None
    BY <1>6 DEF ListsAll, Cursor, TypeInv, KnownInv
  <2> QED BY <1>6, <1>types, <1>inv, <2>1 DEF SyncInv, Current, ListsAll, cloud
<1>7. CASE UNCHANGED cloud /\ ChecksCursor
  <2>1. sync'.pc = "rows" => sync.cursor.device = sync.by /\ sync.cursor.seq <= clock.value
    BY <1>7, <1>types DEF ChecksCursor, CursorInvalid
  <2> QED BY <1>7, <1>types, <1>inv, <2>1 DEF SyncInv, Current, ChecksCursor, SamePage, cloud
<1>8. CASE UNCHANGED cloud /\ ListsChanges
  <2> DEFINE seq == IF PageRead = {} THEN sync.cursor.seq ELSE Max({c.seq : c \in PageRead})
  <2>1. seq <= clock.value
    <3>1. CASE PageRead = {}
      BY <1>8, <1>inv, <3>1 DEF ListsChanges
    <3>2. CASE PageRead # {}
      <4>1. PICK c \in PageRead : Max({d.seq : d \in PageRead}) = c.seq
        BY <3>2, PageBounds
      <4>2. c \in changes
        BY PageBounds
      <4> QED BY <3>2, <4>1, <4>2 DEF TypeInv, ClockInv
    <3> QED BY <3>1, <3>2
  <2>2. sync'.next = Cursor(sync.by, seq) /\ sync.by # None
    BY <1>8 DEF ListsChanges, TypeInv, KnownInv
  <2> HIDE DEF seq
  <2>3. sync'.next.gen = sync.gen /\ sync'.next.seq = seq /\ sync'.next.device # None
    BY <2>2 DEF Cursor
  <2> QED BY <1>8, <1>types, <1>inv, <2>1, <2>3 DEF SyncInv, Current, ListsChanges, cloud
<1>9. CASE UNCHANGED cloud /\ StartsOver
  BY <1>9, <1>types, <1>inv DEF SyncInv, Current, StartsOver, SamePage, cloud
<1>10. CASE UNCHANGED cloud /\ Applies
  BY <1>10, <1>types, <1>idle, <1>inv DEF SyncInv, Current, Applies, cloud
<1> QED BY <1>kind, <1>1, <1>2, <1>3, <1>4, <1>5, <1>6, <1>7, <1>8, <1>9, <1>10 DEF SyncKind

LEMMA SyncsHold == Spec => []SyncInv
BY SyncInit, SyncStep, TypesHold, PTL DEF Spec

\* A cursor was obtained under the link it is stored in: a sync that outlives a re-link never
\* brings the old one's cursor back (ApplyPage and Gone compare the generation in the
\* transaction that stores it).
THEOREM CursorIsTheLinks == Spec => []CursorBelongsToLink
<1>1. SyncInv => CursorBelongsToLink
  BY DEF SyncInv, CursorBelongsToLink
<1> QED BY <1>1, SyncsHold, PTL

-----------------------------------------------------------------------------
(* The data set of the node's copy *)

LEMMA SourceInit == Init => SourceInv
BY InitialTypes DEF Init, SourceInv, NodeSourceMatchesDefinition

LEMMA SourceStep == TypeInv /\ SourceInv /\ [Next]_vars => SourceInv'
<1> SUFFICES ASSUME TypeInv, SourceInv, [Next]_vars PROVE SourceInv'
  OBVIOUS
<1>types. /\ TypeOK /\ reg \in [Tabs -> RegStates] /\ \A s \in External : s \in Surveys
  BY ExternalAssumption DEF TypeInv, TypeOK
<1>idle. NoReg.pc = "idle"
  BY InitialTypes
<1>kind. CloudKind /\ RegKind /\ \A s \in Surveys : LocalKind(s)
  BY CloudKinds, RegKinds, LocalKinds
<1>inv. /\ \A s \in Surveys : local[s].version # 0 =>
               local[s].source = revision[s][local[s].version].source
        /\ \A t \in Tabs : reg[t].pc = "replied" =>
               revision[reg[t].survey][reg[t].version].source = reg[t].source
  BY DEF SourceInv, NodeSourceMatchesDefinition
<1>1. ASSUME NEW s \in Surveys, local'[s].version # 0
      PROVE  local'[s].source = revision'[s][local'[s].version].source
  <2>1. CASE local'[s] = local[s]
    <3>1. PICK v : v = local[s].version
      OBVIOUS
    <3>2. Known(s, v) /\ local[s].source = revision[s][v].source
      BY <1>1, <1>inv, <2>1, <3>1 DEF TypeInv, KnownInv
    <3>3. revision'[s][v] = revision[s][v]
      BY <1>types, <1>kind, <3>2, KnownKept
    <3> QED BY <2>1, <3>1, <3>2, <3>3
  <2>2. CASE local'[s] # local[s]
    <3>1. UNCHANGED cloud
      BY <1>kind, <2>2 DEF LocalKind
    <3>2. PICK v \in Nat : /\ local'[s].version = v
                           /\ \/ local'[s].source = revision[s][v].source
                              \/ \E t \in Tabs : /\ reg[t].pc = "replied" /\ reg[t].survey = s
                                                 /\ reg[t].version = v
                                                 /\ local'[s].source = reg[t].source
      BY <1>kind, <2>2 DEF LocalKind
    <3> QED BY <1>inv, <3>1, <3>2 DEF cloud
  <2> QED BY <2>1, <2>2
<1>2. ASSUME NEW t \in Tabs, reg'[t].pc = "replied"
      PROVE  revision'[reg'[t].survey][reg'[t].version].source = reg'[t].source
  <2>1. reg'[t] = reg[t] \/ Answers(t, reg'[t])
    BY <1>2, <1>types, <1>idle, <1>kind DEF RegKind, Answers
  <2>2. CASE Answers(t, reg'[t])
    BY <2>2 DEF Answers
  <2>3. CASE reg'[t] = reg[t]
    <3>1. PICK s \in Surveys : s = reg[t].survey
      BY <1>2, <1>types, <2>3 DEF TypeInv, SurveyInv
    <3>2. PICK v : v = reg[t].version /\ Known(s, v)
      BY <1>2, <2>3, <3>1 DEF TypeInv, KnownInv
    <3>3. revision'[s][v] = revision[s][v]
      BY <1>types, <1>kind, <3>2, KnownKept
    <3> QED BY <1>2, <1>inv, <2>3, <3>1, <3>2, <3>3
  <2> QED BY <2>1, <2>2, <2>3
<1> QED BY <1>1, <1>2 DEF SourceInv, NodeSourceMatchesDefinition

LEMMA SourcesHold == Spec => []SourceInv
BY SourceInit, SourceStep, TypesHold, PTL DEF Spec

\* Whatever order syncs, replies and registrations end in, the node's copy is bound to the data
\* set its definition names (BindDataset checks the copy's version before it selects the source).
THEOREM CopiesAreBoundToTheirSource == Spec => []NodeSourceMatchesDefinition
<1>1. SourceInv => NodeSourceMatchesDefinition
  BY DEF SourceInv
<1> QED BY <1>1, SourcesHold, PTL

-----------------------------------------------------------------------------
(* Edits *)

\* A step leaves the open edits alone, or takes one of them further in an unchanged cloud.
LEMMA EditKinds ==
    ASSUME TypeInv, [Next]_vars
    PROVE  \/ \A v \in Writers : write'[v].pc \in Editing => write'[v] = write[v]
           \/ \E w \in Writers, after \in WriteStates :
                  /\ write'[w] = after /\ \A v \in Writers : v # w => write'[v] = write[v]
                  /\ Opens(w, after) \/ Reads(w, after) \/ Checks(w, after) \/ Locks(w, after)
<1>1. WriteKind /\ write \in [Writers -> WriteStates]
  BY WriteKinds DEF TypeInv, TypeOK
<1>2. CASE UNCHANGED write
  BY <1>2
<1>3. ASSUME NEW w \in Writers, NEW after \in WriteStates, write' = [write EXCEPT ![w] = after],
             \/ after.pc = "idle"
             \/ Opens(w, after) \/ Reads(w, after) \/ Checks(w, after) \/ Locks(w, after)
             \/ Replies(w, after)
      PROVE  \/ \A v \in Writers : write'[v].pc \in Editing => write'[v] = write[v]
             \/ \E u \in Writers, next \in WriteStates :
                    /\ write'[u] = next /\ \A v \in Writers : v # u => write'[v] = write[v]
                    /\ Opens(u, next) \/ Reads(u, next) \/ Checks(u, next) \/ Locks(u, next)
  <2>1. write'[w] = after /\ \A v \in Writers : v # w => write'[v] = write[v]
    BY <1>1, <1>3
  <2>2. CASE after.pc = "idle" \/ Replies(w, after)
    BY <2>1, <2>2 DEF Replies, Editing
  <2>3. CASE Opens(w, after) \/ Reads(w, after) \/ Checks(w, after) \/ Locks(w, after)
    BY <2>1, <2>3
  <2> QED BY <1>3, <2>2, <2>3
<1> QED BY <1>1, <1>2, <1>3 DEF WriteKind

\* A new version differs from the one before it by the edit that made it.
LEMMA VersionsFollow ==
    ASSUME TypeInv, EditsInv, CloudKind
    PROVE  NoEditIsLost'
<1>types. TypeOK /\ \A s \in Surveys : Version(s) \in Nat
  BY RevisionTypes DEF TypeInv
<1>inv. \A s \in Surveys \ External : \A v \in 2 .. Version(s) :
            /\ revision[s][v].questions \in {revision[s][v - 1].questions, v}
            /\ revision[s][v].settings \in {revision[s][v - 1].settings, v}
  BY DEF EditsInv, NoEditIsLost
<1>1. CASE UNCHANGED revision
  BY <1>1, <1>inv DEF NoEditIsLost, Version
<1>2. ASSUME NEW u \in Surveys, NEW definition \in Definition, Writes(u, definition)
      PROVE  NoEditIsLost'
  <2>1. /\ Version(u)' = Version(u) + 1 /\ revision'[u][Version(u) + 1] = definition
        /\ \A v \in 1 .. Version(u) : revision'[u][v] = revision[u][v]
        /\ \A s \in Surveys : s # u => revision'[s] = revision[s] /\ Version(s)' = Version(s)
    BY <1>types, <1>2, WrittenSurvey
  <2>2. ASSUME Exists(u), u \notin External
        PROVE  /\ definition.questions \in {Live(u).questions, Version(u) + 1}
               /\ definition.settings \in {Live(u).settings, Version(u) + 1}
    <3>1. CASE definition = Live(u)
      BY <3>1
    <3>2. ASSUME NEW w \in Writers, write[w].pc = "locked", write[w].survey = u,
                 definition = Lifecycle(write[w])
          PROVE  /\ definition.questions \in {Live(u).questions, Version(u) + 1}
                 /\ definition.settings \in {Live(u).settings, Version(u) + 1}
      <4>1. MadeTo(write[w]) /\ Version(u) = write[w].expected
        BY <3>2 DEF EditsInv, Editing
      <4>2. write[w].questions = Live(u).questions /\ write[w].settings = Live(u).settings
        BY <2>2, <3>2, <4>1 DEF MadeTo, Live
      <4>3. definition.questions = Questions(write[w]) /\ definition.settings = Settings(write[w])
        BY <3>2 DEF Lifecycle
      <4> QED BY <3>2, <4>2, <4>3 DEF Questions, Settings
    <3> QED BY <1>2, <2>2, <3>1, <3>2 DEF Writes, Reason
  <2>3. ASSUME NEW s \in Surveys \ External, NEW v \in 2 .. Version(s)'
        PROVE  /\ revision'[s][v].questions \in {revision'[s][v - 1].questions, v}
               /\ revision'[s][v].settings \in {revision'[s][v - 1].settings, v}
    <3>1. CASE s # u
      BY <1>inv, <2>1, <2>3, <3>1
    <3>2. CASE s = u /\ v = Version(u) + 1
      <4>1. Exists(u) /\ Version(u) \in 1 .. Version(u) /\ v - 1 = Version(u)
        BY <1>types, <2>3, <3>2 DEF Exists
      <4>2. revision'[u][v - 1] = Live(u) /\ revision'[u][v] = definition
        BY <2>1, <3>2, <4>1 DEF Live
      <4> QED BY <2>2, <3>2, <4>1, <4>2
    <3>3. CASE s = u /\ v # Version(u) + 1
      <4>1. v \in 2 .. Version(u) /\ v - 1 \in 1 .. Version(u) /\ v \in 1 .. Version(u)
        BY <1>types, <2>1, <2>3, <3>3
      <4>2. revision'[u][v] = revision[u][v] /\ revision'[u][v - 1] = revision[u][v - 1]
        BY <2>1, <4>1
      <4> QED BY <1>inv, <3>3, <4>1, <4>2
    <3> QED BY <3>1, <3>2, <3>3
  <2> QED BY <2>3 DEF NoEditIsLost
<1>3. ASSUME NEW u \in Surveys, Deletes(u) PROVE NoEditIsLost'
  <2>1. Version(u)' = 0 /\ \A s \in Surveys : s # u => revision'[s] = revision[s]
    BY <1>types, <1>3 DEF Deletes, TypeOK, Version
  <2>2. ASSUME NEW s \in Surveys \ External, NEW v \in 2 .. Version(s)'
        PROVE  /\ revision'[s][v].questions \in {revision'[s][v - 1].questions, v}
               /\ revision'[s][v].settings \in {revision'[s][v - 1].settings, v}
    BY <1>inv, <2>1, <2>2 DEF Version
  <2> QED BY <2>2 DEF NoEditIsLost
<1> QED BY <1>1, <1>2, <1>3 DEF CloudKind, cloud, Prunes


\* An edit keeps the version it was made to; while it holds the lock nobody writes its survey.
LEMMA MadeToKept ==
    ASSUME TypeInv, CloudKind, NEW e \in WriteStates, e.survey \in Surveys, MadeTo(e),
           e.pc = "locked" => \E w \in Writers : write[w] = e /\ write'[w] = e
    PROVE  /\ MadeTo(e)'
           /\ e.pc = "locked" /\ Version(e.survey) = e.expected => Version(e.survey)' = e.expected
           /\ Version(e.survey)' = e.expected =>
                  ~Exists(e.survey)'
                  \/ (Version(e.survey) = e.expected /\ owner'[e.survey] = owner[e.survey])
<1>types. TypeOK /\ \A s \in Surveys : Version(s) \in Nat
  BY RevisionTypes DEF TypeInv
<1> DEFINE s == e.survey
<1>1. /\ Exists(s) \/ s \in purged
      /\ Exists(s) => /\ e.expected \in 1 .. Version(s)
                      /\ e.settings = revision[s][e.expected].settings
                      /\ Version(s) = e.expected /\ e.pc # "row" =>
                             e.questions = revision[s][e.expected].questions
  BY DEF MadeTo
<1>2. CASE revision'[s] = revision[s] /\ owner'[s] = owner[s] /\ purged \subseteq purged'
  BY <1>1, <1>2 DEF MadeTo, Exists, Version
<1>3. ASSUME NEW u \in Surveys, NEW definition \in Definition, Writes(u, definition), u = s
      PROVE  /\ Exists(s)' /\ MadeTo(e)' /\ e.pc # "locked" /\ Version(s)' # e.expected
  <2>1. /\ Version(s)' = Version(s) + 1 /\ \A v \in 1 .. Version(s) : revision'[s][v] = revision[s][v]
        /\ Version(s) \in Nat
    BY <1>types, <1>3, WrittenSurvey
  <2>2. Exists(s)
    BY <1>1, <1>3 DEF Writes
  <2>3. e.expected \in 1 .. Version(s) /\ revision'[s][e.expected] = revision[s][e.expected]
    BY <1>1, <2>1, <2>2
  <2>4. Exists(s)' /\ e.expected \in 1 .. Version(s)' /\ Version(s)' # e.expected
    BY <2>1, <2>3 DEF Exists
  <2>5. e.pc # "locked"
    BY <1>3 DEF Writes
  <2> QED BY <1>1, <2>2, <2>3, <2>4, <2>5 DEF MadeTo
<1>4. ASSUME NEW u \in Surveys, Deletes(u), u = s
      PROVE  ~Exists(s)' /\ MadeTo(e)' /\ e.pc # "locked"
  <2>1. revision'[s] = <<>> /\ s \in purged'
    BY <1>types, <1>4 DEF Deletes, TypeOK
  <2>2. ~Exists(s)'
    BY <2>1 DEF Exists, Version
  <2>3. e.pc # "locked"
    BY <1>4 DEF Deletes, SurveyFree
  <2> QED BY <2>1, <2>2, <2>3 DEF MadeTo
<1>5. ASSUME NEW u \in Surveys, NEW definition \in Definition, Writes(u, definition), u # s
      PROVE  revision'[s] = revision[s] /\ owner'[s] = owner[s] /\ purged \subseteq purged'
  BY <1>types, <1>5, WrittenSurvey DEF Writes
<1>6. ASSUME NEW u \in Surveys, Deletes(u), u # s
      PROVE  revision'[s] = revision[s] /\ owner'[s] = owner[s] /\ purged \subseteq purged'
  BY <1>types, <1>6 DEF Deletes, TypeOK
<1>7. CASE UNCHANGED cloud \/ \E last \in Nat : Prunes(last)
  <2>1. UNCHANGED <<owner, revision, purged>>
    BY <1>7 DEF cloud, Prunes
  <2> QED BY <1>2, <2>1
<1>8. ASSUME NEW u \in Surveys, NEW definition \in Definition, Writes(u, definition)
      PROVE  \/ revision'[s] = revision[s] /\ owner'[s] = owner[s] /\ purged \subseteq purged'
             \/ Exists(s)' /\ MadeTo(e)' /\ e.pc # "locked" /\ Version(s)' # e.expected
  BY <1>3, <1>5, <1>8
<1>9. ASSUME NEW u \in Surveys, Deletes(u)
      PROVE  \/ revision'[s] = revision[s] /\ owner'[s] = owner[s] /\ purged \subseteq purged'
             \/ ~Exists(s)' /\ MadeTo(e)' /\ e.pc # "locked"
  BY <1>4, <1>6, <1>9
<1>10. CASE Exists(s)' /\ MadeTo(e)' /\ e.pc # "locked" /\ Version(s)' # e.expected
  BY <1>10
<1>11. CASE ~Exists(s)' /\ MadeTo(e)' /\ e.pc # "locked"
  BY <1>11
<1> HIDE DEF s
<1>12. \/ UNCHANGED cloud \/ \E last \in Nat : Prunes(last)
       \/ revision'[s] = revision[s] /\ owner'[s] = owner[s] /\ purged \subseteq purged'
       \/ Exists(s)' /\ MadeTo(e)' /\ e.pc # "locked" /\ Version(s)' # e.expected
       \/ ~Exists(s)' /\ MadeTo(e)' /\ e.pc # "locked"
  BY <1>8, <1>9 DEF CloudKind
<1> QED BY <1>2, <1>7, <1>10, <1>11, <1>12

LEMMA EditsInit == Init => EditsInv
<1> SUFFICES ASSUME Init PROVE EditsInv
  OBVIOUS
<1>1. \A s \in Surveys : Version(s) = 0
  BY DEF Init, Version
<1>2. NoWrite.pc = "idle" /\ \A w \in Writers : write[w] = NoWrite
  BY InitialTypes DEF Init
<1> QED BY <1>1, <1>2 DEF EditsInv, NoEditIsLost, Editing, Writers

LEMMA EditsStep == TypeInv /\ EditsInv /\ [Next]_vars => EditsInv'
<1> SUFFICES ASSUME TypeInv, EditsInv, [Next]_vars PROVE EditsInv'
  OBVIOUS
<1>types. /\ TypeOK /\ write \in [Writers -> WriteStates] /\ "node" \in Writers
          /\ \A s \in Surveys : Version(s) \in Nat /\ local[s].version \in Nat
          /\ \A w \in Writers : write[w].pc # "idle" => write[w].survey \in Surveys
  BY RevisionTypes DEF TypeInv, TypeOK, Writers, SurveyInv, Copy
<1>kind. CloudKind /\ \A s \in Surveys : LocalKind(s)
  BY CloudKinds, LocalKinds
<1>inv. /\ \A w \in Writers : write[w].pc \in Editing => MadeTo(write[w])
        /\ \A w \in Writers : write[w].pc = "locked" =>
               Version(write[w].survey) = write[w].expected
        /\ write["node"].pc = "row" => write["node"].expected <= local[write["node"].survey].version
        /\ /\ write["node"].pc \in {"checked", "locked"}
           /\ Version(write["node"].survey) = write["node"].expected
           => owner[write["node"].survey] = write["node"].by
  BY DEF EditsInv
<1>lost. NoEditIsLost'
  BY <1>kind, VersionsFollow
<1>local. \A s \in Surveys : local'[s].version >= local[s].version
  BY <1>types, <1>kind DEF LocalKind
<1>kept. ASSUME NEW w \in Writers, write[w].pc \in Editing, write'[w] = write[w]
         PROVE  /\ MadeTo(write[w])'
                /\ write[w].pc = "locked" => Len(revision'[write[w].survey]) = write[w].expected
                /\ write[w].survey \in Surveys
                /\ Len(revision'[write[w].survey]) = write[w].expected
                       /\ owner'[write[w].survey] # None =>
                       /\ Version(write[w].survey) = write[w].expected
                       /\ owner'[write[w].survey] = owner[write[w].survey]
  <2>1. PICK e \in WriteStates : e = write[w]
    BY <1>types
  <2>2. e.survey \in Surveys /\ MadeTo(e) /\ e.pc \in Editing
    BY <1>kept, <1>types, <1>inv, <2>1 DEF Editing
  <2>3. /\ MadeTo(e)'
        /\ e.pc = "locked" /\ Version(e.survey) = e.expected => Version(e.survey)' = e.expected
        /\ Version(e.survey)' = e.expected =>
               ~Exists(e.survey)'
               \/ (Version(e.survey) = e.expected /\ owner'[e.survey] = owner[e.survey])
    BY <1>kept, <1>kind, <2>1, <2>2, MadeToKept
  <2>4. owner'[e.survey] # None => Exists(e.survey)'
    BY <1>kind, <2>2, SurveysKept
  <2>5. MadeTo(write[w])'
    BY <1>kept, <2>1, <2>3 DEF MadeTo, Exists, Version
  <2> QED BY <1>kept, <1>inv, <2>1, <2>2, <2>3, <2>4, <2>5 DEF Version
<1>node. ASSUME write["node"].pc \in Editing, write'["node"] = write["node"]
         PROVE  /\ write["node"].pc = "row" =>
                       write["node"].expected <= local'[write["node"].survey].version
                /\ write["node"].pc \in {"checked", "locked"}
                       /\ Len(revision'[write["node"].survey]) = write["node"].expected =>
                       owner'[write["node"].survey] = write["node"].by
  <2>1. PICK s \in Surveys : s = write["node"].survey
    BY <1>node, <1>types DEF Editing
  <2>2. owner'[s] # None
    BY <1>node, <1>kind, <1>types, <2>1, OwnersKept DEF TypeInv, KnownInv, Editing
  <2>3. write["node"].expected \in Nat /\ local'[s].version \in Nat
    BY <1>types, LocalKinds DEF WriteStates, Copy
  <2> QED BY <1>node, <1>kept, <1>inv, <1>types, <1>local, <2>1, <2>2, <2>3
<1>1. CASE \A v \in Writers : write'[v].pc \in Editing => write'[v] = write[v]
  <2>1. \A w \in Writers : write'[w].pc \in Editing => MadeTo(write[w])'
    BY <1>1, <1>kept
  <2>2. \A w \in Writers : write'[w].pc = "locked" =>
            Len(revision'[write'[w].survey]) = write'[w].expected
    BY <1>1, <1>kept DEF Editing
  <2>3. /\ write'["node"].pc = "row" =>
               write'["node"].expected <= local'[write'["node"].survey].version
        /\ write'["node"].pc \in {"checked", "locked"}
               /\ Len(revision'[write'["node"].survey]) = write'["node"].expected =>
               owner'[write'["node"].survey] = write'["node"].by
    BY <1>1, <1>node, <1>types DEF Editing
  <2> QED BY <1>lost, <2>1, <2>2, <2>3 DEF EditsInv, Version
<1>2. ASSUME NEW w \in Writers, NEW after \in WriteStates, write'[w] = after,
             \A v \in Writers : v # w => write'[v] = write[v],
             Opens(w, after) \/ Reads(w, after) \/ Checks(w, after) \/ Locks(w, after)
      PROVE  EditsInv'
  <2>1. UNCHANGED <<owner, revision, purged, local>>
    BY <1>2 DEF Opens, Reads, Checks, Locks, cloud
  <2>2. MadeTo(after)
    <3>1. CASE Opens(w, after)
      <4>1. /\ after.survey \in Surveys /\ after.expected \in 1 .. Version(after.survey)
            /\ after.settings = revision[after.survey][after.expected].settings /\ after.pc = "row"
        BY <1>types, <3>1, ShownVersions DEF Opens
      <4>2. Exists(after.survey)
        BY <1>types, <4>1 DEF Exists
      <4> QED BY <4>1, <4>2 DEF MadeTo
    <3>2. CASE Reads(w, after)
      <4>1. /\ MadeTo(write[w]) /\ SameEdit(write[w], after)
            /\ after.survey \in Surveys /\ write[w].pc = "row"
        BY <1>types, <1>inv, <3>2 DEF Reads, Editing, SameEdit
      <4>2. /\ Shown(w, after.survey) \in 1 .. Version(after.survey)
            /\ after.questions = revision[after.survey][Shown(w, after.survey)].questions
        BY <1>types, <3>2, <4>1, ShownVersions DEF Reads
      <4>3. Shown(w, after.survey) >= after.expected \/ w = "web"
        BY <1>types, <1>inv, <4>1 DEF Shown, SameEdit, Writers
      <4>4. Version(after.survey) = after.expected => Shown(w, after.survey) = after.expected
        BY <1>types, <4>1, <4>2, <4>3 DEF Shown, WriteStates
      <4> QED BY <4>1, <4>2, <4>4 DEF MadeTo, SameEdit
    <3>3. CASE Checks(w, after) \/ Locks(w, after)
      <4>1. MadeTo(write[w]) /\ SameEdit(write[w], after) /\ after.questions = write[w].questions
            /\ write[w].pc # "row"
        BY <1>inv, <3>3 DEF Checks, Locks, Editing
      <4> QED BY <4>1 DEF MadeTo, SameEdit
    <3> QED BY <1>2, <3>1, <3>2, <3>3
  <2>3. after.pc = "locked" => Version(after.survey) = after.expected
    BY <1>2 DEF Opens, Reads, Checks, Locks
  <2>4. ASSUME w = "node"
        PROVE  /\ after.pc = "row" => after.expected <= local[after.survey].version
               /\ after.pc \in {"checked", "locked"} /\ Version(after.survey) = after.expected =>
                      owner[after.survey] = after.by
    <3>1. CASE Opens(w, after)
      BY <1>types, <2>4, <3>1 DEF Opens, Shown
    <3>2. CASE Reads(w, after) \/ Checks(w, after)
      BY <3>2 DEF Reads, Checks
    <3>3. CASE Locks(w, after)
      BY <1>inv, <2>4, <3>3 DEF Locks, SameEdit
    <3> QED BY <1>2, <3>1, <3>2, <3>3
  <2>5. ASSUME NEW v \in Writers, write'[v].pc \in Editing PROVE MadeTo(write[v])'
    <3>1. MadeTo(write'[v])
      BY <1>2, <1>inv, <2>2, <2>5
    <3> QED BY <2>1, <3>1 DEF MadeTo, Exists, Version
  <2>6. \A v \in Writers : write'[v].pc = "locked" =>
            Version(write'[v].survey) = write'[v].expected
    BY <1>2, <1>inv, <2>3
  <2>7. /\ write'["node"].pc = "row" =>
               write'["node"].expected <= local[write'["node"].survey].version
        /\ write'["node"].pc \in {"checked", "locked"}
               /\ Version(write'["node"].survey) = write'["node"].expected =>
               owner[write'["node"].survey] = write'["node"].by
    BY <1>2, <1>inv, <1>types, <2>4
  <2> QED BY <1>lost, <2>1, <2>5, <2>6, <2>7 DEF EditsInv, Version
<1> QED BY <1>1, <1>2, EditKinds

LEMMA EditsHold == Spec => []EditsInv
BY EditsInit, EditsStep, TypesHold, PTL DEF Spec

\* Every revision differs from the one before it only by the edit that made it: of two windows,
\* or of the website and a node, none undoes what another saved.
THEOREM EditsAreKept == Spec => []NoEditIsLost
<1>1. EditsInv => NoEditIsLost
  BY DEF EditsInv
<1> QED BY <1>1, EditsHold, PTL

\* A node's write commits only for the survey's owner, although survey_update reads the owner
\* before change_definition locks the row: a change of owner is a new version.
THEOREM WritesAreTheOwners == Spec => []OnlyTheOwnerWrites
<1>1. EditsInv => OnlyTheOwnerWrites
  BY DEF EditsInv, OnlyTheOwnerWrites, Writers
<1> QED BY <1>1, EditsHold, PTL

-----------------------------------------------------------------------------
(* Nothing is missed *)

\* The cloud announces what it writes after every cursor it gave out, and prunes only what a
\* cursor it still serves has passed.
LEMMA AheadKept ==
    ASSUME TypeInv, CloudKind, NEW s \in Surveys, NEW cursor \in CursorType, cursor.device # None,
           cursor.seq <= clock.value, owner'[s] = cursor.device, cursor.seq >= clock'.pruned
    PROVE  \/ Ahead(s, cursor)'
           \/ /\ owner[s] = cursor.device /\ cursor.seq >= clock.pruned
              /\ Version(s)' = Version(s) /\ (Ahead(s, cursor) => Ahead(s, cursor)')
<1>types. /\ TypeOK /\ clock \in Clock /\ clock.value \in Nat /\ clock.pruned \in Nat
          /\ cursor.seq \in Nat /\ \A u \in Surveys : Version(u) \in Nat
          /\ \A c \in changes : c.seq \in Nat
  BY RevisionTypes DEF TypeInv, TypeOK, Clock, CursorType, Change
<1>1. CASE UNCHANGED cloud
  BY <1>1 DEF cloud, Version, Ahead
<1>2. ASSUME NEW u \in Surveys, NEW definition \in Definition, Writes(u, definition)
      PROVE  \/ Ahead(s, cursor)'
             \/ /\ owner[s] = cursor.device /\ cursor.seq >= clock.pruned
                /\ Version(s)' = Version(s) /\ (Ahead(s, cursor) => Ahead(s, cursor)')
  <2>1. /\ Version(u)' = Version(u) + 1
        /\ u # s => revision'[s] = revision[s] /\ owner'[s] = owner[s] /\ Version(s)' = Version(s)
    BY <1>types, <1>2, WrittenSurvey
  <2>2. IF owner'[u] = None THEN UNCHANGED <<clock, changes>> ELSE Announced(u)
    BY <1>2 DEF Writes
  <2>3. CASE u = s
    <3> DEFINE c == [seq |-> NextSeq, survey |-> s, version |-> Version(s) + 1]
    <3>1. Announced(s)
      BY <2>2, <2>3
    <3>2. c \in changes' /\ c.survey = s /\ c.version = Version(s) + 1 /\ c.seq = clock.value + 1
      BY <3>1 DEF Announced, NextSeq
    <3> HIDE DEF c
    <3>3. c.seq > cursor.seq /\ c.version = Version(s)'
      BY <1>types, <2>1, <2>3, <3>2
    <3> QED BY <3>2, <3>3 DEF Ahead
  <2>4. CASE u # s
    <3>1. changes \subseteq changes' /\ clock'.pruned = clock.pruned
      BY <1>types, <2>2, AnnouncedTypes DEF Announced
    <3> QED BY <2>1, <2>4, <3>1 DEF Ahead
  <2> QED BY <2>3, <2>4
<1>3. ASSUME NEW u \in Surveys, Deletes(u)
      PROVE  /\ owner[s] = cursor.device /\ cursor.seq >= clock.pruned
             /\ Version(s)' = Version(s) /\ (Ahead(s, cursor) => Ahead(s, cursor)')
  <2>1. UNCHANGED <<owner, clock, changes>> /\ u # s
    BY <1>3 DEF Deletes
  <2>2. revision'[s] = revision[s]
    BY <1>types, <1>3, <2>1 DEF Deletes, TypeOK
  <2> QED BY <2>1, <2>2 DEF Version, Ahead
<1>4. ASSUME NEW last \in Nat, Prunes(last)
      PROVE  /\ owner[s] = cursor.device /\ cursor.seq >= clock.pruned
             /\ Version(s)' = Version(s) /\ (Ahead(s, cursor) => Ahead(s, cursor)')
  <2>1. UNCHANGED <<owner, revision>> /\ changes' = {c \in changes : c.seq > last}
    BY <1>4 DEF Prunes
  <2>2. clock'.pruned = IF clock.pruned > last THEN clock.pruned ELSE last
    BY <1>types, <1>4 DEF Prunes, Clock
  <2>3. cursor.seq >= clock.pruned /\ cursor.seq >= last
    BY <1>types, <2>2
  <2>4. \A c \in changes : c.seq > cursor.seq => c \in changes'
    BY <1>types, <2>1, <2>3
  <2> QED BY <2>1, <2>3, <2>4 DEF Version, Ahead
<1> QED BY <1>1, <1>2, <1>3, <1>4 DEF CloudKind

\* What a page leaves out comes after its last change.
LEMMA PageIsAPrefix ==
    ASSUME TypeInv, NEW c \in RowsRead, c \notin PageRead
    PROVE  \A d \in PageRead : c.seq > d.seq
<1> SUFFICES ASSUME NEW d \in PageRead, ~(c.seq > d.seq) PROVE FALSE
  OBVIOUS
<1>1. /\ RowsRead \subseteq changes /\ PageRead \subseteq RowsRead
      /\ IsFiniteSet(changes) /\ \A e \in changes : e.seq \in Nat
  BY PageBounds DEF TypeInv, TypeOK, ClockInv, Change
<1>2. UpTo(c) \subseteq UpTo(d) /\ UpTo(d) \subseteq changes
  BY <1>1 DEF UpTo
<1>3. IsFiniteSet(UpTo(d))
  BY <1>1, <1>2, FS_Subset
<1>4. IsFiniteSet(UpTo(c)) /\ Cardinality(UpTo(c)) <= Cardinality(UpTo(d))
  BY <1>2, <1>3, FS_Subset
<1>5. Cardinality(UpTo(c)) \in Nat /\ Cardinality(UpTo(d)) \in Nat
  BY <1>3, <1>4, FS_CardinalityType
<1>6. Cardinality(UpTo(d)) <= PageSize /\ PageSize \in Nat
  BY PageAssumption DEF PageRead
<1> QED BY <1>4, <1>5, <1>6 DEF PageRead

LEMMA MissInit == Init => MissInv
BY InitialTypes DEF Init, MissInv, NoChangeIsMissed, PageComplete

\* The stored cursor, while the link keeps it.
LEMMA StoredCursorKept ==
    ASSUME TypeInv, SyncInv, NoChangeIsMissed, [Next]_vars, link'.cursor = link.cursor
    PROVE  NoChangeIsMissed'
<1>types. /\ link.cursor \in CursorType
          /\ \A s \in Surveys : Version(s) \in Nat /\ local[s].version \in Nat
  BY RevisionTypes DEF TypeInv, TypeOK, Link, Copy
<1>kind. CloudKind /\ (\A s \in Surveys : LocalKind(s)) /\ local' \in [Surveys -> Copy]
  BY CloudKinds, LocalKinds
<1>1. ASSUME NEW s \in Surveys, link.cursor # NoCursor, owner'[s] = link.cursor.device,
             link.cursor.seq >= clock'.pruned, local'[s].version < Len(revision'[s])
      PROVE  \E c \in changes' : /\ c.survey = s /\ c.version = Len(revision'[s])
                                 /\ c.seq > link.cursor.seq
  <2>1. PICK cursor \in CursorType : cursor = link.cursor
    BY <1>types
  <2>2. cursor.device # None /\ cursor.seq <= clock.value
    BY <1>1, <2>1 DEF SyncInv
  <2>3. \/ Ahead(s, cursor)'
        \/ /\ owner[s] = cursor.device /\ cursor.seq >= clock.pruned
           /\ Version(s)' = Version(s) /\ (Ahead(s, cursor) => Ahead(s, cursor)')
    BY <1>1, <1>kind, <2>1, <2>2, AheadKept
  <2>4. local[s].version <= local'[s].version /\ local'[s].version \in Nat
    BY <1>types, <1>kind DEF LocalKind, Copy
  <2>5. Version(s)' = Version(s) => local[s].version < Version(s)
    BY <1>1, <1>types, <2>4 DEF Version
  <2>6. Ahead(s, cursor)'
    BY <1>1, <2>1, <2>3, <2>5 DEF NoChangeIsMissed, Ahead
  <2> QED BY <2>1, <2>6 DEF Ahead, Version
<1> QED BY <1>1 DEF NoChangeIsMissed, Version

\* The page, while the sync keeps it.
LEMMA PageKept ==
    ASSUME TypeInv, SyncInv, PageComplete, [Next]_vars, UNCHANGED sync,
           link'.generation = link.generation
    PROVE  PageComplete'
<1>types. /\ sync.next \in CursorType
          /\ \A s \in Surveys : Version(s) \in Nat /\ local[s].version \in Nat
  BY RevisionTypes DEF TypeInv, TypeOK, SyncStates, Copy
<1>kind. CloudKind /\ (\A s \in Surveys : LocalKind(s)) /\ local' \in [Surveys -> Copy]
  BY CloudKinds, LocalKinds
<1>1. ASSUME sync.pc = "apply", Current, NEW s \in Surveys, owner'[s] = sync.next.device,
             sync.next.seq >= clock'.pruned, local'[s].version < Len(revision'[s]),
             \A p \in sync.page : p.survey = s => p.version < Len(revision'[s])
      PROVE  \E c \in changes' : /\ c.survey = s /\ c.version = Len(revision'[s])
                                 /\ c.seq > sync.next.seq
  <2>1. PICK cursor \in CursorType : cursor = sync.next
    BY <1>types
  <2>2. cursor.device # None /\ cursor.seq <= clock.value
    BY <1>1, <2>1 DEF SyncInv
  <2>3. \/ Ahead(s, cursor)'
        \/ /\ owner[s] = cursor.device /\ cursor.seq >= clock.pruned
           /\ Version(s)' = Version(s) /\ (Ahead(s, cursor) => Ahead(s, cursor)')
    BY <1>1, <1>kind, <2>1, <2>2, AheadKept
  <2>4. local[s].version <= local'[s].version /\ local'[s].version \in Nat
    BY <1>types, <1>kind DEF LocalKind, Copy
  <2>5. Version(s)' = Version(s) =>
            /\ local[s].version < Version(s)
            /\ \A p \in sync.page : p.survey = s => p.version < Version(s)
    BY <1>1, <1>types, <2>4 DEF Version
  <2>6. Ahead(s, cursor)'
    BY <1>1, <2>1, <2>3, <2>5 DEF PageComplete
  <2> QED BY <2>1, <2>6 DEF Ahead, Version
<1> QED BY <1>1 DEF PageComplete, Ahead, Version, Current

\* What is not on a page is a change after the cursor the page comes with.
LEMMA PagesAreComplete ==
    ASSUME TypeInv, SyncInv, MissInv, UNCHANGED <<cloud, local, link>>, ListsAll \/ ListsChanges
    PROVE  PageComplete'
<1>types. \A s \in Surveys : Version(s) \in Nat /\ local[s].version \in Nat
  BY RevisionTypes DEF TypeInv, TypeOK, Copy
<1>1. ASSUME ListsAll PROVE PageComplete'
  <2>1. /\ sync'.next.device = sync.by
        /\ sync'.page = {[survey |-> s, version |-> Version(s)] :
                             s \in {s \in Surveys : Exists(s) /\ owner[s] = sync.by}}
    BY <1>1 DEF ListsAll, Cursor
  <2>2. ASSUME NEW s \in Surveys, owner[s] = sync.by, local[s].version < Version(s)
        PROVE  \E p \in sync'.page : p.survey = s /\ ~(p.version < Version(s))
    <3>1. Exists(s)
      BY <1>types, <2>2 DEF Exists
    <3>2. [survey |-> s, version |-> Version(s)] \in sync'.page
      BY <2>1, <2>2, <3>1
    <3> QED BY <1>types, <3>2
  <2> QED BY <2>1, <2>2 DEF PageComplete, cloud, Version
<1>2. ASSUME ListsChanges PROVE PageComplete'
  <2>1. /\ sync.pc = "rows" /\ sync'.gen = sync.gen /\ sync'.next.device = sync.by
        /\ sync'.next.seq = IF PageRead = {} THEN sync.cursor.seq
                            ELSE Max({c.seq : c \in PageRead})
        /\ sync'.page = {[survey |-> c.survey, version |-> c.version] : c \in PageRead}
    BY <1>2 DEF ListsChanges, Cursor
  <2>2. ASSUME NEW s \in Surveys, Current, owner[s] = sync.by, local[s].version < Version(s),
               \A p \in sync'.page : p.survey = s => p.version < Version(s)
        PROVE  \E c \in changes : c.survey = s /\ c.version = Version(s) /\ c.seq > sync'.next.seq
    <3>1. /\ sync.cursor = link.cursor /\ sync.cursor.device = sync.by /\ sync.by # None
          /\ sync.cursor.seq >= clock.pruned
      BY <2>1, <2>2 DEF SyncInv, MissInv, TypeInv, KnownInv
    <3>2. link.cursor # NoCursor
      BY <3>1 DEF NoCursor
    <3>3. PICK c \in changes : c.survey = s /\ c.version = Version(s) /\ c.seq > sync.cursor.seq
      BY <2>2, <3>1, <3>2 DEF MissInv, NoChangeIsMissed
    <3>4. c \in RowsRead
      BY <2>2, <3>3 DEF RowsRead
    <3>5. c \notin PageRead
      <4> SUFFICES ASSUME c \in PageRead PROVE FALSE
        OBVIOUS
      <4>1. [survey |-> c.survey, version |-> c.version] \in sync'.page
        BY <2>1
      <4> QED BY <1>types, <2>2, <3>3, <4>1
    <3>6. c.seq > sync'.next.seq
      <4>1. CASE PageRead = {}
        BY <2>1, <3>3, <4>1
      <4>2. CASE PageRead # {}
        <5>1. PICK d \in PageRead : Max({e.seq : e \in PageRead}) = d.seq
          BY <4>2, PageBounds
        <5> QED BY <2>1, <3>4, <3>5, <4>2, <5>1, PageIsAPrefix
      <4> QED BY <4>1, <4>2
    <3> QED BY <3>3, <3>6
  <2> QED BY <2>1, <2>2 DEF PageComplete, Ahead, Current, cloud, Version
<1> QED BY <1>1, <1>2

\* A page and its cursor are stored together.
LEMMA PagesAreApplied ==
    ASSUME TypeInv, MissInv, UNCHANGED cloud, Applies
    PROVE  NoChangeIsMissed'
<1>types. \A s \in Surveys : Version(s) \in Nat /\ local[s] \in Copy /\ local[s].version \in Nat
  BY RevisionTypes DEF TypeInv, TypeOK, Copy
<1>1. ASSUME NEW s \in Surveys, Applied(s).version < Version(s)
      PROVE  /\ local[s].version < Version(s)
             /\ \A p \in sync.page : p.survey = s => p.version < Version(s)
  <2> DEFINE versions == {p.version : p \in {p \in sync.page : p.survey = s}}
  <2>1. CASE versions = {}
    BY <1>1, <2>1 DEF Applied
  <2>2. CASE versions # {}
    <3>1. \A v \in versions : Known(s, v) /\ v \in 0 .. Version(s)
      <4>1. \A p \in sync.page : Known(p.survey, p.version) /\ p.version \in Nat
        BY DEF TypeInv, TypeOK, KnownInv, SyncStates
      <4> QED BY <1>types, <4>1 DEF Known
    <3>2. Max(versions) \in versions /\ \A v \in versions : v <= Max(versions)
      BY <1>types, <2>2, <3>1, MaxType
    <3>3. Max(versions) \in Nat /\ Known(s, Max(versions))
      BY <1>types, <3>1, <3>2
    <3>4. Applied(s) = Upserted(s, Max(versions))
      BY <2>2 DEF Applied
    <3>5. \A p \in sync.page : p.survey = s => p.version \in versions
      OBVIOUS
    <3> HIDE DEF versions
    <3>6. /\ Applied(s) \in Copy /\ Applied(s).version >= Max(versions)
          /\ Applied(s).version >= local[s].version
      BY <3>3, <3>4, UpsertedCopy
    <3>7. Applied(s).version \in Nat /\ \A v \in versions : v \in Nat /\ v < Version(s)
      BY <1>1, <1>types, <3>1, <3>2, <3>3, <3>6 DEF Copy
    <3> QED BY <1>1, <1>types, <3>5, <3>6, <3>7
  <2> QED BY <2>1, <2>2
<1>2. /\ sync.pc = "apply" /\ Current /\ link'.cursor = sync.next
      /\ \A s \in Surveys : local'[s] = Applied(s)
  BY DEF Applies
<1>3. ASSUME NEW s \in Surveys, owner[s] = sync.next.device, sync.next.seq >= clock.pruned,
             local'[s].version < Version(s)
      PROVE  \E c \in changes : c.survey = s /\ c.version = Version(s) /\ c.seq > sync.next.seq
  BY <1>1, <1>2, <1>3 DEF MissInv, PageComplete, Ahead
<1> QED BY <1>2, <1>3 DEF NoChangeIsMissed, cloud, Version

LEMMA MissStep ==
    ASSUME "late_prune" \notin Disturbances
    PROVE  TypeInv /\ SyncInv /\ MissInv /\ [Next]_vars => MissInv'
<1> SUFFICES ASSUME TypeInv, SyncInv, MissInv, [Next]_vars PROVE MissInv'
  OBVIOUS
<1>types. TypeOK /\ clock \in Clock /\ clock.pruned \in Nat /\ link.generation \in Nat
          /\ sync.gen \in Nat
  BY DEF TypeInv, TypeOK, Clock, Link, SyncStates
<1>kind. CloudKind /\ SyncKind
  BY CloudKinds, SyncKinds
<1>idle. NoSync.pc = "idle"
  BY InitialTypes
<1>pruned. sync.pc = "rows" => clock'.pruned = clock.pruned
  <2>1. ASSUME NEW s \in Surveys, NEW definition \in Definition, Writes(s, definition)
        PROVE  clock'.pruned = clock.pruned
    BY <1>types, <2>1, AnnouncedTypes DEF Writes
  <2> QED BY <1>kind, <2>1 DEF CloudKind, cloud, Deletes, Prunes
<1>rows. /\ sync.pc = "rows" => sync.cursor.seq >= clock.pruned
         /\ NoChangeIsMissed /\ PageComplete
  BY DEF MissInv
<1>1. CASE UNCHANGED <<sync, link>>
  <2>1. NoChangeIsMissed' /\ PageComplete'
    BY <1>1, <1>rows, StoredCursorKept, PageKept
  <2> QED BY <1>1, <1>pruned, <1>rows, <2>1 DEF MissInv
<1>2. CASE sync' = NoSync /\ UNCHANGED link
  <2>1. NoChangeIsMissed'
    BY <1>2, <1>rows, StoredCursorKept
  <2> QED BY <1>2, <1>idle, <2>1 DEF MissInv, PageComplete
<1>3. CASE /\ UNCHANGED <<sync, cloud, local>>
           /\ link'.generation = link.generation + 1 /\ link'.cursor = NoCursor
  <2>1. sync.gen # link'.generation
    BY <1>3, <1>types DEF SyncInv
  <2> QED BY <1>3, <1>rows, <2>1 DEF MissInv, NoChangeIsMissed, PageComplete, Current, cloud
<1>4. CASE /\ UNCHANGED <<cloud, local>>
           /\ Begins \/ Connects \/ ReadsClock \/ ChecksCursor
  <2>1. UNCHANGED link /\ sync'.pc # "apply"
    BY <1>4 DEF Begins, Connects, ReadsClock, ChecksCursor
  <2>2. sync'.pc = "rows" => sync'.cursor.seq >= clock.pruned
    <3>1. sync.cursor.seq \in Nat
      BY DEF TypeInv, TypeOK, SyncStates, CursorType
    <3> QED BY <1>4, <1>types, <3>1
            DEF Begins, Connects, ReadsClock, ChecksCursor, CursorInvalid
  <2>3. NoChangeIsMissed'
    BY <1>rows, <2>1, StoredCursorKept
  <2> QED BY <1>4, <2>1, <2>2, <2>3 DEF MissInv, PageComplete, cloud
<1>5. CASE UNCHANGED <<cloud, local>> /\ (ListsAll \/ ListsChanges)
  <2>1. UNCHANGED link /\ sync'.pc = "apply"
    BY <1>5 DEF ListsAll, ListsChanges
  <2>2. NoChangeIsMissed' /\ PageComplete'
    BY <1>5, <1>rows, <2>1, StoredCursorKept, PagesAreComplete
  <2> QED BY <2>1, <2>2 DEF MissInv
<1>6. CASE UNCHANGED <<cloud, local>> /\ StartsOver
  BY <1>6 DEF StartsOver, MissInv, NoChangeIsMissed, PageComplete
<1>7. CASE UNCHANGED cloud /\ Applies
  <2>1. NoChangeIsMissed'
    BY <1>7, PagesAreApplied
  <2>2. sync'.pc \in {"idle", "changes"}
    BY <1>7, <1>idle DEF Applies
  <2> QED BY <2>1, <2>2 DEF MissInv, PageComplete
<1> QED BY <1>kind, <1>1, <1>2, <1>3, <1>4, <1>5, <1>6, <1>7 DEF SyncKind

\* A page of changes and its cursor skip nothing, whatever commits between the statements that
\* read them: sequence order is commit order. Old changes are not deleted between the two reads
\* of one request ("late_prune"; with it the property fails, which the README describes).
THEOREM ChangesAreNotMissed ==
    ASSUME "late_prune" \notin Disturbances
    PROVE  Spec => []NoChangeIsMissed
<1>1. TypeInv /\ SyncInv /\ MissInv /\ [Next]_vars => MissInv'
  BY MissStep
<1>2. MissInv => NoChangeIsMissed
  BY DEF MissInv
<1> QED BY <1>1, <1>2, MissInit, TypesHold, SyncsHold, PTL DEF Spec
=============================================================================
