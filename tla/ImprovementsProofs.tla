-------------------------- MODULE ImprovementsProofs --------------------------
(***************************************************************************)
(* Theorems about Improvements for every set of items, requests, people    *)
(* and addresses, however the requests interleave and die: a draft becomes *)
(* one item, and a notice is mailed as it was confirmed, once for each     *)
(* delivery and to nobody who had withdrawn.                               *)
(***************************************************************************)
EXTENDS Improvements, FiniteSetTheorems, WellFoundedInduction, TLAPS

-----------------------------------------------------------------------------
(* The invariants *)

\* A request's memory has what its next step reads.
Memory(state, table) ==
    /\ state.pc \in {"created", "move", "draft"} =>
           state.item \in Items /\ table[state.item] # NoItem
    /\ state.pc \in {"send", "sent", "failed"} => state.row \in Addresses
    /\ state.pc = "send" => state.person \in People /\ state.email \in Addresses

\* Types, with the parts of rows and memory that they need to stay so.
TypeInv ==
    /\ TypeOK
    /\ \A i \in Items : item[i] = NoItem \/ item[i].status \in Status
    /\ notice = NoNotice \/ notice.status # None
    /\ \A r \in Requests : Memory(request[r], item)

\* Under the survey's lock one request imports a draft that is not an item yet.
DraftsInv ==
    /\ OneItemPerDraft
    /\ \A r \in Requests :
           request[r].pc \in {"import", "posted", "importing"} => request[r].draft # 0
    /\ \A r \in Requests : request[r].pc = "importing" => ~Imported(request[r].draft)
    /\ \A r, q \in Requests :
           request[r].pc = "importing" /\ request[q].pc = "importing" => r = q

Sender(state) == state.pc \in {"batch", "next", "send", "sent", "failed"}
Unsent == notice.status \in {None, "draft"}

\* Nothing is sent of a draft, what is sent is what was confirmed, and a preview with the token of
\* the draft shows its content.
NoticeInv ==
    /\ Unsent => /\ \A a \in Addresses : mails[a] = <<>>
                 /\ \A r \in Requests : ~Sender(request[r])
    /\ ~Unsent => notice.confirmed = notice.content
    /\ \A r \in Requests : request[r].pc = "preview" =>
           /\ notice # NoNotice /\ request[r].token <= notice.token
           /\ request[r].token = notice.token => request[r].shown = notice.content
    /\ MailIsAsConfirmed

Tries(state, a) == state.pc \in {"send", "sent", "failed"} /\ state.row = a

\* No row is mailed twice without an error.
MailedOnce == \A a \in Addresses : Len(mails[a]) <= 1 + unsure[a]

\* A row is tried by one request, and a row that will be tried again was mailed only when the
\* server reported an error.
DeliveryInv ==
    /\ \A r \in Requests, a \in Addresses :
           Tries(request[r], a) =>
               /\ dispatch[a].status = "sending"
               /\ request[r].pc # "sent" => Len(mails[a]) <= unsure[a]
    /\ \A r, q \in Requests, a \in Addresses :
           Tries(request[r], a) /\ Tries(request[q], a) => r = q
    /\ \A a \in Addresses :
           dispatch[a].status \in {None, "pending", "failed"} => Len(mails[a]) <= unsure[a]
    /\ MailedOnce

\* Rows exist once the notice is confirmed, for a person with their address; whoever is mailed
\* elsewhere has changed it since.
RowIsFor(a, p) == p \in People /\ (email[p] = a \/ p \in moved)
AddressInv ==
    /\ \A a \in Addresses :
           dispatch[a].status # None => ~Unsent /\ RowIsFor(a, dispatch[a].person)
    /\ \A r \in Requests : request[r].pc = "send" =>
           request[r].email = request[r].row \/ request[r].person \in moved
    /\ \A a \in Addresses : \A n \in 1..Len(mails[a]) :
           mails[a][n].address = a \/ mails[a][n].person \in moved

\* Whoever is mailed may be notified, or withdrew since the request looked.
ConsentInv == \A r \in Requests : request[r].pc = "send" => request[r].person \in eligible \union late

-----------------------------------------------------------------------------
(* Maxima *)

LEMMA LeastElement ==
    ASSUME NEW S, S \subseteq Nat, S # {}
    PROVE  \E x \in S : \A y \in S : x <= y
<1>1. PICK x \in S : \A y \in S : <<y, x>> \notin OpToRel(<, Nat)
  BY NatLessThanWellFounded, WFMin
<1>2. \A y \in S : ~(y < x)
  BY <1>1 DEF OpToRel
<1> QED BY <1>2

\* The maximum of a bounded set of numbers is its greatest element.
LEMMA MaxType ==
    ASSUME NEW n \in Nat, NEW S \in SUBSET (0 .. n), S # {}
    PROVE  Max(S) \in S /\ \A y \in S : y <= Max(S)
<1> DEFINE T == {m \in 0 .. n : n - m \in S}
<1>1. PICK z \in S : TRUE
  OBVIOUS
<1>2. n - z \in T
  OBVIOUS
<1>3. \A m \in T : m \in Nat
  OBVIOUS
<1> HIDE DEF T
<1>4. T \subseteq Nat /\ T # {}
  BY <1>2, <1>3
<1> USE DEF T
<1>5. PICK t \in T : \A y \in T : t <= y
  BY <1>4, LeastElement
<1>6. n - t \in S
  BY <1>5
<1>7. ASSUME NEW y \in S PROVE n - t >= y
  <2>1. n - y \in T
    OBVIOUS
  <2> QED BY <1>5, <2>1
<1>8. \E x \in S : \A y \in S : x >= y
  BY <1>6, <1>7
<1> QED BY <1>8 DEF Max

-----------------------------------------------------------------------------
(* Types *)

\* The constants that are not members of anything.
LEMMA NoneIsNothing ==
    /\ None \notin Items /\ None \notin People /\ None \notin Addresses
    /\ None \notin Status /\ None # "restore"
    /\ None \notin {"pending", "sending", "sent", "failed", "partially_sent"}
BY NoneAssumption DEF Status

LEMMA ConstantTypes ==
    /\ Idle \in RequestStates /\ Idle.pc = "idle"
    /\ NoItem \in Item /\ NoNotice \in Notice /\ NoRow \in DispatchRow
    /\ InitialRow \in HistoryRow
BY DEF Idle, RequestStates, NoItem, Item, Status, NoNotice, Notice, NoRow, DispatchRow, InitialRow,
       HistoryRow

\* A restored item gets the status of a row of its history.
LEMMA RestoreTargetType ==
    ASSUME NEW i \in Items, history \in [Items -> Seq(HistoryRow)]
    PROVE  RestoreTarget(i) \in Status
<1>1. CASE Archivings(i) = {}
  BY <1>1 DEF RestoreTarget, Status
<1>2. CASE Archivings(i) # {}
  <2> DEFINE top == Max(Archivings(i))
  <2>1. Len(history[i]) \in Nat /\ Archivings(i) \in SUBSET (0 .. Len(history[i]))
    BY DEF Archivings
  <2>2. top \in Archivings(i)
    BY <1>2, <2>1, MaxType
  <2>3. top \in 1 .. Len(history[i]) /\ history[i][top].from # None
    BY <2>2 DEF Archivings
  <2>4. history[i][top] \in HistoryRow
    BY <2>3
  <2> QED BY <1>2, <2>3, <2>4 DEF RestoreTarget, HistoryRow
<1> QED BY <1>1, <1>2

\* A request that only remembers something.
LEMMA RequestGoes ==
    ASSUME TypeInv, NEW r \in Requests, NEW state \in RequestStates, Goes(r, state),
           Memory(state, item'),
           \A i \in Items : item[i] # NoItem => item'[i] # NoItem
    PROVE  /\ request' \in [Requests -> RequestStates]
           /\ \A q \in Requests : Memory(request'[q], item')
<1>1. request \in [Requests -> RequestStates] /\ \A q \in Requests : Memory(request[q], item)
  BY DEF TypeInv, TypeOK
<1>2. request' = [request EXCEPT ![r] = state]
  BY DEF Goes
<1>3. ASSUME NEW q \in Requests PROVE Memory(request'[q], item')
  <2>1. CASE q = r
    BY <1>1, <1>2, <2>1
  <2>2. CASE q # r
    <3>1. request'[q] = request[q]
      BY <1>1, <1>2, <2>2
    <3> QED BY <1>1, <3>1 DEF Memory
  <2> QED BY <2>1, <2>2
<1> QED BY <1>1, <1>2, <1>3

\* A request that ends.
LEMMA RequestEnds ==
    ASSUME TypeInv, NEW r \in Requests, Ends(r),
           \A i \in Items : item[i] # NoItem => item'[i] # NoItem
    PROVE  /\ request' \in [Requests -> RequestStates]
           /\ \A q \in Requests : Memory(request'[q], item')
<1>1. Memory(Idle, item')
  BY ConstantTypes DEF Memory
<1> QED BY <1>1, ConstantTypes, RequestGoes DEF Ends

\* A row of an item is written.
LEMMA ItemWritten ==
    ASSUME TypeInv, NEW i \in Items, NEW row \in Item, row.status \in Status,
           item' = [item EXCEPT ![i] = row]
    PROVE  /\ item' \in [Items -> Item] /\ item'[i] # NoItem
           /\ \A j \in Items : item'[j] = NoItem \/ item'[j].status \in Status
           /\ \A j \in Items : item[j] # NoItem => item'[j] # NoItem
<1>1. row # NoItem
  BY NoneIsNothing DEF NoItem
<1> QED BY <1>1 DEF TypeInv, TypeOK

LEMMA HistoryAppended ==
    ASSUME TypeInv, NEW i \in Items, NEW row \in HistoryRow,
           history' = [history EXCEPT ![i] = Append(@, row)]
    PROVE  history' \in [Items -> Seq(HistoryRow)]
<1>1. history \in [Items -> Seq(HistoryRow)]
  BY DEF TypeInv, TypeOK
<1>2. Append(history[i], row) \in Seq(HistoryRow)
  BY <1>1
<1> QED BY <1>1, <1>2

LEMMA NewItemType ==
    ASSUME NEW draft \in Nat
    PROVE  NewItem(draft) \in Item /\ NewItem(draft).status \in Status /\ NewItem(draft).draft = draft
BY DEF NewItem, NoItem, Item, Status

LEMMA MovedType ==
    ASSUME NEW i \in Items, item \in [Items -> Item], NEW to \in Status
    PROVE  /\ Moved(i, to) \in Item /\ Moved(i, to).status \in Status
           /\ Moved(i, to).draft = item[i].draft
<1> DEFINE from == item[i].status
           completed == IF to = "completed" /\ from # "archived" THEN TRUE
                        ELSE IF from = "completed" /\ to # "archived" THEN FALSE
                        ELSE item[i].completed
           archived == IF to = "archived" THEN TRUE
                       ELSE IF from = "archived" THEN FALSE ELSE item[i].archived
<1>1. item[i] \in Item
  OBVIOUS
<1>2. completed \in BOOLEAN
  BY <1>1 DEF Item
<1>3. archived \in BOOLEAN
  BY <1>1 DEF Item
<1>4. Moved(i, to) = [item[i] EXCEPT !.status = to, !.completed = completed, !.archived = archived]
  BY <1>1 DEF Moved, Item
<1> HIDE DEF completed, archived
<1> QED BY <1>1, <1>2, <1>3, <1>4 DEF Item

\* What the requests of the workflow remember.
LEMMA WorkflowMemory ==
    ASSUME NEW i \in Items, NEW status \in Status \union {"restore"}, NEW draft \in Nat
    PROVE  /\ [Idle EXCEPT !.pc = "created", !.kind = "create", !.item = i] \in RequestStates
           /\ [Idle EXCEPT !.pc = "move", !.kind = "move", !.item = i, !.status = status]
                  \in RequestStates
           /\ [Idle EXCEPT !.pc = "import", !.kind = "import", !.draft = draft] \in RequestStates
           /\ [Idle EXCEPT !.pc = "draft", !.kind = "draft", !.item = i] \in RequestStates
BY DEF Idle, RequestStates, Kinds

LEMMA TransitionTypes ==
    ASSUME TypeInv, NEW r \in Requests, TransitionImprovement(r)
    PROVE  /\ item' \in [Items -> Item] /\ history' \in [Items -> Seq(HistoryRow)]
           /\ \A j \in Items : item'[j] = NoItem \/ item'[j].status \in Status
           /\ \A j \in Items : item[j] # NoItem => item'[j] # NoItem
           /\ \A j \in Items : item'[j].draft = item[j].draft
<1> DEFINE i == request[r].item
           requested == request[r].status
           to == IF requested = "restore" THEN RestoreTarget(i) ELSE requested
<1>types. TypeOK /\ Memory(request[r], item) /\ request[r] \in RequestStates
  BY DEF TypeInv, TypeOK
<1>1. i \in Items /\ item[i] # NoItem /\ item[i].status \in Status
  BY <1>types DEF Memory, TransitionImprovement, TypeInv
<1>2. CASE TransitionAllowed(i, requested, to)
  <2>1. to \in Status
    <3>1. CASE requested = "restore"
      BY <1>1, <1>types, <3>1, RestoreTargetType DEF TypeOK
    <3>2. CASE requested # "restore"
      <4>1. to \in Allowed[item[i].status]
        BY <1>2, <3>2 DEF TransitionAllowed
      <4> QED BY <4>1, <1>1 DEF Allowed, Status
    <3> QED BY <3>1, <3>2
  <2>2. /\ item' = [item EXCEPT ![i] = Moved(i, to)]
        /\ history' = [history EXCEPT ![i] = Append(@, [from |-> item[i].status, to |-> to])]
    BY <1>2 DEF TransitionImprovement
  <2> HIDE DEF to
  <2>3. [from |-> item[i].status, to |-> to] \in HistoryRow
    BY <1>1, <2>1 DEF HistoryRow
  <2>4. Moved(i, to) \in Item /\ Moved(i, to).status \in Status /\ Moved(i, to).draft = item[i].draft
    BY <1>1, <2>1, <1>types, MovedType DEF TypeOK
  <2> HIDE DEF i
  <2> QED BY <1>1, <1>types, <2>2, <2>3, <2>4, ItemWritten, HistoryAppended DEF TypeOK
<1>3. CASE ~TransitionAllowed(i, requested, to)
  <2>1. UNCHANGED items
    BY <1>3 DEF TransitionImprovement
  <2> QED BY <1>types, <2>1 DEF TypeInv, TypeOK, items
<1> QED BY <1>2, <1>3

\* A step of a request that touches items, their history and the requests at most.
LEMMA ItemStepTypes ==
    ASSUME TypeInv,
           item' \in [Items -> Item], history' \in [Items -> Seq(HistoryRow)],
           \A j \in Items : item'[j] = NoItem \/ item'[j].status \in Status,
           request' \in [Requests -> RequestStates],
           \A q \in Requests : Memory(request'[q], item'),
           UNCHANGED <<website, notices, outside>>
    PROVE  TypeInv'
BY DEF TypeInv, TypeOK, notices, outside, people

LEMMA WorkflowTypes ==
    ASSUME TypeInv, NEW r \in Requests, Workflow(r)
    PROVE  TypeInv'
<1>types. TypeOK /\ Memory(request[r], item) /\ request[r] \in RequestStates
  BY DEF TypeInv, TypeOK
<1>same. ASSUME UNCHANGED items
         PROVE  /\ item' \in [Items -> Item] /\ history' \in [Items -> Seq(HistoryRow)]
                /\ \A j \in Items : item'[j] = NoItem \/ item'[j].status \in Status
                /\ \A j \in Items : item[j] # NoItem => item'[j] # NoItem
  BY <1>same DEF TypeInv, TypeOK, items
<1>1. CASE CreateItem(r)
  <2>1. PICK i \in Unused :
            /\ item' = [item EXCEPT ![i] = NewItem(0)]
            /\ Goes(r, [Idle EXCEPT !.pc = "created", !.kind = "create", !.item = i])
            /\ UNCHANGED <<history, website, notices, outside>>
    BY <1>1 DEF CreateItem
  <2> DEFINE state == [Idle EXCEPT !.pc = "created", !.kind = "create", !.item = i]
  <2>2. i \in Items
    BY <2>1 DEF Unused, Free
  <2>3. state \in RequestStates /\ state.pc = "created" /\ state.item = i
    BY <2>2, WorkflowMemory DEF Idle
  <2>4. /\ item' \in [Items -> Item] /\ item'[i] # NoItem
        /\ \A j \in Items : item'[j] = NoItem \/ item'[j].status \in Status
        /\ \A j \in Items : item[j] # NoItem => item'[j] # NoItem
    BY <2>1, <2>2, NewItemType, ItemWritten
  <2>5. Memory(state, item')
    BY <2>2, <2>3, <2>4 DEF Memory
  <2> HIDE DEF state
  <2> QED BY <1>types, <2>1, <2>3, <2>4, <2>5, RequestGoes, ItemStepTypes DEF TypeOK, state
<1>2. CASE RecordInitialStatus(r)
  <2>1. /\ history' = [history EXCEPT ![request[r].item] = Append(@, InitialRow)]
        /\ Ends(r) /\ UNCHANGED <<item, website, notices, outside>>
        /\ request[r].item \in Items
    BY <1>2, <1>types DEF RecordInitialStatus, Memory
  <2>2. history' \in [Items -> Seq(HistoryRow)]
    BY <2>1, ConstantTypes, HistoryAppended
  <2> QED BY <1>types, <2>1, <2>2, RequestEnds, ItemStepTypes DEF TypeInv, TypeOK
<1>3. CASE OpenMove(r)
  <2>0. PICK i \in Items \ Free : \E status \in StatusTargets(i) :
            /\ Goes(r, [Idle EXCEPT !.pc = "move", !.kind = "move", !.item = i, !.status = status])
            /\ UNCHANGED <<items, website, notices, outside>>
    BY <1>3 DEF OpenMove
  <2>1. PICK status \in StatusTargets(i) :
            /\ Goes(r, [Idle EXCEPT !.pc = "move", !.kind = "move", !.item = i, !.status = status])
            /\ UNCHANGED <<items, website, notices, outside>>
    BY <2>0
  <2> DEFINE state == [Idle EXCEPT !.pc = "move", !.kind = "move", !.item = i, !.status = status]
  <2>2. i \in Items /\ item[i] # NoItem /\ item[i].status \in Status
    BY <2>1 DEF Free, TypeInv
  <2>3. status \in Status \union {"restore"}
    BY <2>1, <2>2 DEF StatusTargets, Allowed, Status
  <2>4. state \in RequestStates /\ state.pc = "move" /\ state.item = i
    BY <2>2, <2>3, WorkflowMemory DEF Idle
  <2>5. Memory(state, item')
    BY <2>1, <2>2, <2>4 DEF Memory, items
  <2> HIDE DEF state
  <2> QED BY <1>same, <2>1, <2>4, <2>5, RequestGoes, ItemStepTypes DEF state
<1>4. CASE TransitionImprovement(r)
  <2>1. Ends(r) /\ UNCHANGED <<website, notices, outside>>
    BY <1>4 DEF TransitionImprovement
  <2> QED BY <1>4, <2>1, TransitionTypes, RequestEnds, ItemStepTypes
<1>5. CASE OpenImport(r)
  <2> DEFINE state == [Idle EXCEPT !.pc = "import", !.kind = "import", !.draft = website.stage]
  <2>1. Goes(r, state) /\ UNCHANGED <<items, website, notices, outside>>
    BY <1>5 DEF OpenImport
  <2>2. website.stage \in Nat
    BY <1>types DEF TypeOK
  <2>3. state \in RequestStates /\ state.pc = "import"
    BY <2>2 DEF RequestStates, Idle, Kinds
  <2>4. Memory(state, item')
    BY <2>3 DEF Memory
  <2> HIDE DEF state
  <2> QED BY <1>same, <2>1, <2>3, <2>4, RequestGoes, ItemStepTypes
<1>6. CASE PostImport(r)
  <2> DEFINE state == [request[r] EXCEPT !.pc = "posted", !.version = website.version]
  <2>1. (Goes(r, state) \/ Ends(r)) /\ UNCHANGED <<items, website, notices, outside>>
    BY <1>6 DEF PostImport
  <2>2. website.version \in Nat
    BY <1>types DEF TypeOK
  <2>3. state \in RequestStates /\ state.pc = "posted"
    BY <1>types, <2>2 DEF RequestStates
  <2>4. Memory(state, item')
    BY <2>3 DEF Memory
  <2> HIDE DEF state
  <2> QED BY <1>same, <2>1, <2>3, <2>4, RequestGoes, RequestEnds, ItemStepTypes
<1>7. CASE LockImport(r)
  <2> DEFINE state == [request[r] EXCEPT !.pc = "importing"]
  <2>1. (Goes(r, state) \/ Ends(r)) /\ UNCHANGED <<items, website, notices, outside>>
    BY <1>7 DEF LockImport
  <2>2. state \in RequestStates /\ state.pc = "importing"
    BY <1>types DEF RequestStates
  <2>3. Memory(state, item')
    BY <2>2 DEF Memory
  <2> HIDE DEF state
  <2> QED BY <1>same, <2>1, <2>2, <2>3, RequestGoes, RequestEnds, ItemStepTypes
<1>8. CASE CommitImport(r)
  <2>1. PICK i \in Unused :
            /\ item' = [item EXCEPT ![i] = NewItem(request[r].draft)]
            /\ history' = [history EXCEPT ![i] = <<InitialRow>>]
            /\ Ends(r) /\ UNCHANGED <<website, notices, outside>>
    BY <1>8 DEF CommitImport
  <2>2. i \in Items /\ request[r].draft \in Nat
    BY <2>1, <1>types DEF Unused, Free, RequestStates
  <2>3. /\ item' \in [Items -> Item]
        /\ \A j \in Items : item'[j] = NoItem \/ item'[j].status \in Status
        /\ \A j \in Items : item[j] # NoItem => item'[j] # NoItem
    BY <2>1, <2>2, NewItemType, ItemWritten
  <2>4. history' \in [Items -> Seq(HistoryRow)]
    <3>1. <<InitialRow>> \in Seq(HistoryRow)
      BY ConstantTypes
    <3> QED BY <1>types, <2>1, <2>2, <3>1 DEF TypeOK
  <2> QED BY <2>1, <2>3, <2>4, RequestEnds, ItemStepTypes
<1> QED BY <1>1, <1>2, <1>3, <1>4, <1>5, <1>6, <1>7, <1>8 DEF Workflow

\* A step of a request that touches the notice and its deliveries.
LEMMA NoticeStepTypes ==
    ASSUME TypeInv,
           notice' \in Notice, notice' = NoNotice \/ notice'.status # None,
           dispatch' \in [Addresses -> DispatchRow],
           mails' \in [Addresses -> Seq(Mail)], unsure' \in [Addresses -> Nat], events' \in Nat,
           request' \in [Requests -> RequestStates],
           \A q \in Requests : Memory(request'[q], item'),
           UNCHANGED <<items, website, people, scenario>>
    PROVE  TypeInv'
BY DEF TypeInv, TypeOK, items, people

LEMMA RowsAreFinite ==
    ASSUME NEW status
    PROVE  /\ Rows(status) \subseteq Addresses /\ IsFiniteSet(Rows(status))
           /\ Cardinality(Rows(status)) \in Nat
<1>1. Rows(status) \subseteq Addresses
  BY DEF Rows
<1> QED BY <1>1, AddressAssumption, FS_Subset, FS_CardinalityType

LEMMA RecipientsAreFinite ==
    ASSUME TypeInv
    PROVE  /\ Recipients \subseteq Addresses /\ Cardinality(Recipients) \in Nat
<1>1. Recipients \subseteq Addresses
  BY AddressAssumption DEF Recipients, TypeInv, TypeOK
<1> QED BY <1>1, AddressAssumption, FS_Subset, FS_CardinalityType

LEMMA FinalStatusType == FinalStatus \in {"sending", "partially_sent", "failed", "sent"}
<1> DEFINE unfinished == Rows("pending") \union Rows("sending") # {}
<1>1. CASE unfinished
  BY <1>1, Zenon DEF FinalStatus
<1>2. CASE ~unfinished /\ Rows("failed") # {} /\ Rows("sent") # {}
  BY <1>2 DEF FinalStatus
<1>3. CASE ~unfinished /\ Rows("failed") # {} /\ Rows("sent") = {}
  BY <1>3 DEF FinalStatus
<1>4. CASE ~unfinished /\ Rows("failed") = {}
  BY <1>4 DEF FinalStatus
<1> QED BY <1>1, <1>2, <1>3, <1>4

LEMMA EditedType ==
    ASSUME notice \in Notice
    PROVE  /\ Edited \in Notice /\ Edited.status = notice.status
           /\ Edited.content = notice.content + 1 /\ Edited.token = notice.token + 1
<1>1. notice.content \in Nat /\ notice.token \in Nat
  BY DEF Notice
<1> DEFINE content == notice.content + 1
           token == notice.token + 1
<1>2. Edited = [notice EXCEPT !.content = content, !.token = token]
  BY DEF Edited, Notice
<1>3. content \in Nat /\ token \in Nat
  BY <1>1
<1>4. [notice EXCEPT !.content = content, !.token = token].content = content
      /\ [notice EXCEPT !.content = content, !.token = token].token = token
  BY DEF Notice
<1> HIDE DEF content, token
<1>5. /\ [notice EXCEPT !.content = content, !.token = token] \in Notice
      /\ [notice EXCEPT !.content = content, !.token = token].status = notice.status
  BY <1>3 DEF Notice
<1> QED BY <1>2, <1>4, <1>5 DEF content, token

LEMMA DraftingTypes ==
    ASSUME TypeInv, NEW r \in Requests, Drafting(r)
    PROVE  TypeInv'
<1>types. TypeOK /\ Memory(request[r], item) /\ request[r] \in RequestStates /\ notice \in Notice
          /\ (notice = NoNotice \/ notice.status # None)
  BY DEF TypeInv, TypeOK
<1>outside. ASSUME UNCHANGED outside
            PROVE  /\ mails' \in [Addresses -> Seq(Mail)] /\ unsure' \in [Addresses -> Nat]
                   /\ events' \in Nat /\ UNCHANGED <<people, scenario>>
  BY <1>outside, <1>types DEF TypeOK, outside, people
<1>items. ASSUME UNCHANGED items
          PROVE  \A i \in Items : item[i] # NoItem => item'[i] # NoItem
  BY <1>items DEF items
<1>same. ASSUME UNCHANGED notices
         PROVE  /\ notice' \in Notice /\ (notice' = NoNotice \/ notice'.status # None)
                /\ dispatch' \in [Addresses -> DispatchRow]
  BY <1>same, <1>types DEF TypeOK, notices
<1>1. CASE OpenDraft(r)
  <2>1. PICK i \in Items \ Free :
            /\ Goes(r, [Idle EXCEPT !.pc = "draft", !.kind = "draft", !.item = i])
            /\ UNCHANGED <<items, website, notices, outside>>
    BY <1>1 DEF OpenDraft
  <2> DEFINE state == [Idle EXCEPT !.pc = "draft", !.kind = "draft", !.item = i]
  <2>2. state \in RequestStates /\ state.pc = "draft" /\ state.item = i
    BY <2>1 DEF Idle, RequestStates, Kinds
  <2>3. Memory(state, item')
    BY <2>1, <2>2 DEF Memory, items, Free
  <2> HIDE DEF state
  <2> QED BY <1>same, <1>outside, <1>items, <2>1, <2>2, <2>3, RequestGoes, NoticeStepTypes DEF state
<1>2. CASE SaveDraft(r)
  <2>1. /\ notice' = notice \/ notice' = NewNotice(request[r].item)
        /\ request[r].item \in Items /\ Ends(r)
        /\ UNCHANGED <<items, website, dispatch, outside>>
    BY <1>2, <1>types DEF SaveDraft, Memory
  <2>2. NewNotice(request[r].item) \in Notice /\ NewNotice(request[r].item).status # None
    BY <2>1, NoneAssumption DEF NewNotice, NoNotice, Notice
  <2>3. notice' \in Notice /\ (notice' = NoNotice \/ notice'.status # None)
    BY <2>1, <2>2, <1>types
  <2>4. dispatch' \in [Addresses -> DispatchRow]
    BY <2>1, <1>types DEF TypeOK
  <2> QED BY <1>outside, <1>items, <2>1, <2>3, <2>4, RequestEnds, NoticeStepTypes
<1>3. CASE OpenEdit(r)
  <2> DEFINE state == [Idle EXCEPT !.pc = "edit", !.kind = "edit"]
  <2>1. Goes(r, state) /\ UNCHANGED <<items, website, notices, outside>>
    BY <1>3 DEF OpenEdit
  <2>2. state \in RequestStates /\ state.pc = "edit"
    BY DEF Idle, RequestStates, Kinds
  <2>3. Memory(state, item')
    BY <2>2 DEF Memory
  <2> HIDE DEF state
  <2> QED BY <1>same, <1>outside, <1>items, <2>1, <2>2, <2>3, RequestGoes, NoticeStepTypes
<1>4. CASE SaveEdit(r)
  <2>1. /\ notice' = IF notice.status = "draft" THEN Edited ELSE notice
        /\ Ends(r) /\ UNCHANGED <<items, website, dispatch, outside>>
    BY <1>4 DEF SaveEdit
  <2>2. notice.status = "draft" => Edited \in Notice /\ Edited.status = "draft"
    BY <1>types, EditedType
  <2>3. notice' \in Notice /\ (notice' = NoNotice \/ notice'.status # None)
    BY <2>1, <2>2, <1>types, NoneAssumption
  <2>4. dispatch' \in [Addresses -> DispatchRow]
    BY <2>1, <1>types DEF TypeOK
  <2> QED BY <1>outside, <1>items, <2>1, <2>3, <2>4, RequestEnds, NoticeStepTypes
<1>5. CASE Preview(r)
  <2> DEFINE state == [Idle EXCEPT !.pc = "preview", !.kind = "confirm", !.token = notice.token,
                                   !.shown = notice.content]
  <2>1. Goes(r, state) /\ UNCHANGED <<items, website, notices, outside>>
    BY <1>5 DEF Preview
  <2>2. notice.token \in Nat /\ notice.content \in Nat
    BY <1>types DEF Notice
  <2>3. state \in RequestStates /\ state.pc = "preview"
    BY <2>2 DEF Idle, RequestStates, Kinds
  <2>4. Memory(state, item')
    BY <2>3 DEF Memory
  <2> HIDE DEF state
  <2> QED BY <1>same, <1>outside, <1>items, <2>1, <2>3, <2>4, RequestGoes, NoticeStepTypes
<1>6. CASE Confirm(r)
  <2>1. CASE Ends(r) /\ UNCHANGED notices
    <3>1. UNCHANGED <<items, website, outside>>
      BY <1>6 DEF Confirm
    <3> QED BY <1>same, <1>outside, <1>items, <2>1, <3>1, RequestEnds, NoticeStepTypes
  <2>2. CASE ~(Ends(r) /\ UNCHANGED notices)
    <3>1. /\ dispatch' \in [Addresses -> {NoRow} \union [status : {"pending"}, person : eligible]]
          /\ notice' = [notice EXCEPT !.status = "sending", !.confirmed = request[r].shown,
                                      !.recipients = Cardinality(Recipients)]
          /\ Goes(r, Batch(r)) /\ UNCHANGED <<items, website, outside>>
      BY <1>6, <2>2 DEF Confirm
    <3>2. {NoRow} \union [status : {"pending"}, person : eligible] \subseteq DispatchRow
      <4>1. eligible \subseteq People
        BY <1>types DEF TypeOK
      <4> QED BY <4>1, ConstantTypes DEF DispatchRow
    <3>3. dispatch' \in [Addresses -> DispatchRow]
      BY <3>1, <3>2
    <3>4. request[r].shown \in Nat /\ request[r].kind \in Kinds \union {None}
      BY <1>types DEF RequestStates
    <3>5. notice' \in Notice /\ notice'.status = "sending"
      BY <1>types, <3>1, <3>4, RecipientsAreFinite DEF Notice
    <3>6. Batch(r) \in RequestStates /\ Batch(r).pc = "batch"
      BY <3>4 DEF Batch, Idle, RequestStates, Kinds
    <3>7. Memory(Batch(r), item')
      BY <3>6 DEF Memory
    <3>8. notice'.status # None
      BY <3>5, NoneAssumption
    <3> QED BY <1>outside, <1>items, <3>1, <3>3, <3>5, <3>6, <3>7, <3>8, RequestGoes,
               NoticeStepTypes
  <2> QED BY <2>1, <2>2
<1>7. CASE BeginRetry(r)
  <2> DEFINE state == [Idle EXCEPT !.pc = "batch", !.kind = "retry", !.retry = TRUE]
  <2>1. /\ notice' = [notice EXCEPT !.status = "sending"] /\ Goes(r, state)
        /\ UNCHANGED <<items, website, dispatch, outside>>
    BY <1>7 DEF BeginRetry
  <2>2. notice' \in Notice /\ notice'.status = "sending"
    BY <1>types, <2>1 DEF Notice
  <2>3. state \in RequestStates /\ state.pc = "batch"
    BY DEF Idle, RequestStates, Kinds
  <2>4. Memory(state, item')
    BY <2>3 DEF Memory
  <2>5. notice'.status # None /\ dispatch' \in [Addresses -> DispatchRow]
    BY <1>types, <2>1, <2>2, NoneAssumption DEF TypeOK
  <2> HIDE DEF state
  <2> QED BY <1>outside, <1>items, <2>1, <2>2, <2>3, <2>4, <2>5, RequestGoes, NoticeStepTypes
<1> QED BY <1>1, <1>2, <1>3, <1>4, <1>5, <1>6, <1>7 DEF Drafting

\* The mail a request sends.
MailOf(r) == [content |-> notice.content, person |-> request[r].person,
              address |-> request[r].email]

\* The recipient and the address a claim reads.
LEMMA CurrentRecipientType ==
    ASSUME TypeInv, NEW a \in Addresses
    PROVE  /\ CurrentRecipient(a) \in People \union {None}
           /\ CurrentEmail(a) \in Addresses \union {None}
           /\ CurrentRecipient(a) # None =>
                  /\ CurrentRecipient(a) = dispatch[a].person /\ CurrentRecipient(a) \in eligible
                  /\ CurrentEmail(a) = email[dispatch[a].person] /\ CurrentEmail(a) \in Addresses
BY DEF CurrentRecipient, CurrentEmail, TypeInv, TypeOK

LEMMA RowMarked ==
    ASSUME TypeInv, NEW a \in Addresses, NEW status \in {"sending", "sent", "failed"},
           dispatch' = [dispatch EXCEPT ![a].status = status]
    PROVE  /\ dispatch' \in [Addresses -> DispatchRow]
           /\ dispatch'[a].status = status
           /\ \A b \in Addresses : b # a => dispatch'[b] = dispatch[b]
<1>1. dispatch \in [Addresses -> DispatchRow]
  BY DEF TypeInv, TypeOK
<1>2. [dispatch[a] EXCEPT !.status = status] \in DispatchRow
  BY <1>1 DEF DispatchRow
<1>3. dispatch' = [dispatch EXCEPT ![a] = [dispatch[a] EXCEPT !.status = status]]
  BY <1>1 DEF DispatchRow
<1>4. [dispatch[a] EXCEPT !.status = status].status = status
  BY <1>1 DEF DispatchRow
<1> QED BY <1>1, <1>2, <1>3, <1>4

LEMMA MailAccepted ==
    ASSUME TypeInv, NEW a \in Addresses, NEW mail \in Mail,
           mails' = [mails EXCEPT ![a] = Append(@, mail)]
    PROVE  /\ mails' \in [Addresses -> Seq(Mail)]
           /\ mails[a] \in Seq(Mail) /\ mails'[a] = Append(mails[a], mail)
           /\ \A b \in Addresses : b # a => mails'[b] = mails[b]
<1>1. mails \in [Addresses -> Seq(Mail)]
  BY DEF TypeInv, TypeOK
<1>2. Append(mails[a], mail) \in Seq(Mail)
  BY <1>1
<1> QED BY <1>1, <1>2

\* What a claim does: skip a row that is no longer as listed, or take it.
Skip(r, a) == [request[r] EXCEPT !.todo = request[r].todo \ {a}]
Claim(r, a) ==
    [request[r] EXCEPT !.todo = request[r].todo \ {a}, !.row = a,
                       !.person = CurrentRecipient(a), !.email = CurrentEmail(a),
                       !.pc = IF CurrentRecipient(a) = None THEN "failed" ELSE "send"]

LEMMA ClaimKinds ==
    ASSUME TypeInv, NEW r \in Requests, ClaimDispatch(r)
    PROVE  \E a \in Addresses :
               /\ request[r].pc = "next" /\ a \in request[r].todo
               /\ \/ a \notin Expected(r) /\ Goes(r, Skip(r, a)) /\ UNCHANGED dispatch
                  \/ /\ a \in Expected(r) /\ Goes(r, Claim(r, a))
                     /\ dispatch' = [dispatch EXCEPT ![a].status = "sending"]
               /\ UNCHANGED <<items, website, notice, outside>>
               /\ Skip(r, a) \in RequestStates /\ Skip(r, a).pc = "next"
               /\ Claim(r, a) \in RequestStates /\ Claim(r, a).row = a
               /\ Claim(r, a).person = CurrentRecipient(a) /\ Claim(r, a).email = CurrentEmail(a)
               /\ Claim(r, a).pc = (IF CurrentRecipient(a) = None THEN "failed" ELSE "send")
<1>1. PICK a \in request[r].todo :
          /\ request[r].pc = "next"
          /\ IF a \notin Expected(r)
             THEN Goes(r, Skip(r, a)) /\ UNCHANGED dispatch
             ELSE /\ dispatch' = [dispatch EXCEPT ![a].status = "sending"]
                  /\ Goes(r, Claim(r, a))
          /\ UNCHANGED <<items, website, notice, outside>>
  BY DEF ClaimDispatch, Skip, Claim
<1>2. request[r] \in RequestStates /\ request[r].todo \subseteq Addresses
  BY DEF TypeInv, TypeOK, RequestStates
<1>3. a \in Addresses
  BY <1>1, <1>2
<1>4. Skip(r, a) \in RequestStates /\ Skip(r, a).pc = "next"
  BY <1>1, <1>2 DEF Skip, RequestStates
<1> DEFINE person == CurrentRecipient(a)
           pc == IF CurrentRecipient(a) = None THEN "failed" ELSE "send"
           current == CurrentEmail(a)
<1>5. /\ person \in People \union {None} /\ current \in Addresses \union {None}
      /\ pc \in {"failed", "send"}
  BY <1>3, CurrentRecipientType
<1>6. /\ Claim(r, a) \in RequestStates /\ Claim(r, a).row = a
      /\ Claim(r, a).person = person /\ Claim(r, a).email = current /\ Claim(r, a).pc = pc
  <2> DEFINE todo == request[r].todo \ {a}
  <2>1. todo \in SUBSET Addresses
    BY <1>2
  <2>2. Claim(r, a) = [request[r] EXCEPT !.todo = todo, !.row = a, !.person = person,
                                         !.email = current, !.pc = pc]
    BY DEF Claim
  <2> HIDE DEF todo, person, current, pc
  <2>3. [request[r] EXCEPT !.todo = todo, !.row = a, !.person = person, !.email = current, !.pc = pc]
            \in RequestStates
    BY <1>2, <1>3, <1>5, <2>1 DEF RequestStates
  <2> QED BY <1>2, <2>2, <2>3 DEF RequestStates
<1> QED BY <1>1, <1>3, <1>4, <1>6

LEMMA SendingTypes ==
    ASSUME TypeInv, NEW r \in Requests, Sending(r)
    PROVE  TypeInv'
<1>types. TypeOK /\ Memory(request[r], item) /\ request[r] \in RequestStates /\ notice \in Notice
          /\ (notice = NoNotice \/ notice.status # None)
  BY DEF TypeInv, TypeOK
<1>outside. ASSUME UNCHANGED outside
            PROVE  /\ mails' \in [Addresses -> Seq(Mail)] /\ unsure' \in [Addresses -> Nat]
                   /\ events' \in Nat /\ UNCHANGED <<people, scenario>>
  BY <1>outside, <1>types DEF TypeOK, outside, people
<1>items. ASSUME UNCHANGED items
          PROVE  \A i \in Items : item[i] # NoItem => item'[i] # NoItem
  BY <1>items DEF items
<1>same. ASSUME UNCHANGED notices
         PROVE  /\ notice' \in Notice /\ (notice' = NoNotice \/ notice'.status # None)
                /\ dispatch' \in [Addresses -> DispatchRow]
  BY <1>same, <1>types DEF TypeOK, notices
<1>1. CASE ListRows(r)
  <2> DEFINE state == [request[r] EXCEPT !.pc = "next", !.todo = Expected(r)]
  <2>1. Goes(r, state) /\ UNCHANGED <<items, website, notices, outside>>
    BY <1>1 DEF ListRows
  <2>2. Expected(r) \subseteq Addresses
    BY RowsAreFinite DEF Expected
  <2>3. state \in RequestStates /\ state.pc = "next"
    BY <1>types, <2>2 DEF RequestStates
  <2>4. Memory(state, item')
    BY <2>3 DEF Memory
  <2> HIDE DEF state
  <2> QED BY <1>same, <1>outside, <1>items, <2>1, <2>3, <2>4, RequestGoes, NoticeStepTypes
<1>2. CASE ClaimDispatch(r)
  <2>1. PICK a \in Addresses :
            /\ \/ Goes(r, Skip(r, a)) /\ UNCHANGED dispatch
               \/ /\ Goes(r, Claim(r, a))
                  /\ dispatch' = [dispatch EXCEPT ![a].status = "sending"]
            /\ UNCHANGED <<items, website, notice, outside>>
            /\ Skip(r, a) \in RequestStates /\ Skip(r, a).pc = "next"
            /\ Claim(r, a) \in RequestStates /\ Claim(r, a).row = a
            /\ Claim(r, a).person = CurrentRecipient(a) /\ Claim(r, a).email = CurrentEmail(a)
            /\ Claim(r, a).pc = (IF CurrentRecipient(a) = None THEN "failed" ELSE "send")
    BY <1>2, ClaimKinds
  <2>2. Memory(Skip(r, a), item')
    BY <2>1 DEF Memory
  <2>3. Memory(Claim(r, a), item')
    BY <2>1, CurrentRecipientType DEF Memory
  <2>4. dispatch' \in [Addresses -> DispatchRow]
    BY <2>1, <1>types, RowMarked DEF TypeOK
  <2> QED BY <1>types, <1>outside, <1>items, <2>1, <2>2, <2>3, <2>4, RequestGoes, NoticeStepTypes
<1>3. CASE SendMail(r)
  <2> DEFINE a == request[r].row
             mail == MailOf(r)
             sent == [request[r] EXCEPT !.pc = "sent"]
             failed == [request[r] EXCEPT !.pc = "failed"]
  <2>1. /\ request[r].pc = "send" /\ (Goes(r, sent) \/ Goes(r, failed))
        /\ UNCHANGED mails \/ mails' = [mails EXCEPT ![a] = Append(@, mail)]
        /\ UNCHANGED unsure \/ unsure' = [unsure EXCEPT ![a] = @ + 1]
        /\ UNCHANGED events \/ events' = events + 1
        /\ UNCHANGED <<items, website, notices, people, scenario>>
    BY <1>3 DEF SendMail, Disturb, MailOf
  <2>2. a \in Addresses /\ mail \in Mail
    BY <1>types, <2>1 DEF Memory, Mail, MailOf, Notice
  <2>3. sent \in RequestStates /\ sent.pc = "sent" /\ sent.row = a
    BY <1>types DEF RequestStates
  <2>4. failed \in RequestStates /\ failed.pc = "failed" /\ failed.row = a
    BY <1>types DEF RequestStates
  <2>5. Memory(sent, item') /\ Memory(failed, item')
    BY <2>2, <2>3, <2>4 DEF Memory
  <2> HIDE DEF a, mail, sent, failed
  <2>6. mails' \in [Addresses -> Seq(Mail)]
    BY <2>1, <2>2, <1>types, MailAccepted DEF TypeOK
  <2>7. unsure' \in [Addresses -> Nat]
    <3>1. unsure \in [Addresses -> Nat] /\ unsure[a] + 1 \in Nat
      BY <1>types, <2>2 DEF TypeOK
    <3>2. CASE unsure' = [unsure EXCEPT ![a] = @ + 1]
      <4> DEFINE n == unsure[a] + 1
      <4>1. unsure' = [unsure EXCEPT ![a] = n]
        BY <3>2
      <4> HIDE DEF n
      <4> QED BY <3>1, <4>1 DEF n
    <3> QED BY <2>1, <3>1, <3>2
  <2>8. events' \in Nat
    BY <2>1, <1>types DEF TypeOK
  <2> QED BY <1>same, <1>items, <2>1, <2>3, <2>4, <2>5, <2>6, <2>7, <2>8, RequestGoes, NoticeStepTypes
<1>4. CASE MarkDispatch(r)
  <2> DEFINE a == request[r].row
             state == [request[r] EXCEPT !.pc = "next", !.row = None, !.person = None, !.email = None]
  <2>1. /\ request[r].pc \in {"sent", "failed"} /\ Goes(r, state)
        /\ UNCHANGED dispatch \/ dispatch' = [dispatch EXCEPT ![a].status = request[r].pc]
        /\ UNCHANGED <<items, website, notice, outside>>
    BY <1>4 DEF MarkDispatch
  <2>2. a \in Addresses
    BY <1>types, <2>1 DEF Memory
  <2>3. state \in RequestStates /\ state.pc = "next"
    BY <1>types DEF RequestStates
  <2>4. Memory(state, item')
    BY <2>3 DEF Memory
  <2> HIDE DEF a, state
  <2>5. dispatch' \in [Addresses -> DispatchRow]
    BY <2>1, <2>2, <1>types, RowMarked DEF TypeOK
  <2> QED BY <1>types, <1>outside, <1>items, <2>1, <2>3, <2>4, <2>5, RequestGoes, NoticeStepTypes
<1>5. CASE FinalizeNotice(r)
  <2>1. /\ notice' = [notice EXCEPT !.status = FinalStatus, !.sent = Cardinality(Rows("sent")),
                                    !.failed = Cardinality(Rows("failed"))]
        /\ Ends(r) /\ UNCHANGED <<items, website, dispatch, outside>>
    BY <1>5 DEF FinalizeNotice
  <2> DEFINE sent == Cardinality(Rows("sent"))
             failed == Cardinality(Rows("failed"))
  <2>2. sent \in Nat /\ failed \in Nat
    BY RowsAreFinite
  <2> HIDE DEF sent, failed
  <2>3. notice' \in Notice /\ notice'.status = FinalStatus
    BY <1>types, <2>1, <2>2, FinalStatusType DEF Notice, sent, failed
  <2>4. notice'.status # None /\ dispatch' \in [Addresses -> DispatchRow]
    BY <1>types, <2>1, <2>3, FinalStatusType, NoneIsNothing DEF TypeOK
  <2> QED BY <1>outside, <1>items, <2>1, <2>3, <2>4, RequestEnds, NoticeStepTypes
<1> QED BY <1>1, <1>2, <1>3, <1>4, <1>5 DEF Sending

LEMMA KilledTypes ==
    ASSUME TypeInv, NEW r \in Requests, Killed(r)
    PROVE  TypeInv'
<1>1. /\ Ends(r) /\ events' = events + 1
      /\ UNCHANGED <<items, website, notices, people, mails, unsure, scenario>>
  BY DEF Killed, Disturb
<1>2. /\ request' \in [Requests -> RequestStates]
      /\ \A q \in Requests : Memory(request'[q], item')
  BY <1>1, RequestEnds DEF items
<1>3. events' \in Nat
  BY <1>1 DEF TypeInv, TypeOK
<1> QED BY <1>1, <1>2, <1>3 DEF TypeInv, TypeOK, items, notices, people

\* Nothing of a step outside the requests is remembered by one.
LEMMA OutsideTypes ==
    ASSUME TypeInv, Publish \/ Redefine \/ \E p \in People : ChangeConsent(p) \/ ChangeAddress(p)
    PROVE  TypeInv'
<1>types. TypeOK
  BY DEF TypeInv
<1>1. CASE Publish \/ Redefine
  <2>1. UNCHANGED <<items, notices, outside, request>>
    BY <1>1 DEF Publish, Redefine
  <2>2. website' \in [stage : Nat, definition : Nat, version : Nat]
    <3>1. website \in [stage : Nat, definition : Nat, version : Nat]
      BY <1>types DEF TypeOK
    <3>2. CASE Publish
      <4> DEFINE stage == website.stage + 1
      <4>1. stage \in Nat /\ website' = [website EXCEPT !.stage = stage, !.definition = website.version]
        BY <3>1, <3>2 DEF Publish
      <4> HIDE DEF stage
      <4> QED BY <3>1, <4>1
    <3>3. CASE Redefine
      <4> DEFINE version == website.version + 1
      <4>1. version \in Nat /\ website' = [website EXCEPT !.version = version]
        BY <3>1, <3>3 DEF Redefine
      <4> HIDE DEF version
      <4> QED BY <3>1, <4>1
    <3> QED BY <1>1, <3>2, <3>3
  <2> QED BY <2>1, <2>2 DEF TypeInv, TypeOK, items, notices, outside, people
<1>2. ASSUME NEW p \in People, ChangeConsent(p)
      PROVE  TypeInv'
  <2>1. /\ eligible' = IF p \in eligible THEN eligible \ {p} ELSE eligible \union {p}
        /\ late' = IF p \in eligible /\ UnderWay(p) THEN late \union {p} ELSE late \ {p}
        /\ UNCHANGED <<items, website, notices, request, mails, unsure, scenario>>
        /\ UNCHANGED <<email, moved>> /\ events' = events + 1
    BY <1>2 DEF ChangeConsent, Disturb
  <2>2. eligible' \subseteq People /\ late' \subseteq People /\ events' \in Nat
    BY <2>1, <1>types DEF TypeOK
  <2> QED BY <2>1, <2>2 DEF TypeInv, TypeOK, items, notices
<1>3. ASSUME NEW p \in People, ChangeAddress(p)
      PROVE  TypeInv'
  <2>1. PICK address \in Addresses \union {None} : email' = [email EXCEPT ![p] = address]
    BY <1>3 DEF ChangeAddress
  <2>2. /\ UNCHANGED <<items, website, notices, eligible, late, request, mails, unsure, scenario>>
        /\ moved' = moved \/ moved' = moved \union {p}
        /\ events' = events + 1
    BY <1>3 DEF ChangeAddress, Disturb
  <2>3. email' \in [People -> Addresses \union {None}] /\ moved' \subseteq People /\ events' \in Nat
    BY <2>1, <2>2, <1>types DEF TypeOK
  <2> QED BY <2>2, <2>3 DEF TypeInv, TypeOK, items, notices
<1> QED BY <1>1, <1>2, <1>3

LEMMA TypeInit == Init => TypeInv
<1> SUFFICES ASSUME Init PROVE TypeInv
  OBVIOUS
<1> USE DEF Init
<1>1. item \in [Items -> Item] /\ history \in [Items -> Seq(HistoryRow)]
  BY ConstantTypes
<1>2. website \in [stage : Nat, definition : Nat, version : Nat]
  OBVIOUS
<1>3. notice \in Notice /\ dispatch \in [Addresses -> DispatchRow]
  BY ConstantTypes
<1>4. /\ eligible \subseteq People /\ late \subseteq People /\ moved \subseteq People
      /\ scenario \in Scenarios /\ events \in Nat
      /\ email \in [People -> Addresses \union {None}]
  BY AddressAssumption
<1>5. mails \in [Addresses -> Seq(Mail)] /\ unsure \in [Addresses -> Nat]
  OBVIOUS
<1>6. request \in [Requests -> RequestStates]
  BY ConstantTypes
<1>7. TypeOK
  BY <1>1, <1>2, <1>3, <1>4, <1>5, <1>6 DEF TypeOK
<1>8. ASSUME NEW r \in Requests PROVE Memory(request[r], item)
  BY ConstantTypes DEF Memory
<1> QED BY <1>7, <1>8 DEF TypeInv

LEMMA TypeStep ==
    ASSUME TypeInv, [Next]_vars
    PROVE  TypeInv'
<1>1. ASSUME NEW r \in Requests, Workflow(r) \/ Drafting(r) \/ Sending(r) \/ Killed(r)
      PROVE  TypeInv'
  BY <1>1, WorkflowTypes, DraftingTypes, SendingTypes, KilledTypes
<1>2. CASE Publish \/ Redefine \/ \E p \in People : ChangeConsent(p) \/ ChangeAddress(p)
  BY <1>2, OutsideTypes
<1>3. CASE UNCHANGED vars
  BY <1>3 DEF TypeInv, TypeOK, vars
<1> QED BY <1>1, <1>2, <1>3 DEF Next

LEMMA TypesHold == Spec => []TypeInv
<1>1. TypeInv /\ [Next]_vars => TypeInv'
  BY TypeStep
<1> QED BY <1>1, TypeInit, PTL DEF Spec

\* The rows, the mails and the memory of the requests of improvement_workflow.py and
\* notice_service.py have their types.
THEOREM TypeCorrect == Spec => []TypeOK
<1>1. TypeInv => TypeOK
  BY DEF TypeInv
<1> QED BY <1>1, TypesHold, PTL

-----------------------------------------------------------------------------
(* A draft becomes one item *)

\* Requests that hold no lock before a step do not import after it, and keep their draft.
LEMMA OnlyLockingImports ==
    ASSUME TypeInv, NEW r \in Requests, NEW state \in RequestStates, Goes(r, state),
           state.pc \notin {"import", "posted", "importing"}
    PROVE  \A q \in Requests :
               request'[q].pc \in {"import", "posted", "importing"} =>
                   request'[q] = request[q] /\ q # r
BY DEF Goes, TypeInv, TypeOK

\* Steps that give no item a draft and start no import.
LEMMA DraftsKept ==
    ASSUME DraftsInv,
           \A i \in Items : item'[i].draft = item[i].draft \/ item'[i].draft = 0,
           \A q \in Requests : request'[q].pc \in {"import", "posted", "importing"} =>
               request'[q].pc = request[q].pc /\ request'[q].draft = request[q].draft
    PROVE  DraftsInv'
<1>1. OneItemPerDraft'
  BY DEF DraftsInv, OneItemPerDraft
<1>2. \A q \in Requests :
          request'[q].pc \in {"import", "posted", "importing"} => request'[q].draft # 0
  BY DEF DraftsInv
<1>3. ASSUME NEW q \in Requests, request'[q].pc = "importing"
      PROVE  \A i \in Items : item'[i].draft # request'[q].draft
  <2>1. request[q].pc = "importing" /\ request'[q].draft = request[q].draft
    BY <1>3
  <2>2. \A i \in Items : item[i].draft # request[q].draft
    BY <2>1 DEF DraftsInv, Imported
  <2> QED BY <1>2, <1>3, <2>1, <2>2
<1>4. \A p, q \in Requests :
          request'[p].pc = "importing" /\ request'[q].pc = "importing" => p = q
  BY DEF DraftsInv
<1> QED BY <1>1, <1>2, <1>3, <1>4 DEF DraftsInv, Imported

\* What a step of drafting does, and what its request is left with.
Looks(r, state) == state.pc \in {"idle", "draft", "edit"} /\ UNCHANGED notices
Drafts(r, state) ==
    /\ state.pc = "idle" /\ request[r].item \in Items
    /\ notice = NoNotice /\ notice' = NewNotice(request[r].item) /\ UNCHANGED dispatch
Edits(r, state) ==
    /\ state.pc = "idle"
    /\ notice.status = "draft" /\ notice' = Edited /\ UNCHANGED dispatch
Shows(r, state) ==
    /\ state.pc = "preview" /\ state.token = notice.token /\ state.shown = notice.content
    /\ notice.status = "draft" /\ UNCHANGED notices
Confirms(r, state) ==
    /\ state.pc = "batch" /\ request[r].pc = "preview"
    /\ notice.status = "draft" /\ notice.token = request[r].token
    /\ notice' = [notice EXCEPT !.status = "sending", !.confirmed = request[r].shown,
                                !.recipients = Cardinality(Recipients)]
    /\ Resolved(dispatch')
Retries(r, state) ==
    /\ state.pc = "batch"
    /\ notice.status \in {"failed", "partially_sent"}
    /\ notice' = [notice EXCEPT !.status = "sending"] /\ UNCHANGED dispatch

LEMMA DraftingKinds ==
    ASSUME TypeInv, NEW r \in Requests, Drafting(r)
    PROVE  /\ UNCHANGED <<items, website, outside>>
           /\ \E state : /\ Goes(r, state)
                         /\ \/ Looks(r, state) \/ Drafts(r, state) \/ Edits(r, state)
                            \/ Shows(r, state) \/ Confirms(r, state) \/ Retries(r, state)
<1>types. Idle.pc = "idle" /\ Memory(request[r], item)
  BY ConstantTypes DEF TypeInv
<1>1. CASE OpenDraft(r)
  <2>1. PICK i \in Items \ Free :
            /\ Goes(r, [Idle EXCEPT !.pc = "draft", !.kind = "draft", !.item = i])
            /\ UNCHANGED <<items, website, notices, outside>>
    BY <1>1 DEF OpenDraft
  <2> DEFINE state == [Idle EXCEPT !.pc = "draft", !.kind = "draft", !.item = i]
  <2>2. state.pc = "draft"
    BY DEF Idle
  <2> HIDE DEF state
  <2>3. Goes(r, state) /\ Looks(r, state)
    BY <2>1, <2>2 DEF Looks, state
  <2> QED BY <2>1, <2>3
<1>2. CASE SaveDraft(r)
  <2>1. /\ Goes(r, Idle) /\ request[r].item \in Items
        /\ \/ UNCHANGED notice
           \/ notice = NoNotice /\ notice' = NewNotice(request[r].item)
        /\ UNCHANGED <<items, website, dispatch, outside>>
    BY <1>2, <1>types DEF SaveDraft, Ends, Memory
  <2>2. Looks(r, Idle) \/ Drafts(r, Idle)
    BY <1>types, <2>1 DEF Looks, Drafts, notices
  <2> QED BY <2>1, <2>2
<1>3. CASE OpenEdit(r)
  <2> DEFINE state == [Idle EXCEPT !.pc = "edit", !.kind = "edit"]
  <2>1. Goes(r, state) /\ UNCHANGED <<items, website, notices, outside>>
    BY <1>3 DEF OpenEdit
  <2>2. state.pc = "edit"
    BY DEF Idle
  <2> HIDE DEF state
  <2>3. Looks(r, state)
    BY <2>1, <2>2 DEF Looks
  <2> QED BY <2>1, <2>3
<1>4. CASE SaveEdit(r)
  <2>1. /\ Goes(r, Idle)
        /\ notice' = IF notice.status = "draft" THEN Edited ELSE notice
        /\ UNCHANGED <<items, website, dispatch, outside>>
    BY <1>4 DEF SaveEdit, Ends
  <2>2. Looks(r, Idle) \/ Edits(r, Idle)
    BY <1>types, <2>1 DEF Looks, Edits, notices
  <2> QED BY <2>1, <2>2
<1>5. CASE Preview(r)
  <2> DEFINE state == [Idle EXCEPT !.pc = "preview", !.kind = "confirm", !.token = notice.token,
                                   !.shown = notice.content]
  <2>1. Goes(r, state) /\ notice.status = "draft" /\ UNCHANGED <<items, website, notices, outside>>
    BY <1>5 DEF Preview
  <2>2. state.pc = "preview" /\ state.token = notice.token /\ state.shown = notice.content
    BY DEF Idle
  <2> HIDE DEF state
  <2>3. Shows(r, state)
    BY <2>1, <2>2 DEF Shows
  <2> QED BY <2>1, <2>3
<1>6. CASE Confirm(r)
  <2>1. request[r].pc = "preview" /\ UNCHANGED <<items, website, outside>>
    BY <1>6 DEF Confirm
  <2>2. CASE Ends(r) /\ UNCHANGED notices
    <3>1. Goes(r, Idle) /\ Looks(r, Idle)
      BY <1>types, <2>2 DEF Ends, Looks
    <3> QED BY <2>1, <3>1
  <2>3. CASE ~(Ends(r) /\ UNCHANGED notices)
    <3>1. /\ notice.status = "draft" /\ notice.token = request[r].token
          /\ notice' = [notice EXCEPT !.status = "sending", !.confirmed = request[r].shown,
                                      !.recipients = Cardinality(Recipients)]
          /\ Resolved(dispatch') /\ Goes(r, Batch(r))
      BY <1>6, <2>3 DEF Confirm
    <3>2. Batch(r).pc = "batch"
      BY DEF Batch, Idle
    <3>3. Confirms(r, Batch(r))
      BY <2>1, <3>1, <3>2 DEF Confirms
    <3> QED BY <2>1, <3>1, <3>3
  <2> QED BY <2>2, <2>3
<1>7. CASE BeginRetry(r)
  <2> DEFINE state == [Idle EXCEPT !.pc = "batch", !.kind = "retry", !.retry = TRUE]
  <2>1. /\ Goes(r, state) /\ notice.status \in {"failed", "partially_sent"}
        /\ notice' = [notice EXCEPT !.status = "sending"]
        /\ UNCHANGED <<items, website, dispatch, outside>>
    BY <1>7 DEF BeginRetry, Retriable
  <2>2. state.pc = "batch"
    BY DEF Idle
  <2> HIDE DEF state
  <2>3. Retries(r, state)
    BY <2>1, <2>2 DEF Retries
  <2> QED BY <2>1, <2>3
<1> QED BY <1>1, <1>2, <1>3, <1>4, <1>5, <1>6, <1>7 DEF Drafting

\* The same for a step of sending.
Lists(r, state) ==
    /\ request[r].pc \in {"batch", "next"} /\ state.pc = "next"
    /\ UNCHANGED <<notices, outside>>
Takes(r, state) ==
    /\ request[r].pc = "next" /\ state.row \in Expected(r)
    /\ state.pc \in {"send", "failed"}
    /\ state.pc = "send" => /\ state.person \in eligible
                            /\ state.person = dispatch[state.row].person
                            /\ state.email = email[state.person]
    /\ dispatch' = [dispatch EXCEPT ![state.row].status = "sending"]
    /\ UNCHANGED <<notice, outside>>
Accepted(r) ==
    mails' = [mails EXCEPT ![request[r].row] =
                  Append(@, MailOf(r))]
Mails(r, state) ==
    /\ request[r].pc = "send" /\ state.row = request[r].row
    /\ \/ state.pc = "sent" /\ Accepted(r) /\ UNCHANGED unsure
       \/ state.pc = "failed" /\ UNCHANGED <<mails, unsure>>
       \/ /\ state.pc = "failed" /\ Accepted(r)
          /\ unsure' = [unsure EXCEPT ![request[r].row] = @ + 1]
    /\ UNCHANGED <<notices, people>>
Marks(r, state) ==
    /\ request[r].pc \in {"sent", "failed"} /\ state.pc = "next"
    /\ dispatch' = IF dispatch[request[r].row].status = "sending"
                   THEN [dispatch EXCEPT ![request[r].row].status = request[r].pc] ELSE dispatch
    /\ UNCHANGED <<notice, outside>>
Finishes(r, state) ==
    /\ request[r].pc = "next" /\ state.pc = "idle"
    /\ notice' = [notice EXCEPT !.status = FinalStatus, !.sent = Cardinality(Rows("sent")),
                                !.failed = Cardinality(Rows("failed"))]
    /\ UNCHANGED <<dispatch, outside>>

LEMMA SendingKinds ==
    ASSUME TypeInv, NEW r \in Requests, Sending(r)
    PROVE  /\ UNCHANGED <<items, website>>
           /\ \E state : /\ Goes(r, state)
                         /\ \/ Lists(r, state) \/ Takes(r, state) \/ Mails(r, state)
                            \/ Marks(r, state) \/ Finishes(r, state)
<1>types. request[r] \in RequestStates /\ Memory(request[r], item) /\ Idle.pc = "idle"
  BY ConstantTypes DEF TypeInv, TypeOK
<1>1. CASE ListRows(r)
  <2> DEFINE state == [request[r] EXCEPT !.pc = "next", !.todo = Expected(r)]
  <2>1. Goes(r, state) /\ request[r].pc = "batch" /\ UNCHANGED <<items, website, notices, outside>>
    BY <1>1 DEF ListRows
  <2>2. state.pc = "next"
    BY <1>types DEF RequestStates
  <2> HIDE DEF state
  <2>3. Lists(r, state)
    BY <2>1, <2>2 DEF Lists
  <2> QED BY <2>1, <2>3
<1>2. CASE ClaimDispatch(r)
  <2>1. PICK a \in Addresses :
            /\ request[r].pc = "next"
            /\ \/ Goes(r, Skip(r, a)) /\ UNCHANGED dispatch
               \/ /\ a \in Expected(r) /\ Goes(r, Claim(r, a))
                  /\ dispatch' = [dispatch EXCEPT ![a].status = "sending"]
            /\ UNCHANGED <<items, website, notice, outside>>
            /\ Skip(r, a).pc = "next" /\ Claim(r, a).row = a
            /\ Claim(r, a).person = CurrentRecipient(a) /\ Claim(r, a).email = CurrentEmail(a)
            /\ Claim(r, a).pc = (IF CurrentRecipient(a) = None THEN "failed" ELSE "send")
    BY <1>2, ClaimKinds
  <2>2. CASE Goes(r, Skip(r, a)) /\ UNCHANGED dispatch
    <3>1. Lists(r, Skip(r, a))
      BY <2>1, <2>2 DEF Lists, notices
    <3> QED BY <2>1, <2>2, <3>1
  <2>3. CASE /\ a \in Expected(r) /\ Goes(r, Claim(r, a))
             /\ dispatch' = [dispatch EXCEPT ![a].status = "sending"]
    <3>1. Claim(r, a).pc = "send" => CurrentRecipient(a) # None
      BY <2>1
    <3>2. Takes(r, Claim(r, a))
      BY <2>1, <2>3, <3>1, CurrentRecipientType DEF Takes
    <3> QED BY <2>1, <2>3, <3>2
  <2> QED BY <2>1, <2>2, <2>3
<1>3. CASE SendMail(r)
  <2> DEFINE sent == [request[r] EXCEPT !.pc = "sent"]
             failed == [request[r] EXCEPT !.pc = "failed"]
  <2>1. /\ request[r].pc = "send" /\ UNCHANGED <<items, website, notices, people, scenario>>
        /\ \/ Goes(r, sent) /\ Accepted(r) /\ UNCHANGED unsure
           \/ Goes(r, failed) /\ UNCHANGED <<mails, unsure>>
           \/ /\ Goes(r, failed) /\ Accepted(r)
              /\ unsure' = [unsure EXCEPT ![request[r].row] = @ + 1]
    BY <1>3 DEF SendMail, Accepted, MailOf
  <2>2. /\ sent.pc = "sent" /\ sent.row = request[r].row
        /\ failed.pc = "failed" /\ failed.row = request[r].row
    BY <1>types DEF RequestStates
  <2> HIDE DEF sent, failed
  <2>3. (Goes(r, sent) /\ Mails(r, sent)) \/ (Goes(r, failed) /\ Mails(r, failed))
    BY <2>1, <2>2 DEF Mails
  <2> QED BY <2>1, <2>3
<1>4. CASE MarkDispatch(r)
  <2> DEFINE state == [request[r] EXCEPT !.pc = "next", !.row = None, !.person = None, !.email = None]
  <2>1. Goes(r, state) /\ UNCHANGED <<items, website>>
    BY <1>4 DEF MarkDispatch
  <2>2. state.pc = "next"
    BY <1>types DEF RequestStates
  <2> HIDE DEF state
  <2>3. Marks(r, state)
    BY <1>4, <2>2 DEF Marks, MarkDispatch
  <2> QED BY <2>1, <2>3
<1>5. CASE FinalizeNotice(r)
  <2>1. Goes(r, Idle) /\ UNCHANGED <<items, website>> /\ Finishes(r, Idle)
    BY <1>5, <1>types DEF FinalizeNotice, Ends, Finishes
  <2> QED BY <2>1
<1> QED BY <1>1, <1>2, <1>3, <1>4, <1>5 DEF Sending

\* The steps that draft, send or die leave items alone and import nothing.
LEMMA OthersImportNothing ==
    ASSUME TypeInv, NEW r \in Requests, Drafting(r) \/ Sending(r) \/ Killed(r)
    PROVE  /\ UNCHANGED items
           /\ \E state : Goes(r, state) /\ state.pc \notin {"import", "posted", "importing"}
<1>1. CASE Drafting(r)
  <2>1. PICK state : /\ Goes(r, state)
                     /\ \/ Looks(r, state) \/ Drafts(r, state) \/ Edits(r, state)
                        \/ Shows(r, state) \/ Confirms(r, state) \/ Retries(r, state)
    BY <1>1, DraftingKinds
  <2>2. state.pc \notin {"import", "posted", "importing"}
    BY <2>1 DEF Looks, Drafts, Edits, Shows, Confirms, Retries
  <2> QED BY <1>1, <2>1, <2>2, DraftingKinds
<1>2. CASE Sending(r)
  <2>1. PICK state : /\ Goes(r, state)
                     /\ \/ Lists(r, state) \/ Takes(r, state) \/ Mails(r, state)
                        \/ Marks(r, state) \/ Finishes(r, state)
    BY <1>2, SendingKinds
  <2>2. state.pc \notin {"import", "posted", "importing"}
    BY <2>1 DEF Lists, Takes, Mails, Marks, Finishes
  <2> QED BY <1>2, <2>1, <2>2, SendingKinds
<1>3. CASE Killed(r)
  BY <1>3, ConstantTypes DEF Killed, Ends
<1> QED BY <1>1, <1>2, <1>3

\* The other requests of a step of one.
LEMMA OneRequestGoes ==
    ASSUME TypeInv, NEW r \in Requests, NEW state, Goes(r, state)
    PROVE  request'[r] = state /\ \A q \in Requests : q # r => request'[q] = request[q]
BY DEF Goes, TypeInv, TypeOK

LEMMA DraftsStep ==
    ASSUME TypeInv, DraftsInv, [Next]_vars
    PROVE  DraftsInv'
<1>types. /\ request \in [Requests -> RequestStates] /\ item \in [Items -> Item]
          /\ website.stage \in Nat /\ Idle.pc = "idle"
  BY ConstantTypes DEF TypeInv, TypeOK
<1>quiet. ASSUME NEW r \in Requests, NEW state, Goes(r, state), state.pc \notin {"import", "posted", "importing"},
                 \A i \in Items : item'[i].draft = item[i].draft \/ item'[i].draft = 0
          PROVE  DraftsInv'
  BY <1>quiet, OneRequestGoes, DraftsKept
<1>ends. ASSUME NEW r \in Requests, Ends(r),
                \A i \in Items : item'[i].draft = item[i].draft \/ item'[i].draft = 0
         PROVE  DraftsInv'
  <2>1. Goes(r, Idle) /\ Idle.pc \notin {"import", "posted", "importing"}
    BY <1>ends, <1>types DEF Ends
  <2> QED BY <1>quiet, <1>ends, <2>1
<1>1. ASSUME NEW r \in Requests, CreateItem(r) PROVE DraftsInv'
  <2>1. PICK i \in Unused :
            /\ item' = [item EXCEPT ![i] = NewItem(0)]
            /\ Goes(r, [Idle EXCEPT !.pc = "created", !.kind = "create", !.item = i])
    BY <1>1 DEF CreateItem
  <2>2. [Idle EXCEPT !.pc = "created", !.kind = "create", !.item = i].pc = "created"
    BY DEF Idle
  <2>3. \A j \in Items : item'[j].draft = item[j].draft \/ item'[j].draft = 0
    BY <1>types, <2>1, NewItemType
  <2> QED BY <1>quiet, <2>1, <2>2, <2>3
<1>2. ASSUME NEW r \in Requests, RecordInitialStatus(r) PROVE DraftsInv'
  BY <1>2, <1>ends DEF RecordInitialStatus
<1>3. ASSUME NEW r \in Requests, OpenMove(r) PROVE DraftsInv'
  <2>1. PICK i \in Items : \E status \in StatusTargets(i) :
            Goes(r, [Idle EXCEPT !.pc = "move", !.kind = "move", !.item = i, !.status = status])
    BY <1>3 DEF OpenMove
  <2>3. \A status : [Idle EXCEPT !.pc = "move", !.kind = "move", !.item = i, !.status = status].pc
                       = "move"
    BY DEF Idle
  <2>2. UNCHANGED item
    BY <1>3 DEF OpenMove, items
  <2> QED BY <1>quiet, <2>1, <2>2, <2>3
<1>4. ASSUME NEW r \in Requests, TransitionImprovement(r) PROVE DraftsInv'
  BY <1>4, <1>ends, TransitionTypes DEF TransitionImprovement
<1>5. ASSUME NEW r \in Requests, OpenImport(r) PROVE DraftsInv'
  <2> DEFINE state == [Idle EXCEPT !.pc = "import", !.kind = "import", !.draft = website.stage]
  <2>1. Goes(r, state) /\ UNCHANGED items /\ website.stage # 0
    BY <1>5 DEF OpenImport
  <2>2. state.pc = "import" /\ state.draft # 0
    BY <2>1 DEF Idle
  <2> HIDE DEF state
  <2>3. request'[r] = state /\ \A q \in Requests : q # r => request'[q] = request[q]
    BY <2>1, OneRequestGoes
  <2> QED BY <2>1, <2>2, <2>3 DEF DraftsInv, OneItemPerDraft, Imported, items
<1>6. ASSUME NEW r \in Requests, PostImport(r) PROVE DraftsInv'
  <2> DEFINE state == [request[r] EXCEPT !.pc = "posted", !.version = website.version]
  <2>1. (Goes(r, state) \/ Ends(r)) /\ UNCHANGED items /\ request[r].pc = "import"
    BY <1>6 DEF PostImport
  <2>2. state.pc = "posted" /\ state.draft = request[r].draft
    BY <1>types DEF RequestStates
  <2> HIDE DEF state
  <2>3. CASE Ends(r)
    BY <2>1, <2>3, <1>ends DEF items
  <2>4. CASE Goes(r, state)
    <3>1. request'[r] = state /\ \A q \in Requests : q # r => request'[q] = request[q]
      BY <2>4, OneRequestGoes
    <3> QED BY <2>1, <2>2, <3>1 DEF DraftsInv, OneItemPerDraft, Imported, items
  <2> QED BY <2>1, <2>3, <2>4
<1>7. ASSUME NEW r \in Requests, LockImport(r) PROVE DraftsInv'
  <2> DEFINE state == [request[r] EXCEPT !.pc = "importing"]
  <2>1. /\ Ends(r) \/ (Goes(r, state) /\ ~Imported(request[r].draft))
        /\ UNCHANGED items /\ request[r].pc = "posted" /\ SurveyFree
    BY <1>7 DEF LockImport
  <2>2. state.pc = "importing" /\ state.draft = request[r].draft
    BY <1>types DEF RequestStates
  <2> HIDE DEF state
  <2>3. CASE Ends(r)
    BY <2>1, <2>3, <1>ends DEF items
  <2>4. CASE Goes(r, state) /\ ~Imported(request[r].draft)
    <3>1. request'[r] = state /\ \A q \in Requests : q # r => request'[q] = request[q]
      BY <2>4, OneRequestGoes
    <3> QED BY <2>1, <2>2, <2>4, <3>1 DEF DraftsInv, OneItemPerDraft, Imported, items, SurveyFree
  <2> QED BY <2>1, <2>3, <2>4
<1>8. ASSUME NEW r \in Requests, CommitImport(r) PROVE DraftsInv'
  <2>1. PICK i \in Unused :
            /\ request[r].pc = "importing"
            /\ item' = [item EXCEPT ![i] = NewItem(request[r].draft)] /\ Ends(r)
    BY <1>8 DEF CommitImport
  <2> DEFINE draft == request[r].draft
  <2>2. i \in Items /\ draft \in Nat /\ ~Imported(draft)
    BY <2>1, <1>types DEF Unused, Free, RequestStates, DraftsInv
  <2>3. item'[i].draft = draft /\ \A j \in Items : j # i => item'[j] = item[j]
    BY <2>1, <2>2, <1>types, NewItemType
  <2>4. request'[r] = Idle /\ \A q \in Requests : q # r => request'[q] = request[q]
    BY <2>1, OneRequestGoes DEF Ends
  <2> HIDE DEF draft
  <2>5. OneItemPerDraft'
    BY <2>2, <2>3 DEF DraftsInv, OneItemPerDraft, Imported
  <2>6. \A q \in Requests : request'[q].pc # "importing"
    BY <1>types, <2>1, <2>4 DEF DraftsInv
  <2>7. \A q \in Requests : request'[q].pc \in {"import", "posted", "importing"} => request'[q].draft # 0
    BY <1>types, <2>4 DEF DraftsInv
  <2> QED BY <2>5, <2>6, <2>7 DEF DraftsInv
<1>9. ASSUME NEW r \in Requests, Drafting(r) \/ Sending(r) \/ Killed(r) PROVE DraftsInv'
  <2>1. UNCHANGED item /\ \E state : Goes(r, state) /\ state.pc \notin {"import", "posted", "importing"}
    BY <1>9, OthersImportNothing DEF items
  <2> QED BY <1>quiet, <2>1
<1>10. CASE (Publish \/ Redefine \/ \E p \in People : ChangeConsent(p) \/ ChangeAddress(p)) \/ UNCHANGED vars
  <2>1. UNCHANGED <<item, request>>
    BY <1>10 DEF Publish, Redefine, ChangeConsent, ChangeAddress, items, vars
  <2> QED BY <2>1 DEF DraftsInv, OneItemPerDraft, Imported
<1> QED BY <1>1, <1>2, <1>3, <1>4, <1>5, <1>6, <1>7, <1>8, <1>9, <1>10 DEF Next, Workflow

\* However many requests import the draft of an AI result, and whatever is published meanwhile,
\* the draft becomes one item (ImprovementFromAICreateView).
THEOREM DraftsBecomeOneItem == Spec => []OneItemPerDraft
<1>1. Init => DraftsInv
  <2> SUFFICES ASSUME Init PROVE DraftsInv
    OBVIOUS
  <2>1. \A i \in Items : item[i].draft = 0
    BY DEF Init, NoItem
  <2>2. \A r \in Requests : request[r].pc = "idle"
    BY ConstantTypes DEF Init
  <2> QED BY <2>1, <2>2 DEF DraftsInv, OneItemPerDraft
<1>2. TypeInv /\ DraftsInv /\ [Next]_vars => DraftsInv'
  BY DraftsStep
<1>3. DraftsInv => OneItemPerDraft
  BY DEF DraftsInv
<1> QED BY <1>1, <1>2, <1>3, TypesHold, PTL DEF Spec

-----------------------------------------------------------------------------
(* What is sent is what was confirmed *)

\* The steps outside the life of a notice, and what a request that took one is doing.
LEMMA WorkflowKinds ==
    ASSUME TypeInv, NEW r \in Requests, Workflow(r) \/ Killed(r)
    PROVE  /\ UNCHANGED <<notices, people, mails, unsure>>
           /\ \E state : /\ Goes(r, state)
                         /\ state.pc \in {"idle", "created", "move", "import", "posted", "importing"}
<1>types. request[r] \in RequestStates /\ Idle.pc = "idle"
  BY ConstantTypes DEF TypeInv, TypeOK
<1>ends. Ends(r) => \E state : Goes(r, state) /\ state.pc = "idle"
  BY <1>types DEF Ends
<1>1. CASE CreateItem(r)
  <2>1. PICK i \in Unused :
            /\ Goes(r, [Idle EXCEPT !.pc = "created", !.kind = "create", !.item = i])
            /\ UNCHANGED <<history, website, notices, outside>>
    BY <1>1 DEF CreateItem
  <2>2. [Idle EXCEPT !.pc = "created", !.kind = "create", !.item = i].pc = "created"
    BY DEF Idle
  <2> QED BY <2>1, <2>2 DEF outside, people
<1>2. CASE RecordInitialStatus(r)
  BY <1>2, <1>ends DEF RecordInitialStatus, outside, people
<1>3. CASE OpenMove(r)
  <2>1. PICK i \in Items : \E status \in StatusTargets(i) :
            /\ Goes(r, [Idle EXCEPT !.pc = "move", !.kind = "move", !.item = i, !.status = status])
            /\ UNCHANGED <<items, website, notices, outside>>
    BY <1>3 DEF OpenMove
  <2>2. \A status : [Idle EXCEPT !.pc = "move", !.kind = "move", !.item = i, !.status = status].pc
                       = "move"
    BY DEF Idle
  <2> QED BY <2>1, <2>2 DEF outside, people
<1>4. CASE TransitionImprovement(r)
  BY <1>4, <1>ends DEF TransitionImprovement, outside, people
<1>5. CASE OpenImport(r)
  <2> DEFINE state == [Idle EXCEPT !.pc = "import", !.kind = "import", !.draft = website.stage]
  <2>1. Goes(r, state) /\ UNCHANGED <<notices, outside>>
    BY <1>5 DEF OpenImport
  <2>2. state.pc = "import"
    BY DEF Idle
  <2> HIDE DEF state
  <2> QED BY <2>1, <2>2 DEF outside, people
<1>6. CASE PostImport(r)
  <2> DEFINE state == [request[r] EXCEPT !.pc = "posted", !.version = website.version]
  <2>1. (Goes(r, state) \/ Ends(r)) /\ UNCHANGED <<notices, outside>>
    BY <1>6 DEF PostImport
  <2>2. state.pc = "posted"
    BY <1>types DEF RequestStates
  <2> HIDE DEF state
  <2> QED BY <1>ends, <2>1, <2>2 DEF outside, people
<1>7. CASE LockImport(r)
  <2> DEFINE state == [request[r] EXCEPT !.pc = "importing"]
  <2>1. (Goes(r, state) \/ Ends(r)) /\ UNCHANGED <<notices, outside>>
    BY <1>7 DEF LockImport
  <2>2. state.pc = "importing"
    BY <1>types DEF RequestStates
  <2> HIDE DEF state
  <2> QED BY <1>ends, <2>1, <2>2 DEF outside, people
<1>8. CASE CommitImport(r)
  BY <1>8, <1>ends DEF CommitImport, outside, people
<1>9. CASE Killed(r)
  BY <1>9, <1>ends DEF Killed
<1> QED BY <1>1, <1>2, <1>3, <1>4, <1>5, <1>6, <1>7, <1>8, <1>9 DEF Workflow

\* Steps that leave the notice and the mails, show no preview and begin no sending.
LEMMA NoticeKept ==
    ASSUME TypeInv, NoticeInv, NEW r \in Requests, NEW state, Goes(r, state),
           UNCHANGED <<notice, mails>>, state.pc # "preview",
           Sender(state) => Sender(request[r])
    PROVE  NoticeInv'
<1>1. request'[r] = state /\ \A q \in Requests : q # r => request'[q] = request[q]
  BY OneRequestGoes
<1> QED BY <1>1 DEF NoticeInv, MailIsAsConfirmed, Unsent, Sender

LEMMA NoticeStep ==
    ASSUME TypeInv, NoticeInv, [Next]_vars
    PROVE  NoticeInv'
<1>types. /\ request \in [Requests -> RequestStates] /\ notice \in Notice
          /\ mails \in [Addresses -> Seq(Mail)]
          /\ (notice = NoNotice \/ notice.status # None)
          /\ None \notin {"draft", "pending", "sending", "sent", "failed", "partially_sent"}
  BY NoneAssumption DEF TypeInv, TypeOK
<1>1. ASSUME NEW r \in Requests, Workflow(r) \/ Killed(r) PROVE NoticeInv'
  <2>1. PICK state : /\ Goes(r, state)
                     /\ state.pc \in {"idle", "created", "move", "import", "posted", "importing"}
    BY <1>1, WorkflowKinds
  <2>2. UNCHANGED <<notice, mails>>
    BY <1>1, WorkflowKinds DEF notices
  <2> QED BY <2>1, <2>2, NoticeKept DEF Sender
<1>2. ASSUME NEW r \in Requests, Drafting(r) PROVE NoticeInv'
  <2>1. PICK state : /\ Goes(r, state)
                     /\ \/ Looks(r, state) \/ Drafts(r, state) \/ Edits(r, state)
                        \/ Shows(r, state) \/ Confirms(r, state) \/ Retries(r, state)
    BY <1>2, DraftingKinds
  <2>2. UNCHANGED mails
    BY <1>2, DraftingKinds DEF outside, people
  <2>3. request'[r] = state /\ \A q \in Requests : q # r => request'[q] = request[q]
    BY <2>1, OneRequestGoes
  <2>4. CASE Looks(r, state)
    BY <2>1, <2>2, <2>4, NoticeKept DEF Looks, Sender, notices
  <2>5. CASE Drafts(r, state)
    <3>1. notice' = NewNotice(request[r].item) /\ notice = NoNotice /\ ~Sender(state)
          /\ state.pc = "idle"
      BY <2>5 DEF Drafts, Sender
    <3>2. notice'.status = "draft" /\ Unsent
      BY <3>1 DEF NewNotice, NoNotice, Unsent
    <3>3. /\ \A a \in Addresses : mails'[a] = <<>>
          /\ \A q \in Requests : ~Sender(request'[q]) /\ request'[q].pc # "preview"
      BY <2>2, <2>3, <3>1, <3>2 DEF NoticeInv
    <3>4. Unsent' /\ MailIsAsConfirmed'
      BY <3>2, <3>3 DEF Unsent, MailIsAsConfirmed
    <3> QED BY <3>3, <3>4 DEF NoticeInv, Sender
  <2>6. CASE Edits(r, state)
    <3>1. notice' = Edited /\ notice.status = "draft" /\ ~Sender(state) /\ state.pc = "idle"
      BY <2>6 DEF Edits, Sender
    <3>2. /\ notice'.status = "draft" /\ notice'.token = notice.token + 1 /\ notice' # NoNotice
          /\ notice.token \in Nat /\ Unsent
      BY <1>types, <3>1, EditedType DEF NoNotice, Notice, Unsent
    <3>3. /\ \A a \in Addresses : mails'[a] = <<>>
          /\ \A q \in Requests : ~Sender(request'[q])
      BY <2>2, <2>3, <3>1, <3>2 DEF NoticeInv
    <3>4. \A q \in Requests : request'[q].pc = "preview" =>
              request'[q].token <= notice'.token /\ request'[q].token # notice'.token
      <4>1. \A q \in Requests : request'[q].pc = "preview" =>
                request'[q].token \in Nat /\ request'[q].token <= notice.token
        BY <1>types, <2>3, <3>1 DEF NoticeInv, RequestStates
      <4> QED BY <3>2, <4>1
    <3>5. Unsent' /\ MailIsAsConfirmed'
      BY <3>2, <3>3 DEF Unsent, MailIsAsConfirmed
    <3> QED BY <3>2, <3>3, <3>4, <3>5 DEF NoticeInv, Sender
  <2>7. CASE Shows(r, state)
    <3>1. /\ UNCHANGED notice /\ notice.status = "draft" /\ ~Sender(state)
          /\ state.token = notice.token /\ state.shown = notice.content
      BY <2>7 DEF Shows, Sender, notices
    <3>2. notice # NoNotice /\ notice.token \in Nat
      BY <1>types, <3>1 DEF NoNotice, Notice
    <3>3. \A q \in Requests : request'[q].pc = "preview" =>
              /\ request'[q].token <= notice'.token
              /\ request'[q].token = notice'.token => request'[q].shown = notice'.content
      BY <2>3, <3>1, <3>2 DEF NoticeInv
    <3>4. Unsent' => /\ \A a \in Addresses : mails'[a] = <<>>
                     /\ \A q \in Requests : ~Sender(request'[q])
      BY <2>2, <2>3, <3>1 DEF NoticeInv, Unsent
    <3>5. (~Unsent => notice.confirmed = notice.content)' /\ MailIsAsConfirmed'
      BY <2>2, <3>1 DEF NoticeInv, Unsent, MailIsAsConfirmed
    <3> QED BY <3>1, <3>2, <3>3, <3>4, <3>5 DEF NoticeInv, Sender
  <2>8. CASE Confirms(r, state)
    <3> DEFINE recipients == Cardinality(Recipients)
    <3>1. /\ state.pc = "batch" /\ request[r].pc = "preview" /\ notice.status = "draft"
          /\ notice.token = request[r].token
          /\ notice' = [notice EXCEPT !.status = "sending", !.confirmed = request[r].shown,
                                      !.recipients = recipients]
      BY <2>8 DEF Confirms
    <3> HIDE DEF recipients
    <3>2. request[r].shown = notice.content /\ Unsent
      BY <3>1 DEF NoticeInv, Unsent
    <3>3. /\ notice'.status = "sending" /\ notice'.confirmed = notice'.content
          /\ notice'.token = notice.token /\ notice'.content = notice.content
      BY <1>types, <3>1, <3>2 DEF Notice
    <3>4. ~Unsent' /\ notice' # NoNotice
      BY <1>types, <3>3 DEF Unsent, NoNotice
    <3>5. MailIsAsConfirmed'
      BY <2>2, <3>2 DEF NoticeInv, MailIsAsConfirmed
    <3>6. \A q \in Requests : request'[q].pc = "preview" =>
              /\ request'[q].token <= notice'.token
              /\ request'[q].token = notice'.token => request'[q].shown = notice'.content
      BY <2>3, <3>1, <3>3 DEF NoticeInv
    <3> QED BY <3>3, <3>4, <3>5, <3>6 DEF NoticeInv
  <2>9. CASE Retries(r, state)
    <3>1. /\ state.pc = "batch" /\ notice.status \in {"failed", "partially_sent"}
          /\ notice' = [notice EXCEPT !.status = "sending"]
      BY <2>9 DEF Retries
    <3>2. /\ notice'.status = "sending" /\ notice'.confirmed = notice.confirmed
          /\ notice'.token = notice.token /\ notice'.content = notice.content /\ ~Unsent
      BY <1>types, <3>1 DEF Notice, Unsent
    <3>3. ~Unsent' /\ notice' # NoNotice
      BY <1>types, <3>2 DEF Unsent, NoNotice
    <3>4. MailIsAsConfirmed'
      BY <2>2, <3>2 DEF NoticeInv, MailIsAsConfirmed
    <3>5. \A q \in Requests : request'[q].pc = "preview" =>
              /\ request'[q].token <= notice'.token
              /\ request'[q].token = notice'.token => request'[q].shown = notice'.content
      BY <2>3, <3>1, <3>2 DEF NoticeInv
    <3> QED BY <3>2, <3>3, <3>4, <3>5 DEF NoticeInv
  <2> QED BY <2>1, <2>4, <2>5, <2>6, <2>7, <2>8, <2>9
<1>3. ASSUME NEW r \in Requests, Sending(r) PROVE NoticeInv'
  <2>1. PICK state : /\ Goes(r, state)
                     /\ \/ Lists(r, state) \/ Takes(r, state) \/ Mails(r, state)
                        \/ Marks(r, state) \/ Finishes(r, state)
    BY <1>3, SendingKinds
  <2>2. request'[r] = state /\ \A q \in Requests : q # r => request'[q] = request[q]
    BY <2>1, OneRequestGoes
  <2>3. CASE Lists(r, state) \/ Takes(r, state) \/ Marks(r, state)
    <3>1. UNCHANGED <<notice, mails>> /\ Sender(request[r]) /\ state.pc # "preview"
      BY <2>3 DEF Lists, Takes, Marks, Sender, notices, outside, people
    <3> QED BY <2>1, <3>1, NoticeKept
  <2>4. CASE Mails(r, state)
    <3>1. /\ UNCHANGED notice /\ request[r].pc = "send" /\ state.pc # "preview"
          /\ Sender(request[r]) /\ Sender(state)
          /\ UNCHANGED mails \/ Accepted(r)
      BY <2>4 DEF Mails, Sender, notices
    <3>2. CASE UNCHANGED mails
      BY <2>1, <3>1, <3>2, NoticeKept
    <3>3. CASE Accepted(r)
      <4> DEFINE mail == MailOf(r)
                 to == request[r].row
      <4>1. to \in Addresses /\ mail \in Mail /\ mail.content = notice.content
        BY <1>types, <3>1 DEF TypeInv, Memory, Mail, MailOf, Notice
      <4>2. mails' = [mails EXCEPT ![to] = Append(@, mail)]
        BY <3>3 DEF Accepted
      <4> HIDE DEF mail, to
      <4>3. /\ mails[to] \in Seq(Mail) /\ mails'[to] = Append(mails[to], mail)
            /\ \A a \in Addresses : a # to => mails'[a] = mails[a]
        BY <4>1, <4>2, MailAccepted
      <4>4. ~Unsent /\ ~Unsent' /\ notice'.confirmed = notice'.content
        BY <3>1 DEF NoticeInv, Unsent
      <4>5. ASSUME NEW a \in Addresses, NEW n \in 1 .. Len(mails'[a])
            PROVE  mails'[a][n].content = notice'.confirmed
        <5>1. CASE a # to
          BY <3>1, <4>3, <4>5, <5>1 DEF NoticeInv, MailIsAsConfirmed
        <5>2. CASE a = to /\ n = Len(mails[to]) + 1
          BY <3>1, <4>1, <4>3, <4>4, <5>2
        <5>3. CASE a = to /\ n # Len(mails[to]) + 1
          <6>1. n \in 1 .. Len(mails[to]) /\ mails'[to][n] = mails[to][n]
            BY <4>3, <4>5, <5>3
          <6> QED BY <3>1, <4>1, <5>3, <6>1 DEF NoticeInv, MailIsAsConfirmed
        <5> QED BY <5>1, <5>2, <5>3
      <4>6. MailIsAsConfirmed'
        BY <4>5 DEF MailIsAsConfirmed
      <4>7. \A q \in Requests : request'[q].pc = "preview" =>
                /\ notice' # NoNotice /\ request'[q].token <= notice'.token
                /\ request'[q].token = notice'.token => request'[q].shown = notice'.content
        BY <2>2, <3>1 DEF NoticeInv
      <4> QED BY <4>4, <4>6, <4>7 DEF NoticeInv
    <3> QED BY <3>1, <3>2, <3>3
  <2>5. CASE Finishes(r, state)
    <3> DEFINE sent == Cardinality(Rows("sent"))
               failed == Cardinality(Rows("failed"))
    <3>1. /\ state.pc = "idle" /\ request[r].pc = "next" /\ UNCHANGED mails
          /\ notice' = [notice EXCEPT !.status = FinalStatus, !.sent = sent, !.failed = failed]
      BY <2>5 DEF Finishes, outside, people
    <3> HIDE DEF sent, failed
    <3>2. /\ notice'.status = FinalStatus /\ notice'.confirmed = notice.confirmed
          /\ notice'.token = notice.token /\ notice'.content = notice.content /\ ~Unsent
      BY <1>types, <3>1 DEF Notice, NoticeInv, Sender
    <3>3. ~Unsent' /\ notice' # NoNotice
      BY <1>types, <3>2, FinalStatusType DEF Unsent, NoNotice
    <3>4. MailIsAsConfirmed'
      BY <3>1, <3>2 DEF NoticeInv, MailIsAsConfirmed
    <3>5. \A q \in Requests : request'[q].pc = "preview" =>
              /\ request'[q].token <= notice'.token
              /\ request'[q].token = notice'.token => request'[q].shown = notice'.content
      BY <2>2, <3>1, <3>2 DEF NoticeInv
    <3> QED BY <3>2, <3>3, <3>4, <3>5 DEF NoticeInv
  <2> QED BY <2>1, <2>3, <2>4, <2>5
<1>4. CASE (Publish \/ Redefine \/ \E p \in People : ChangeConsent(p) \/ ChangeAddress(p)) \/ UNCHANGED vars
  <2>1. UNCHANGED <<notice, mails, request>>
    BY <1>4 DEF Publish, Redefine, ChangeConsent, ChangeAddress, notices, outside, people, vars
  <2> QED BY <2>1 DEF NoticeInv, MailIsAsConfirmed, Unsent
<1> QED BY <1>1, <1>2, <1>3, <1>4 DEF Next

\* Every mail has the content of the preview that was confirmed, whoever edits the draft meanwhile
\* (the confirmation token of prepare_notice_dispatches).
THEOREM MailsAreAsConfirmed == Spec => []MailIsAsConfirmed
<1>1. Init => NoticeInv
  <2> SUFFICES ASSUME Init PROVE NoticeInv
    OBVIOUS
  <2>1. /\ Unsent /\ \A a \in Addresses : mails[a] = <<>>
        /\ \A r \in Requests : request[r].pc = "idle"
    BY ConstantTypes DEF Init, Unsent, NoNotice
  <2> QED BY <2>1 DEF NoticeInv, MailIsAsConfirmed, Sender
<1>2. TypeInv /\ NoticeInv /\ [Next]_vars => NoticeInv'
  BY NoticeStep
<1>3. NoticeInv => MailIsAsConfirmed
  BY DEF NoticeInv
<1> QED BY <1>1, <1>2, <1>3, TypesHold, PTL DEF Spec

-----------------------------------------------------------------------------
(* No delivery is mailed a second time without an error *)

\* Steps that leave rows and mails, of a request that tries no row afterwards.
LEMMA DeliveryKept ==
    ASSUME TypeInv, DeliveryInv, NEW r \in Requests, NEW state, Goes(r, state),
           UNCHANGED <<dispatch, mails, unsure>>, state.pc \notin {"send", "sent", "failed"}
    PROVE  DeliveryInv'
<1>1. request'[r] = state /\ \A q \in Requests : q # r => request'[q] = request[q]
  BY OneRequestGoes
<1> QED BY <1>1 DEF DeliveryInv, MailedOnce, Tries

LEMMA DeliveryStep ==
    ASSUME TypeInv, NoticeInv, DeliveryInv, [Next]_vars
    PROVE  DeliveryInv'
<1>types. /\ request \in [Requests -> RequestStates] /\ dispatch \in [Addresses -> DispatchRow]
          /\ mails \in [Addresses -> Seq(Mail)] /\ unsure \in [Addresses -> Nat]
          /\ \A a \in Addresses : Len(mails[a]) \in Nat
          /\ None \notin {"draft", "pending", "sending", "sent", "failed", "partially_sent"}
  BY NoneAssumption DEF TypeInv, TypeOK
<1>1. ASSUME NEW r \in Requests, Workflow(r) \/ Killed(r) PROVE DeliveryInv'
  <2>1. PICK state : /\ Goes(r, state)
                     /\ state.pc \in {"idle", "created", "move", "import", "posted", "importing"}
    BY <1>1, WorkflowKinds
  <2>2. UNCHANGED <<dispatch, mails, unsure>>
    BY <1>1, WorkflowKinds DEF notices
  <2> QED BY <2>1, <2>2, DeliveryKept
<1>2. ASSUME NEW r \in Requests, Drafting(r) PROVE DeliveryInv'
  <2>1. PICK state : /\ Goes(r, state)
                     /\ \/ Looks(r, state) \/ Drafts(r, state) \/ Edits(r, state)
                        \/ Shows(r, state) \/ Confirms(r, state) \/ Retries(r, state)
    BY <1>2, DraftingKinds
  <2>2. UNCHANGED <<mails, unsure>>
    BY <1>2, DraftingKinds DEF outside, people
  <2>3. CASE ~Confirms(r, state)
    <3>1. state.pc \notin {"send", "sent", "failed"} /\ UNCHANGED dispatch
      BY <2>1, <2>3 DEF Looks, Drafts, Edits, Shows, Retries, notices
    <3> QED BY <2>1, <2>2, <3>1, DeliveryKept
  <2>4. CASE Confirms(r, state)
    <3>1. /\ \A a \in Addresses : mails'[a] = <<>>
          /\ \A q \in Requests : ~Sender(request[q])
      BY <2>2, <2>4 DEF Confirms, NoticeInv, Unsent
    <3>2. \A q \in Requests, a \in Addresses : ~Tries(request'[q], a)
      <4>1. request'[r] = state /\ \A q \in Requests : q # r => request'[q] = request[q]
        BY <2>1, OneRequestGoes
      <4>2. state.pc = "batch"
        BY <2>4 DEF Confirms
      <4> QED BY <3>1, <4>1, <4>2 DEF Tries, Sender
    <3>3. \A a \in Addresses : Len(mails'[a]) <= unsure'[a]
      BY <1>types, <2>2, <3>1
    <3>4. MailedOnce'
      BY <1>types, <2>2, <3>3 DEF MailedOnce
    <3> QED BY <3>2, <3>3, <3>4 DEF DeliveryInv
  <2> QED BY <2>3, <2>4
<1>3. ASSUME NEW r \in Requests, Sending(r) PROVE DeliveryInv'
  <2>1. PICK state : /\ Goes(r, state)
                     /\ \/ Lists(r, state) \/ Takes(r, state) \/ Mails(r, state)
                        \/ Marks(r, state) \/ Finishes(r, state)
    BY <1>3, SendingKinds
  <2>2. request'[r] = state /\ \A q \in Requests : q # r => request'[q] = request[q]
    BY <2>1, OneRequestGoes
  <2>3. CASE Lists(r, state) \/ Finishes(r, state)
    <3>1. UNCHANGED <<dispatch, mails, unsure>> /\ state.pc \notin {"send", "sent", "failed"}
      BY <2>3 DEF Lists, Finishes, notices, outside, people
    <3> QED BY <2>1, <3>1, DeliveryKept
  <2>4. CASE Takes(r, state)
    <3> DEFINE a == state.row
    <3>1. /\ a \in Addresses /\ dispatch[a].status \in {"pending", "failed"}
          /\ state.pc \in {"send", "failed"}
          /\ dispatch' = [dispatch EXCEPT ![a].status = "sending"]
          /\ UNCHANGED <<mails, unsure>>
      BY <2>4 DEF Takes, Expected, Rows, outside, people
    <3> HIDE DEF a
    <3>2. /\ dispatch'[a].status = "sending" /\ Len(mails[a]) <= unsure[a]
          /\ \A b \in Addresses : b # a => dispatch'[b] = dispatch[b]
      BY <3>1, RowMarked DEF DeliveryInv
    <3>3. \A q \in Requests : q # r => ~Tries(request'[q], a)
      BY <2>2, <3>1 DEF DeliveryInv
    <3>4. \A b \in Addresses : Tries(state, b) => b = a
      BY DEF Tries, a
    <3>5. ASSUME NEW q \in Requests, NEW b \in Addresses, Tries(request'[q], b)
          PROVE  /\ dispatch'[b].status = "sending"
                 /\ request'[q].pc # "sent" => Len(mails'[b]) <= unsure'[b]
      <4>1. CASE q = r
        BY <2>2, <3>1, <3>2, <3>4, <3>5, <4>1
      <4>2. CASE q # r
        <5>1. b # a /\ request'[q] = request[q]
          BY <2>2, <3>3, <3>5, <4>2
        <5> QED BY <3>1, <3>2, <3>5, <5>1 DEF DeliveryInv
      <4> QED BY <4>1, <4>2
    <3>6. \A p, q \in Requests, b \in Addresses :
              Tries(request'[p], b) /\ Tries(request'[q], b) => p = q
      BY <2>2, <3>3, <3>4 DEF DeliveryInv
    <3>7. \A b \in Addresses :
              dispatch'[b].status \in {None, "pending", "failed"} => Len(mails'[b]) <= unsure'[b]
      BY <1>types, <3>1, <3>2 DEF DeliveryInv
    <3>8. MailedOnce'
      BY <3>1 DEF DeliveryInv, MailedOnce
    <3> QED BY <3>5, <3>6, <3>7, <3>8 DEF DeliveryInv
  <2>5. CASE Mails(r, state)
    <3> DEFINE a == request[r].row
               mail == MailOf(r)
    <3>1. /\ request[r].pc = "send" /\ state.row = a /\ UNCHANGED dispatch
          /\ \/ state.pc = "sent" /\ Accepted(r) /\ UNCHANGED unsure
             \/ state.pc = "failed" /\ UNCHANGED <<mails, unsure>>
             \/ state.pc = "failed" /\ Accepted(r) /\ unsure' = [unsure EXCEPT ![a] = @ + 1]
      BY <2>5 DEF Mails, notices
    <3>2. a \in Addresses /\ mail \in Mail
      BY <3>1 DEF TypeInv, TypeOK, Memory, Mail, MailOf, Notice
    <3>3. Accepted(r) => mails' = [mails EXCEPT ![a] = Append(@, mail)]
      BY DEF Accepted
    <3> HIDE DEF a, mail
    <3>4. /\ Tries(request[r], a) /\ dispatch[a].status = "sending" /\ Len(mails[a]) <= unsure[a]
          /\ \A q \in Requests : q # r => ~Tries(request[q], a)
      BY <3>1, <3>2 DEF DeliveryInv, Tries, a
    <3>5. /\ \A b \in Addresses : b # a => mails'[b] = mails[b] /\ unsure'[b] = unsure[b]
          /\ Len(mails'[a]) <= 1 + unsure'[a]
          /\ state.pc = "failed" => Len(mails'[a]) <= unsure'[a]
      <4>1. Accepted(r) => /\ \A b \in Addresses : b # a => mails'[b] = mails[b]
                           /\ Len(mails'[a]) = Len(mails[a]) + 1
        BY <3>2, <3>3, MailAccepted
      <4>2. CASE state.pc = "sent" /\ Accepted(r) /\ UNCHANGED unsure
        BY <1>types, <3>2, <3>4, <4>1, <4>2
      <4>3. CASE state.pc = "failed" /\ UNCHANGED <<mails, unsure>>
        BY <1>types, <3>2, <3>4, <4>3
      <4>4. CASE state.pc = "failed" /\ Accepted(r) /\ unsure' = [unsure EXCEPT ![a] = @ + 1]
        <5>1. unsure'[a] = unsure[a] + 1 /\ \A b \in Addresses : b # a => unsure'[b] = unsure[b]
          BY <1>types, <3>2, <4>4
        <5> QED BY <1>types, <3>2, <3>4, <4>1, <4>4, <5>1
      <4> QED BY <3>1, <4>2, <4>3, <4>4
    <3>6. \A q \in Requests, b \in Addresses : Tries(request'[q], b) => Tries(request[q], b)
      BY <2>2, <3>1 DEF Tries, a
    <3>7. ASSUME NEW q \in Requests, NEW b \in Addresses, Tries(request'[q], b)
          PROVE  /\ dispatch'[b].status = "sending"
                 /\ request'[q].pc # "sent" => Len(mails'[b]) <= unsure'[b]
      <4>1. Tries(request[q], b) /\ dispatch'[b].status = "sending"
        BY <3>1, <3>6, <3>7 DEF DeliveryInv
      <4>2. CASE q = r
        <5>1. b = a
          BY <4>1, <4>2 DEF Tries, a
        <5>2. state.pc \in {"sent", "failed"}
          BY <3>1
        <5> QED BY <2>2, <3>5, <4>1, <4>2, <5>1, <5>2
      <4>3. CASE q # r
        <5>1. b # a /\ request'[q] = request[q]
          BY <2>2, <3>4, <4>1, <4>3
        <5> QED BY <3>5, <4>1, <5>1 DEF DeliveryInv
      <4> QED BY <4>2, <4>3
    <3>8. \A p, q \in Requests, b \in Addresses :
              Tries(request'[p], b) /\ Tries(request'[q], b) => p = q
      BY <3>6 DEF DeliveryInv
    <3>9. \A b \in Addresses :
              dispatch'[b].status \in {None, "pending", "failed"} => Len(mails'[b]) <= unsure'[b]
      BY <1>types, <3>1, <3>4, <3>5 DEF DeliveryInv
    <3>10. MailedOnce'
      BY <3>5 DEF DeliveryInv, MailedOnce
    <3> QED BY <3>7, <3>8, <3>9, <3>10 DEF DeliveryInv
  <2>6. CASE Marks(r, state)
    <3> DEFINE a == request[r].row
    <3>1. /\ request[r].pc \in {"sent", "failed"} /\ state.pc = "next"
          /\ dispatch' = IF dispatch[a].status = "sending"
                         THEN [dispatch EXCEPT ![a].status = request[r].pc] ELSE dispatch
          /\ UNCHANGED <<mails, unsure>>
      BY <2>6 DEF Marks, outside, people
    <3>2. a \in Addresses
      BY <3>1 DEF TypeInv, Memory
    <3> HIDE DEF a
    <3>3. /\ Tries(request[r], a) /\ dispatch[a].status = "sending"
          /\ request[r].pc # "sent" => Len(mails[a]) <= unsure[a]
          /\ \A q \in Requests : q # r => ~Tries(request[q], a)
      BY <3>1, <3>2 DEF DeliveryInv, Tries, a
    <3>4. /\ dispatch'[a].status = request[r].pc
          /\ \A b \in Addresses : b # a => dispatch'[b] = dispatch[b]
      BY <3>1, <3>2, <3>3, RowMarked
    <3>5. \A q \in Requests, b \in Addresses :
              Tries(request'[q], b) => b # a /\ request'[q] = request[q]
      BY <2>2, <3>1, <3>3 DEF Tries
    <3>6. \A q \in Requests, b \in Addresses :
              Tries(request'[q], b) =>
                  /\ dispatch'[b].status = "sending"
                  /\ request'[q].pc # "sent" => Len(mails'[b]) <= unsure'[b]
      BY <3>1, <3>4, <3>5 DEF DeliveryInv
    <3>7. \A p, q \in Requests, b \in Addresses :
              Tries(request'[p], b) /\ Tries(request'[q], b) => p = q
      BY <3>5 DEF DeliveryInv
    <3>8. \A b \in Addresses :
              dispatch'[b].status \in {None, "pending", "failed"} => Len(mails'[b]) <= unsure'[b]
      BY <1>types, <3>1, <3>3, <3>4 DEF DeliveryInv
    <3>9. MailedOnce'
      BY <3>1 DEF DeliveryInv, MailedOnce
    <3> QED BY <3>6, <3>7, <3>8, <3>9 DEF DeliveryInv
  <2> QED BY <2>1, <2>3, <2>4, <2>5, <2>6
<1>4. CASE (Publish \/ Redefine \/ \E p \in People : ChangeConsent(p) \/ ChangeAddress(p)) \/ UNCHANGED vars
  <2>1. UNCHANGED <<dispatch, mails, unsure, request>>
    BY <1>4 DEF Publish, Redefine, ChangeConsent, ChangeAddress, notices, outside, people, vars
  <2> QED BY <2>1 DEF DeliveryInv, MailedOnce
<1> QED BY <1>1, <1>2, <1>3, <1>4 DEF Next

\* A confirmed row is for a person with its address.
LEMMA RowsAreResolved ==
    ASSUME TypeInv, Resolved(dispatch'), NEW a \in Addresses, dispatch'[a].status # None
    PROVE  dispatch'[a].person \in People /\ email[dispatch'[a].person] = a
<1>1. a \in Recipients
  BY DEF Resolved, NoRow
<1>2. PICK p \in eligible : email[p] = a /\ dispatch'[a] = [status |-> "pending", person |-> p]
  BY <1>1 DEF Resolved
<1> QED BY <1>2 DEF TypeInv, TypeOK

\* Nobody moves back, nobody's address changes and no row comes to be.
LEMMA AddressesKept ==
    ASSUME AddressInv, NEW r \in Requests, NEW state, TypeInv, Goes(r, state),
           Unsent' => Unsent, UNCHANGED <<dispatch, mails, people>>, state.pc # "send"
    PROVE  AddressInv'
<1>1. request'[r] = state /\ \A q \in Requests : q # r => request'[q] = request[q]
  BY OneRequestGoes
<1>2. UNCHANGED <<dispatch, mails, email, moved>>
  BY DEF people
<1> QED BY <1>1, <1>2 DEF AddressInv, RowIsFor

LEMMA AddressStep ==
    ASSUME TypeInv, NoticeInv, AddressInv, [Next]_vars
    PROVE  AddressInv'
<1>types. /\ request \in [Requests -> RequestStates] /\ notice \in Notice
          /\ dispatch \in [Addresses -> DispatchRow] /\ mails \in [Addresses -> Seq(Mail)]
          /\ None \notin {"draft", "sending", "sent", "failed", "partially_sent"}
  BY NoneAssumption DEF TypeInv, TypeOK
<1>1. ASSUME NEW r \in Requests, Workflow(r) \/ Killed(r) PROVE AddressInv'
  <2>1. PICK state : /\ Goes(r, state)
                     /\ state.pc \in {"idle", "created", "move", "import", "posted", "importing"}
    BY <1>1, WorkflowKinds
  <2>2. UNCHANGED <<notice, dispatch, mails, people>>
    BY <1>1, WorkflowKinds DEF notices
  <2> QED BY <2>1, <2>2, AddressesKept DEF Unsent
<1>2. ASSUME NEW r \in Requests, Drafting(r) PROVE AddressInv'
  <2>1. PICK state : /\ Goes(r, state)
                     /\ \/ Looks(r, state) \/ Drafts(r, state) \/ Edits(r, state)
                        \/ Shows(r, state) \/ Confirms(r, state) \/ Retries(r, state)
    BY <1>2, DraftingKinds
  <2>2. UNCHANGED <<mails, people>>
    BY <1>2, DraftingKinds DEF outside
  <2>3. CASE Looks(r, state) \/ Drafts(r, state) \/ Edits(r, state) \/ Shows(r, state)
             \/ Retries(r, state)
    <3>1. UNCHANGED dispatch /\ state.pc # "send"
      BY <2>3 DEF Looks, Drafts, Edits, Shows, Retries, notices
    <3>2. Unsent' => Unsent
      <4>1. CASE UNCHANGED notice \/ Unsent
        BY <4>1 DEF Unsent
      <4>2. CASE Retries(r, state)
        BY <1>types, <4>2 DEF Retries, Unsent, Notice
      <4> QED BY <2>3, <4>1, <4>2 DEF Looks, Drafts, Edits, Shows, Unsent, NoNotice, notices
    <3> QED BY <2>1, <2>2, <3>1, <3>2, AddressesKept
  <2>4. CASE Confirms(r, state)
    <3>1. request'[r] = state /\ \A q \in Requests : q # r => request'[q] = request[q]
      BY <2>1, OneRequestGoes
    <3>2. ~Unsent'
      BY <1>types, <2>4 DEF Confirms, Unsent, Notice
    <3>3. \A a \in Addresses : dispatch'[a].status # None => RowIsFor(a, dispatch'[a].person)
      BY <2>4, RowsAreResolved DEF Confirms, RowIsFor
    <3> QED BY <2>2, <2>4, <3>1, <3>2, <3>3 DEF AddressInv, Confirms, RowIsFor, people
  <2> QED BY <2>1, <2>3, <2>4
<1>3. ASSUME NEW r \in Requests, Sending(r) PROVE AddressInv'
  <2>1. PICK state : /\ Goes(r, state)
                     /\ \/ Lists(r, state) \/ Takes(r, state) \/ Mails(r, state)
                        \/ Marks(r, state) \/ Finishes(r, state)
    BY <1>3, SendingKinds
  <2>2. request'[r] = state /\ \A q \in Requests : q # r => request'[q] = request[q]
    BY <2>1, OneRequestGoes
  <2>3. UNCHANGED people
    BY <2>1 DEF Lists, Takes, Mails, Marks, Finishes, outside
  <2>4. CASE Lists(r, state) \/ Finishes(r, state)
    <3>1. UNCHANGED <<dispatch, mails>> /\ state.pc # "send"
      BY <2>4 DEF Lists, Finishes, notices, outside
    <3>2. Unsent' => Unsent
      <4>1. CASE UNCHANGED notice
        BY <4>1 DEF Unsent
      <4>2. CASE notice' = [notice EXCEPT !.status = FinalStatus, !.sent = Cardinality(Rows("sent")),
                                          !.failed = Cardinality(Rows("failed"))]
        BY <1>types, <4>2, FinalStatusType DEF Unsent, Notice
      <4> QED BY <2>4, <4>1, <4>2 DEF Lists, Finishes, notices
    <3> QED BY <2>1, <2>3, <3>1, <3>2, AddressesKept
  <2>5. CASE Takes(r, state)
    <3> DEFINE a == state.row
    <3>1. /\ a \in Addresses /\ dispatch[a].status # None
          /\ dispatch' = [dispatch EXCEPT ![a].status = "sending"]
          /\ UNCHANGED <<notice, mails, email, moved>>
          /\ state.pc = "send" => state.person = dispatch[a].person /\ state.email = email[state.person]
      BY <2>5, NoneIsNothing DEF Takes, Expected, Rows, outside, people
    <3> HIDE DEF a
    <3>2. \A b \in Addresses :
              /\ dispatch'[b].person = dispatch[b].person
              /\ dispatch'[b].status # None => dispatch[b].status # None
      BY <1>types, <3>1 DEF DispatchRow
    <3>3. RowIsFor(a, dispatch[a].person)
      BY <3>1 DEF AddressInv
    <3>4. state.pc = "send" => state.email = state.row \/ state.person \in moved
      BY <3>1, <3>3 DEF RowIsFor, a
    <3> QED BY <2>2, <3>1, <3>2, <3>4 DEF AddressInv, RowIsFor, Unsent
  <2>6. CASE Mails(r, state)
    <3> DEFINE a == request[r].row
               mail == MailOf(r)
    <3>1. /\ request[r].pc = "send" /\ state.pc # "send"
          /\ UNCHANGED <<notice, dispatch, email, moved>>
          /\ UNCHANGED mails \/ mails' = [mails EXCEPT ![a] = Append(@, mail)]
      BY <2>6 DEF Mails, Accepted, notices, people
    <3>2. a \in Addresses /\ mail \in Mail
      BY <1>types, <3>1 DEF TypeInv, Memory, Mail, MailOf, Notice
    <3>3. mail.address = a \/ mail.person \in moved
      BY <3>1 DEF AddressInv, MailOf
    <3> HIDE DEF a, mail
    <3>4. ASSUME NEW b \in Addresses, NEW n \in 1..Len(mails'[b])
          PROVE  mails'[b][n].address = b \/ mails'[b][n].person \in moved
      <4>1. CASE mails'[b] = mails[b]
        BY <3>4, <4>1 DEF AddressInv
      <4>2. CASE mails'[b] # mails[b]
        <5>1. mails[a] \in Seq(Mail) /\ mails'[a] = Append(mails[a], mail) /\ b = a
          BY <3>1, <3>2, <4>2, MailAccepted
        <5>2. mails'[a][n] = IF n = Len(mails[a]) + 1 THEN mail ELSE mails[a][n]
          BY <3>2, <3>4, <5>1
        <5>3. n # Len(mails[a]) + 1 => n \in 1..Len(mails[a])
          BY <3>2, <3>4, <5>1
        <5> QED BY <3>2, <3>3, <5>1, <5>2, <5>3 DEF AddressInv
      <4> QED BY <4>1, <4>2
    <3>5. \A b \in Addresses :
              dispatch'[b].status # None =>
                  /\ ~Unsent' /\ dispatch'[b].person \in People
                  /\ email'[dispatch'[b].person] = b \/ dispatch'[b].person \in moved'
      BY <3>1 DEF AddressInv, RowIsFor, Unsent
    <3>6. \A q \in Requests : request'[q].pc = "send" =>
              request'[q].email = request'[q].row \/ request'[q].person \in moved'
      BY <2>2, <3>1 DEF AddressInv
    <3> QED BY <3>1, <3>4, <3>5, <3>6 DEF AddressInv, RowIsFor
  <2>7. CASE Marks(r, state)
    <3> DEFINE a == request[r].row
               status == request[r].pc
    <3>1. /\ UNCHANGED <<notice, mails, email, moved>> /\ state.pc # "send"
          /\ a \in Addresses
          /\ \/ UNCHANGED dispatch
             \/ dispatch[a].status = "sending" /\ dispatch' = [dispatch EXCEPT ![a].status = status]
      BY <2>7 DEF Marks, outside, people, TypeInv, Memory
    <3> HIDE DEF a, status
    <3>2. ASSUME NEW b \in Addresses
          PROVE  /\ dispatch'[b].person = dispatch[b].person
                 /\ dispatch'[b].status # None => dispatch[b].status # None
      <4>1. CASE UNCHANGED dispatch
        BY <4>1
      <4>2. CASE dispatch[a].status = "sending" /\ dispatch' = [dispatch EXCEPT ![a].status = status]
        <5>1. dispatch[b] \in DispatchRow
          BY <1>types
        <5>2. dispatch'[b] = IF b = a THEN [dispatch[b] EXCEPT !.status = status] ELSE dispatch[b]
          BY <1>types, <4>2
        <5> QED BY <1>types, <4>2, <5>1, <5>2 DEF DispatchRow
      <4> QED BY <3>1, <4>1, <4>2
    <3>3. ASSUME NEW b \in Addresses, dispatch'[b].status # None
          PROVE  /\ ~Unsent' /\ dispatch'[b].person \in People
                 /\ email'[dispatch'[b].person] = b \/ dispatch'[b].person \in moved'
      <4>1. ~Unsent /\ RowIsFor(b, dispatch[b].person)
        BY <3>2, <3>3 DEF AddressInv
      <4>2. dispatch'[b].person = dispatch[b].person
        BY <3>2
      <4>3. UNCHANGED <<notice, email, moved>>
        BY <3>1
      <4> QED BY <4>1, <4>2, <4>3 DEF RowIsFor, Unsent
    <3>4. \A q \in Requests : request'[q].pc = "send" =>
              request'[q].email = request'[q].row \/ request'[q].person \in moved'
      BY <2>2, <3>1 DEF AddressInv
    <3> QED BY <3>1, <3>3, <3>4 DEF AddressInv, RowIsFor
  <2> QED BY <2>1, <2>4, <2>5, <2>6, <2>7
<1>4. ASSUME NEW p \in People, ChangeAddress(p) PROVE AddressInv'
  <2>1. /\ UNCHANGED <<notice, dispatch, request, mails>>
        /\ moved' = IF Unsent THEN moved ELSE moved \union {p}
        /\ \A q \in People : q # p => email'[q] = email[q]
    BY <1>4 DEF ChangeAddress, notices, Unsent, TypeInv, TypeOK
  <2>2. ASSUME NEW a \in Addresses, dispatch'[a].status # None
        PROVE  /\ ~Unsent' /\ dispatch'[a].person \in People
               /\ email'[dispatch'[a].person] = a \/ dispatch'[a].person \in moved'
    <3>1. ~Unsent /\ RowIsFor(a, dispatch[a].person)
      BY <2>1, <2>2 DEF AddressInv
    <3> QED BY <2>1, <3>1 DEF RowIsFor, Unsent
  <2>3. moved \subseteq moved'
    BY <2>1
  <2> QED BY <2>1, <2>2, <2>3 DEF AddressInv, RowIsFor
<1>5. CASE Publish \/ Redefine \/ (\E p \in People : ChangeConsent(p)) \/ UNCHANGED vars
  <2>1. UNCHANGED <<notice, dispatch, request, mails, email, moved>>
    BY <1>5 DEF Publish, Redefine, ChangeConsent, notices, outside, people, vars
  <2> QED BY <2>1 DEF AddressInv, RowIsFor, Unsent
<1> QED BY <1>1, <1>2, <1>3, <1>4, <1>5 DEF Next

\* Concurrent batches, retries and killed requests mail a delivery once more for each error the
\* server reported and never otherwise (the claims of send_notice_batch); it goes to another
\* address than the one confirmed only when its account took that address after the confirmation.
THEOREM NoDeliveryIsMailedTwice == Spec => []NoSecondMail
<1>1. Init => NoticeInv /\ DeliveryInv /\ AddressInv
  <2> SUFFICES ASSUME Init PROVE NoticeInv /\ DeliveryInv /\ AddressInv
    OBVIOUS
  <2>1. /\ Unsent /\ \A a \in Addresses : mails[a] = <<>> /\ unsure[a] = 0
        /\ \A r \in Requests : request[r].pc = "idle"
        /\ \A a \in Addresses : dispatch[a].status = None
    BY ConstantTypes DEF Init, Unsent, NoNotice, NoRow
  <2>2. NoticeInv /\ DeliveryInv
    BY <2>1 DEF NoticeInv, MailIsAsConfirmed, Sender, DeliveryInv, MailedOnce, Tries
  <2>3. AddressInv
    BY <2>1 DEF AddressInv
  <2> QED BY <2>2, <2>3
<1>2. TypeInv /\ NoticeInv /\ DeliveryInv /\ AddressInv /\ [Next]_vars =>
          NoticeInv' /\ DeliveryInv' /\ AddressInv'
  BY NoticeStep, DeliveryStep, AddressStep
<1>3. DeliveryInv /\ AddressInv => NoSecondMail
  BY DEF DeliveryInv, MailedOnce, AddressInv, NoSecondMail
<1> QED BY <1>1, <1>2, <1>3, TypesHold, PTL DEF Spec

-----------------------------------------------------------------------------
(* Nobody is mailed who had withdrawn *)

\* Only a delivery adds a mail, to the person its request looked up.
LEMMA MailsComeFromDeliveries ==
    ASSUME TypeInv, [Next]_vars, NEW a \in Addresses, mails'[a] # mails[a]
    PROVE  \E r \in Requests :
               /\ request[r].pc = "send" /\ request[r].row = a
               /\ Last(mails'[a]).person = request[r].person
<1>types. /\ request \in [Requests -> RequestStates] /\ mails \in [Addresses -> Seq(Mail)]
          /\ notice \in Notice
  BY DEF TypeInv, TypeOK
<1>1. PICK r \in Requests : Sending(r)
  <2>1. ASSUME NEW q \in Requests, Workflow(q) \/ Killed(q) \/ Drafting(q)
        PROVE  UNCHANGED mails
    BY <2>1, WorkflowKinds, DraftingKinds DEF outside, people
  <2>2. (Publish \/ Redefine \/ \E p \in People : ChangeConsent(p) \/ ChangeAddress(p)) \/ UNCHANGED vars =>
            UNCHANGED mails
    BY DEF Publish, Redefine, ChangeConsent, ChangeAddress, outside, people, vars
  <2> QED BY <2>1, <2>2 DEF Next
<1>2. PICK state : /\ Goes(r, state)
                   /\ \/ Lists(r, state) \/ Takes(r, state) \/ Mails(r, state)
                      \/ Marks(r, state) \/ Finishes(r, state)
  BY <1>1, SendingKinds
<1>3. request[r].pc = "send" /\ Accepted(r)
  BY <1>2 DEF Lists, Takes, Mails, Marks, Finishes, outside, people
<1> DEFINE mail == MailOf(r)
           to == request[r].row
<1>4. to \in Addresses /\ mail \in Mail /\ mail.person = request[r].person
  BY <1>types, <1>3 DEF TypeInv, Memory, Mail, MailOf, Notice
<1>5. mails' = [mails EXCEPT ![to] = Append(@, mail)]
  BY <1>3 DEF Accepted
<1> HIDE DEF mail, to
<1>6. /\ mails[to] \in Seq(Mail) /\ mails'[to] = Append(mails[to], mail)
      /\ \A b \in Addresses : b # to => mails'[b] = mails[b]
  BY <1>4, <1>5, MailAccepted
<1>7. Last(mails'[to]) = mail
  BY <1>4, <1>6 DEF Last
<1> QED BY <1>3, <1>4, <1>6, <1>7 DEF to

LEMMA ConsentStep ==
    ASSUME TypeInv, ConsentInv, [Next]_vars
    PROVE  ConsentInv'
<1>kept. ASSUME NEW r \in Requests, NEW state, Goes(r, state), UNCHANGED <<eligible, late>>,
                state.pc = "send" => state.person \in eligible \union late
         PROVE  ConsentInv'
  <2>1. request'[r] = state /\ \A q \in Requests : q # r => request'[q] = request[q]
    BY <1>kept, OneRequestGoes
  <2> QED BY <1>kept, <2>1 DEF ConsentInv
<1>1. ASSUME NEW r \in Requests, Workflow(r) \/ Killed(r) PROVE ConsentInv'
  BY <1>1, <1>kept, WorkflowKinds DEF people
<1>2. ASSUME NEW r \in Requests, Drafting(r) PROVE ConsentInv'
  <2>1. PICK state : /\ Goes(r, state)
                     /\ \/ Looks(r, state) \/ Drafts(r, state) \/ Edits(r, state)
                        \/ Shows(r, state) \/ Confirms(r, state) \/ Retries(r, state)
    BY <1>2, DraftingKinds
  <2>2. state.pc # "send"
    BY <2>1 DEF Looks, Drafts, Edits, Shows, Confirms, Retries
  <2> QED BY <1>2, <1>kept, <2>1, <2>2, DraftingKinds DEF outside, people
<1>3. ASSUME NEW r \in Requests, Sending(r) PROVE ConsentInv'
  <2>1. PICK state : /\ Goes(r, state)
                     /\ \/ Lists(r, state) \/ Takes(r, state) \/ Mails(r, state)
                        \/ Marks(r, state) \/ Finishes(r, state)
    BY <1>3, SendingKinds
  <2>2. state.pc = "send" => state.person \in eligible
    BY <2>1 DEF Lists, Takes, Mails, Marks, Finishes
  <2>3. UNCHANGED <<eligible, late>>
    BY <2>1 DEF Lists, Takes, Mails, Marks, Finishes, outside, people
  <2> QED BY <1>kept, <2>1, <2>2, <2>3
<1>4. ASSUME NEW p \in People, ChangeConsent(p) PROVE ConsentInv'
  <2>1. /\ eligible' = IF p \in eligible THEN eligible \ {p} ELSE eligible \union {p}
        /\ late' = IF p \in eligible /\ UnderWay(p) THEN late \union {p} ELSE late \ {p}
        /\ UNCHANGED request
    BY <1>4 DEF ChangeConsent
  <2>2. ASSUME NEW r \in Requests, request'[r].pc = "send"
        PROVE  request'[r].person \in eligible' \union late'
    <3>1. request[r].pc = "send" /\ request[r].person \in eligible \union late
          /\ request'[r].person = request[r].person
      BY <2>1, <2>2 DEF ConsentInv
    <3>2. CASE request[r].person = p
      <4>1. UnderWay(p)
        BY <3>1, <3>2 DEF UnderWay
      <4> QED BY <2>1, <3>1, <3>2, <4>1
    <3>3. CASE request[r].person # p
      BY <2>1, <3>1, <3>3
    <3> QED BY <3>2, <3>3
  <2> QED BY <2>2 DEF ConsentInv
<1>5. CASE Publish \/ Redefine \/ (\E p \in People : ChangeAddress(p)) \/ UNCHANGED vars
  <2>1. UNCHANGED <<eligible, late, request>>
    BY <1>5 DEF Publish, Redefine, ChangeAddress, outside, people, vars
  <2> QED BY <2>1 DEF ConsentInv
<1> QED BY <1>1, <1>2, <1>3, <1>4, <1>5 DEF Next

\* A mail is accepted for nobody who had withdrawn consent before its request claimed the delivery
\* (_current_dispatch_email reads the consent again).
THEOREM WithdrawnPeopleGetNoMail == Spec => WithdrawalIsRespected
<1>1. Init => ConsentInv
  BY ConstantTypes DEF Init, ConsentInv
<1>2. TypeInv /\ ConsentInv /\ [Next]_vars => ConsentInv'
  BY ConsentStep
<1>3. TypeInv /\ ConsentInv /\ [Next]_vars =>
          [\A a \in Addresses : mails'[a] # mails[a] =>
               Last(mails'[a]).person \in eligible \union late]_vars
  <2> SUFFICES ASSUME TypeInv, ConsentInv, [Next]_vars, NEW a \in Addresses, mails'[a] # mails[a]
               PROVE  Last(mails'[a]).person \in eligible \union late
    OBVIOUS
  <2> QED BY MailsComeFromDeliveries DEF ConsentInv
<1> QED BY <1>1, <1>2, <1>3, TypesHold, PTL DEF Spec, WithdrawalIsRespected
=============================================================================
