--------------------------- MODULE WorkflowProofs ---------------------------
(***************************************************************************)
(* Theorems about Workflow for every set of requests, objects and boards:  *)
(* the boards' invariant, and that each board implements Board.  A step of *)
(* the code is first reduced to one of four things it can do to the board: *)
(* nothing, put an object somewhere, move it, or close a column.           *)
(***************************************************************************)
EXTENDS Workflow, TLAPS

(***************************************************************************)
(* The tables                                                              *)
(***************************************************************************)
\* What the four tables have in common, and what is special about posts.
LEMMA BoardTable ==
  ASSUME app \in App
  PROVE  /\ Initial \in Slugs /\ Edges \subseteq Slugs \X Slugs
         /\ NoState \notin Slugs /\ Gone \notin Slugs /\ NoState # Gone
         /\ NoState # "published" /\ Initial # "published"
         /\ app # "social" => "published" \notin Slugs
         /\ app = "social" => /\ <<Initial, "published">> \in Edges
                              /\ <<Initial, "pending_approval">> \in Edges
         /\ app # "social" => People = {"member"}
<1>1. app \in {"todos", "followups", "meetings", "social"}
  BY WorkflowAssumption DEF WorkflowAssumption, Table
<1>2. NoState \notin Slugs /\ Gone \notin Slugs /\ NoState # Gone /\ NoState # "published"
  <2>1. "social" \in DOMAIN Table /\ app \in DOMAIN Table
    BY <1>1 DEF Table
  <2>2. 5 \in DOMAIN Table["social"].slugs /\ Table["social"].slugs[5] = "published"
    BY DEF Table, PostBoard
  <2> QED
    BY <2>1, <2>2, WorkflowAssumption DEF WorkflowAssumption, Slugs
<1>3. CASE app = "todos"
  <2>1. Table[app] = TodoBoard
    BY <1>3 DEF Table
  <2>2. Slugs = {"open", "inprogress", "done", "cancelled"} /\ Initial = "open"
    BY <2>1 DEF Slugs, Initial, TodoBoard
  <2> QED
    BY <1>2, <1>3, <2>1, <2>2 DEF Edges, TodoBoard, People
<1>4. CASE app = "followups"
  <2>1. Table[app] = FollowUpBoard
    BY <1>4 DEF Table
  <2>2. Slugs = {"planning", "inprogress", "completed", "cancelled"} /\ Initial = "planning"
    BY <2>1 DEF Slugs, Initial, FollowUpBoard
  <2> QED
    BY <1>2, <1>4, <2>1, <2>2 DEF Edges, FollowUpBoard, People
<1>5. CASE app = "meetings"
  <2>1. Table[app] = MeetingBoard
    BY <1>5 DEF Table
  <2>2. Slugs = {"planning", "inprogress", "completed", "cancelled"} /\ Initial = "planning"
    BY <2>1 DEF Slugs, Initial, MeetingBoard, FollowUpBoard
  <2> QED
    BY <1>2, <1>5, <2>1, <2>2 DEF Edges, MeetingBoard, FollowUpBoard, People
<1>6. CASE app = "social"
  <2>1. Table[app] = PostBoard
    BY <1>6 DEF Table
  <2>2. /\ Slugs = {"draft", "pending_approval", "approved", "rejected", "published"}
        /\ Initial = "draft"
    BY <2>1 DEF Slugs, Initial, PostBoard
  <2> QED
    BY <1>2, <1>6, <2>1, <2>2 DEF Edges, PostBoard
<1> QED
  BY <1>1, <1>3, <1>4, <1>5, <1>6

\* The board of a behaviour does not change.
LEMMA SameBoard ==
  ASSUME UNCHANGED app
  PROVE  UNCHANGED <<Slugs, Initial, Edges, People>>
  BY DEF Slugs, Initial, Edges, People

(***************************************************************************)
(* What a step does to the board                                           *)
(***************************************************************************)
\* No object changes its place, and no trail is written.
Stays ==
  /\ UNCHANGED <<app, trail, tainted>>
  /\ \A i \in Item : item'[i].state = item[i].state

\* Object i is written into state s without a Proceeding: it was there, or is
\* off the board and enters it, or is set apart.
Puts(i, s) ==
  /\ UNCHANGED <<app, trail>>
  /\ \A j \in Item \ {i} : item'[j].state = item[j].state
  /\ item'[i].state = s
  /\ \/ tainted' = tainted \cup {i}
     \/ /\ UNCHANGED tainted
        /\ item[i].state = s \/ (item[i].state = NoState /\ s = Initial)

\* Object i moves along e, on a decision of u.
MovesOn(i, e, u) ==
  /\ UNCHANGED app
  /\ \A j \in Item \ {i} : item'[j].state = item[j].state
  /\ item'[i].state = e[2]
  /\ trail' = [trail EXCEPT ![i] = Append(@, [from |-> e[1], to |-> e[2], by |-> u])]
  /\ e[2] = "published" => u = "manager"
  /\ \/ tainted' = tainted \cup {i}
     \/ /\ UNCHANGED tainted
        /\ e[1] = IF item[i].state = NoState THEN Initial ELSE item[i].state

\* State s is blotted out of objects and trails.
Blot(s, x) == IF x = s THEN NoState ELSE x

Closes(s) ==
  /\ UNCHANGED <<app, tainted>>
  /\ \A i \in Item : item'[i].state = Blot(s, item[i].state)
  /\ trail' = [i \in Item |-> [k \in DOMAIN trail[i] |->
       [trail[i][k] EXCEPT !.from = Blot(s, @), !.to = Blot(s, @)]]]

StepsOnBoard ==
  \/ Stays
  \/ \E i \in Item, s \in Slugs : Puts(i, s)
  \/ \E i \in Item, e \in Edges, u \in People : MovesOn(i, e, u)
  \/ \E s \in Slugs : Closes(s)

(***************************************************************************)
(* Types                                                                   *)
(***************************************************************************)
Row == [status : {"NONE", "LIVE", "DELETED"}, state : StateKey, author : People \cup {"member"}]
Reqs == [pc : {"Idle"}] \cup LoadedReq

\* A thread that is not idle has loaded a row, and its state is a state, none
\* or one that is gone; Current is never none.
LEMMA Loaded ==
  ASSUME TypeOK, NEW w \in Request, ~ At(w, "Idle")
  PROVE  /\ req[w] \in LoadedReq /\ req[w].item \in Item /\ req[w].by \in People
         /\ Current(w) \in Slugs \cup {Gone}
  BY BoardTable DEF TypeOK, At, LoadedReq, Current

\* The idle thread and the empty row are what they should be.
LEMMA Blank ==
  /\ [pc |-> "Idle"] \in Reqs
  /\ NoItem \in Row
  BY DEF Reqs, NoItem, Row, StateKey

\* The initial state is well typed, and nothing is written yet.
LEMMA BoardHoldsInit == Init => BoardHolds
<1> SUFFICES ASSUME Init PROVE BoardHolds
  OBVIOUS
<1>1. TypeOK
  BY Blank, WorkflowAssumption DEF Init, TypeOK, Reqs, Row, WorkflowAssumption
<1>2. RowsAreThere
  BY DEF Init, RowsAreThere, At
<1>3. TrailIsPath /\ PublishedByManager
  BY <1>1, BoardTable DEF Init, TypeOK, TrailIsPath, IsPathTo, PublishedByManager, NoItem
<1> QED
  BY <1>1, <1>2, <1>3 DEF BoardHolds

\* A step that keeps the board and its rows well typed keeps TypeOK.
LEMMA TypeParts ==
  ASSUME TypeOK, UNCHANGED app, present' \subseteq Slugs, item' \in [Item -> Row'],
         trail' \in [Item -> Seq(Proceeding')], req' \in [Request -> Reqs],
         deletions' \in 0..MaxDeletions, tainted' \subseteq Item
  PROVE  TypeOK'
  BY SameBoard DEF TypeOK, Row, Reqs, LoadedReq

\* What was well typed stays so when states are seeded.
LEMMA Seeds ==
  ASSUME TypeOK, UNCHANGED app, present \subseteq present'
  PROVE  /\ item \in [Item -> Row'] /\ trail \in [Item -> Seq(Proceeding')]
         /\ Row \subseteq Row' /\ StateKey \subseteq StateKey'
<1>1. StateKey \subseteq StateKey' /\ People' = People
  BY SameBoard DEF StateKey
<1>2. Row \subseteq Row' /\ Proceeding \subseteq Proceeding'
  BY <1>1 DEF Row, Proceeding
<1> QED
  BY <1>1, <1>2 DEF TypeOK, Row

\* A thread that becomes idle, and the others as they were.
LEMMA ThreadEnds ==
  ASSUME TypeOK, NEW w \in Request, Done(w)
  PROVE  /\ req' \in [Request -> Reqs]
         /\ \A v \in Request : req'[v] = req[v] \/ req'[v].pc = "Idle"
  BY Blank DEF TypeOK, Done, Becomes, Reqs

\* When rows RowsAreThere goes by stay, so does it.
LEMMA RowsStay ==
  ASSUME TypeOK, RowsAreThere,
         \A j \in Item : \/ item'[j].status # "NONE"
                         \/ item'[j] = item[j] /\ trail'[j] = trail[j],
         \A j \in Item : item[j].status # "NONE" => item'[j].status # "NONE",
         \A v \in Request : \/ req'[v].pc = "Idle" \/ req'[v] = req[v]
                            \/ req'[v].item \in Item /\ item[req'[v].item].status # "NONE"
  PROVE  RowsAreThere'
<1>1. \A v \in Request : ~ At(v, "Idle") => req[v].item \in Item
  BY Loaded
<1> QED
  BY <1>1 DEF RowsAreThere, At

(***************************************************************************)
(* The actions                                                             *)
(***************************************************************************)
\* A request that only loads a row, or ends, leaves the board as it is.
LEMMA Loadings ==
  ASSUME TypeOK, RowsAreThere, NEW w \in Request,
         \/ \E i \in Item, u \in People :
              TransitionLoad(w, i, u) \/ ListLoad(w, i, u) \/ EditLoad(w, i, u)
         \/ End(w)
  PROVE  TypeOK' /\ RowsAreThere' /\ StepsOnBoard
<1>1. UNCHANGED <<app, item, trail, deletions, tainted>> /\ present \subseteq present'
      /\ present' \subseteq Slugs
  BY DEF TransitionLoad, ListLoad, EditLoad, Loads, End, TypeOK
<1>2. CASE End(w)
  BY <1>1, <1>2, Seeds, ThreadEnds, TypeParts, RowsStay DEF End, TypeOK, StepsOnBoard, Stays
<1>3. ASSUME NEW i \in Item, NEW u \in People, NEW op \in {"move", "list", "edit"},
             Loads(w, i, op, u)
      PROVE  TypeOK' /\ RowsAreThere' /\ StepsOnBoard
  <2> DEFINE r == [pc |-> op, item |-> i, state |-> item[i].state, by |-> u]
  <2>1. r \in Reqs /\ r.item = i /\ item[i].status = "LIVE"
    BY <1>3 DEF TypeOK, Reqs, LoadedReq, StateKey, Loads, Live
  <2>2. req' = [req EXCEPT ![w] = r]
    BY <1>3 DEF Loads, Becomes
  <2> HIDE DEF r
  <2>3. req' \in [Request -> Reqs]
    BY <2>1, <2>2 DEF TypeOK, Reqs
  <2>4. \A v \in Request : req'[v] = req[v] \/ req'[v] = r
    BY <2>2 DEF TypeOK
  <2>5. TypeOK'
    BY <1>1, <2>3, Seeds, TypeParts DEF TypeOK
  <2>6. RowsAreThere'
    BY <1>1, <2>1, <2>4, RowsStay
  <2> QED
    BY <1>1, <2>5, <2>6 DEF StepsOnBoard, Stays
<1> QED
  BY <1>2, <1>3 DEF TransitionLoad, ListLoad, EditLoad

\* A write of one row's state keeps types and rows.
LEMMA OneSaved ==
  ASSUME TypeOK, RowsAreThere, NEW w \in Request, NEW i \in Item, item[i].status # "NONE",
         NEW s \in present', NEW x, Taints(i, x), UNCHANGED <<app, trail, deletions>>,
         present \subseteq present', present' \subseteq Slugs,
         \/ item' = [item EXCEPT ![i].state = s]
         \/ item' = [item EXCEPT ![i].state = s, ![i].status = "LIVE"],
         req' \in [Request -> Reqs],
         \A v \in Request : \/ req'[v] = req[v] \/ req'[v].pc = "Idle"
                            \/ req'[v].item \in Item /\ item[req'[v].item].status # "NONE",
         x = s \/ (x = NoState /\ s = Initial)
  PROVE  TypeOK' /\ RowsAreThere' /\ StepsOnBoard
<1>1. item \in [Item -> Row'] /\ trail \in [Item -> Seq(Proceeding')]
  BY Seeds
<1>2. s \in StateKey'
  BY DEF StateKey
<1>3. PICK st \in {item[i].status, "LIVE"} :
        item' = [item EXCEPT ![i] = [item[i] EXCEPT !.state = s, !.status = st]]
  <2>1. item[i] = [item[i] EXCEPT !.status = item[i].status]
    BY DEF TypeOK
  <2>2. CASE item' = [item EXCEPT ![i].state = s]
    <3>1. [item[i] EXCEPT !.state = s, !.status = item[i].status] = [item[i] EXCEPT !.state = s]
      BY DEF TypeOK
    <3> QED
      BY <2>2, <3>1
  <2>3. CASE item' = [item EXCEPT ![i].state = s, ![i].status = "LIVE"]
    BY <2>3 DEF TypeOK
  <2> QED
    BY <2>2, <2>3
<1>4. [item[i] EXCEPT !.state = s, !.status = st] \in Row'
  <2>1. item[i] \in Row' /\ st \in {"NONE", "LIVE", "DELETED"}
    BY <1>1 DEF TypeOK
  <2> QED
    BY <1>2, <2>1 DEF Row
<1>5. item' \in [Item -> Row']
  BY <1>1, <1>3, <1>4
<1>6. /\ \A j \in Item \ {i} : item'[j] = item[j]
      /\ item'[i].state = s /\ item'[i].status # "NONE"
  BY <1>1, <1>3 DEF TypeOK
<1>7. tainted' \subseteq Item
  BY DEF Taints, TypeOK
<1>8. TypeOK'
  BY <1>1, <1>5, <1>7, TypeParts DEF TypeOK
<1>9. RowsAreThere'
  BY <1>6, RowsStay
<1>10. Puts(i, s) /\ s \in Slugs
  BY <1>6 DEF Puts, Taints
<1> QED
  BY <1>8, <1>9, <1>10 DEF StepsOnBoard

\* Lists, permission checks and edits put an object somewhere.
LEMMA Savings ==
  ASSUME TypeOK, RowsAreThere, NEW w \in Request,
         ListAssign(w) \/ PermitAssign(w) \/ EditSave(w)
  PROVE  TypeOK' /\ RowsAreThere' /\ StepsOnBoard
<1> DEFINE i == req[w].item
<1>1. ~ At(w, "Idle") /\ present \subseteq Slugs
  BY DEF ListAssign, PermitAssign, EditSave, At, TypeOK
<1>2. /\ req[w] \in LoadedReq /\ i \in Item /\ item[i].status # "NONE"
      /\ Current(w) \in Slugs \cup {Gone} /\ Initial \in Slugs
  BY <1>1, Loaded, BoardTable DEF RowsAreThere, TypeOK
<1>3. CASE ListAssign(w)
  BY <1>1, <1>2, <1>3, ThreadEnds, OneSaved DEF ListAssign
<1>4. CASE PermitAssign(w)
  <2> DEFINE r == [req[w] EXCEPT !.state = Initial]
  <2>1. r \in Reqs /\ r.item = i
    BY <1>2 DEF Reqs, LoadedReq
  <2>2. req' \in [Request -> Reqs] /\ \A v \in Request : req'[v] = req[v] \/ req'[v].item = i
    BY <1>4, <2>1 DEF PermitAssign, Becomes, TypeOK, Reqs
  <2> QED
    BY <1>1, <1>2, <1>4, <2>2, OneSaved DEF PermitAssign
<1>5. CASE EditSave(w)
  <2>1. Current(w) \in Slugs
    BY <1>2, <1>5, BoardTable DEF EditSave, Current, TypeOK
  <2> QED
    BY <1>1, <1>2, <1>5, <2>1, ThreadEnds, OneSaved DEF EditSave, Current
<1> QED
  BY <1>3, <1>4, <1>5

\* A thread that moves an object writes the Proceeding along with its state.
LEMMA Proceedings ==
  ASSUME TypeOK, RowsAreThere, NEW w \in Request, NEW to \in Slugs, Proceed(w, to)
  PROVE  TypeOK' /\ RowsAreThere' /\ StepsOnBoard
<1> DEFINE i == req[w].item
<1> DEFINE from == Current(w)
<1> DEFINE p == [from |-> from, to |-> to, by |-> req[w].by]
<1>1. ~ At(w, "Idle") /\ present \subseteq Slugs /\ app \in App
  BY DEF Proceed, At, TypeOK
<1>2. /\ req[w] \in LoadedReq /\ i \in Item /\ item[i].status # "NONE"
      /\ req[w].by \in People
  BY <1>1, Loaded DEF RowsAreThere
<1>3. <<from, to>> \in Edges /\ from \in Slugs
  BY <1>1, BoardTable DEF Proceed
<1>4. /\ UNCHANGED <<app, deletions>> /\ present' = Slugs
      /\ item' = [item EXCEPT ![i].state = to]
      /\ trail' = [trail EXCEPT ![i] = Append(@, p)]
      /\ Taints(i, req[w].state) /\ Done(w)
  BY DEF Proceed
<1>5. UNCHANGED <<Slugs, Initial, Edges, People>>
  BY <1>4, SameBoard
<1>6. /\ item \in [Item -> Row'] /\ trail \in [Item -> Seq(Proceeding')]
      /\ p \in Proceeding' /\ to \in StateKey'
  BY <1>1, <1>2, <1>3, <1>4, <1>5, Seeds DEF Proceeding, StateKey
<1>7. item' \in [Item -> Row'] /\ trail' \in [Item -> Seq(Proceeding')]
  <2>1. [item[i] EXCEPT !.state = to] \in Row'
    <3>1. item[i] \in Row'
      BY <1>2, <1>6
    <3> QED
      BY <1>6, <3>1 DEF Row
  <2>2. Append(trail[i], p) \in Seq(Proceeding')
    BY <1>2, <1>6
  <2> HIDE DEF i, p
  <2> QED
    BY <1>4, <1>6, <2>1, <2>2
<1>8. /\ \A j \in Item \ {i} : item'[j] = item[j] /\ trail'[j] = trail[j]
      /\ item'[i].state = to /\ item'[i].status # "NONE"
  BY <1>2, <1>4, <1>6 DEF TypeOK
<1>9. tainted' \subseteq Item /\ req' \in [Request -> Reqs]
  BY <1>2, <1>4, ThreadEnds DEF Taints, TypeOK
<1>10. TypeOK'
  BY <1>4, <1>7, <1>9, TypeParts DEF TypeOK
<1>11. RowsAreThere'
  BY <1>4, <1>8, ThreadEnds, RowsStay
<1>12. MovesOn(i, <<from, to>>, req[w].by)
  <2>1. to = "published" => req[w].by = "manager"
    <3>1. app # "social" => "published" \notin Slugs
      BY <1>1, BoardTable
    <3> QED
      BY <3>1 DEF Proceed, MayMove
  <2>2. \/ tainted' = tainted \cup {i}
        \/ UNCHANGED tainted /\ item[i].state = req[w].state
    BY <1>4 DEF Taints
  <2> QED
    BY <1>4, <1>8, <2>1, <2>2 DEF MovesOn, Current
<1> QED
  BY <1>2, <1>3, <1>10, <1>11, <1>12 DEF StepsOnBoard

\* A new object enters the board; a new post moves on at once.
LEMMA Creations ==
  ASSUME TypeOK, RowsAreThere, NEW i \in Item, NEW u \in People,
         Create(i, u) \/ CreatePost(i, u)
  PROVE  TypeOK' /\ RowsAreThere' /\ StepsOnBoard
<1>1. /\ UNCHANGED <<app, req, deletions, tainted>> /\ present' = Slugs /\ item[i] = NoItem
      /\ app \in App /\ present \subseteq Slugs
  BY DEF Create, CreatePost, TypeOK
<1>2. UNCHANGED <<Slugs, Initial, Edges, People>>
  BY <1>1, SameBoard
<1>3. /\ item \in [Item -> Row'] /\ trail \in [Item -> Seq(Proceeding')]
      /\ item[i].state = NoState /\ item[i].status = "NONE" /\ trail[i] = << >>
  BY <1>1, Seeds DEF NoItem, RowsAreThere
<1>4. ASSUME NEW s \in Slugs,
             item' = [item EXCEPT ![i] = [status |-> "LIVE", state |-> s, author |-> u]],
             trail' \in [Item -> Seq(Proceeding')],
             \A j \in Item \ {i} : trail'[j] = trail[j]
      PROVE  /\ TypeOK' /\ RowsAreThere' /\ item'[i].state = s
             /\ \A j \in Item \ {i} : item'[j] = item[j]
  <2>1. [status |-> "LIVE", state |-> s, author |-> u] \in Row'
    BY <1>1, <1>2 DEF Row, StateKey
  <2>2. item' \in [Item -> Row']
    BY <1>3, <1>4, <2>1
  <2>3. /\ \A j \in Item \ {i} : item'[j] = item[j]
        /\ item'[i].state = s /\ item'[i].status # "NONE"
    BY <1>3, <1>4
  <2>4. TypeOK'
    BY <1>1, <1>2, <1>4, <2>2, TypeParts DEF TypeOK, Reqs
  <2>5. \A v \in Request : \/ req'[v].pc = "Idle" \/ req'[v] = req[v]
    BY <1>1
  <2>6. RowsAreThere'
    BY <1>1, <1>4, <2>3, <2>5, RowsStay
  <2> QED
    BY <2>3, <2>4, <2>6
<1>5. CASE Create(i, u)
  <2>1. Initial \in Slugs
    BY <1>1, BoardTable
  <2>2. /\ TypeOK' /\ RowsAreThere' /\ item'[i].state = Initial
        /\ \A j \in Item \ {i} : item'[j] = item[j]
    BY <1>3, <1>4, <1>5, <2>1 DEF Create
  <2>3. Puts(i, Initial)
    BY <1>1, <1>3, <1>5, <2>2 DEF Create, Puts
  <2> QED
    BY <2>1, <2>2, <2>3 DEF StepsOnBoard
<1>6. CASE CreatePost(i, u)
  <2>1. PICK to \in {"published", "pending_approval"} :
          /\ to = "published" => u = "manager"
          /\ item' = [item EXCEPT ![i] = [status |-> "LIVE", state |-> to, author |-> u]]
          /\ trail' = [trail EXCEPT ![i] = <<[from |-> Initial, to |-> to, by |-> u]>>]
          /\ app = "social"
    BY <1>6 DEF CreatePost
  <2>2. <<Initial, to>> \in Edges /\ to \in Slugs /\ Initial \in Slugs
    BY <1>1, <2>1, BoardTable
  <2> DEFINE p == [from |-> Initial, to |-> to, by |-> u]
  <2>3. p \in Proceeding'
    BY <1>1, <1>2, <2>2 DEF Proceeding, StateKey
  <2>4. <<p>> \in Seq(Proceeding') /\ Append(trail[i], p) = <<p>>
    BY <1>3, <2>3
  <2> HIDE DEF p
  <2>5. /\ trail' \in [Item -> Seq(Proceeding')] /\ \A j \in Item \ {i} : trail'[j] = trail[j]
        /\ trail' = [trail EXCEPT ![i] = Append(@, p)]
    BY <1>3, <2>1, <2>4 DEF p
  <2>6. /\ TypeOK' /\ RowsAreThere' /\ item'[i].state = to
        /\ \A j \in Item \ {i} : item'[j] = item[j]
    BY <1>4, <2>1, <2>2, <2>5
  <2>7. MovesOn(i, <<Initial, to>>, u)
    BY <1>1, <1>3, <2>1, <2>5, <2>6 DEF MovesOn, p
  <2> QED
    BY <2>2, <2>6, <2>7 DEF StepsOnBoard
<1> QED
  BY <1>5, <1>6

\* A soft deletion moves nothing.
LEMMA Deletions ==
  ASSUME TypeOK, RowsAreThere, NEW i \in Item, Delete(i)
  PROVE  TypeOK' /\ RowsAreThere' /\ StepsOnBoard
<1>1. /\ UNCHANGED <<app, present, trail, req, deletions, tainted>>
      /\ item' = [item EXCEPT ![i].status = "DELETED"] /\ item[i].status = "LIVE"
  BY DEF Delete, Live
<1>2. item \in [Item -> Row'] /\ trail \in [Item -> Seq(Proceeding')]
  BY <1>1, Seeds
<1>3. [item[i] EXCEPT !.status = "DELETED"] \in Row'
  <2>1. item[i] \in Row'
    BY <1>2
  <2> QED
    BY <2>1 DEF Row
<1>4. item' \in [Item -> Row']
  BY <1>1, <1>2, <1>3
<1>5. /\ \A j \in Item \ {i} : item'[j] = item[j]
      /\ item'[i].state = item[i].state /\ item'[i].status = "DELETED"
  BY <1>1, <1>2 DEF TypeOK
<1>6. TypeOK'
  BY <1>1, <1>2, <1>4, TypeParts DEF TypeOK, Reqs
<1>7. RowsAreThere'
  BY <1>1, <1>5, RowsStay
<1> QED
  BY <1>1, <1>5, <1>6, <1>7 DEF StepsOnBoard, Stays

\* Deleting a state takes its key out of objects, Proceedings and requests.
LEMMA StateDeletions ==
  ASSUME TypeOK, RowsAreThere, NEW s \in Slugs, DeleteState(s)
  PROVE  TypeOK' /\ RowsAreThere' /\ StepsOnBoard
<1>1. /\ UNCHANGED <<app, tainted>> /\ present' = present \ {s} /\ present \subseteq Slugs
      /\ deletions' = deletions + 1 /\ deletions < MaxDeletions /\ app \in App
      /\ item' = [i \in Item |-> [item[i] EXCEPT !.state = Blot(s, @)]]
      /\ trail' = [i \in Item |-> [k \in DOMAIN trail[i] |->
           [trail[i][k] EXCEPT !.from = Blot(s, @), !.to = Blot(s, @)]]]
      /\ req' = [v \in Request |-> Forget(s, req[v])]
  BY DEF DeleteState, TypeOK, Blot
<1>2. UNCHANGED <<Slugs, People>> /\ NoState \notin Slugs
  BY <1>1, SameBoard, BoardTable
<1>3. \A x \in StateKey : Blot(s, x) \in StateKey'
  BY <1>1 DEF StateKey, Blot
<1>4. \A r \in Row : /\ [r EXCEPT !.state = Blot(s, @)] \in Row'
                     /\ [r EXCEPT !.state = Blot(s, @)].status = r.status
                     /\ [r EXCEPT !.state = Blot(s, @)].state = Blot(s, r.state)
  <2>1. ASSUME NEW r \in Row
        PROVE  [r EXCEPT !.state = Blot(s, @)] \in Row'
    <3>1. Blot(s, r.state) \in StateKey' /\ People' = People
      BY <1>2, <1>3 DEF Row
    <3> QED
      BY <3>1 DEF Row
  <2> QED
    BY <2>1 DEF Row
<1>5. item' \in [Item -> Row']
  BY <1>1, <1>4 DEF TypeOK, Row
<1>6. trail' \in [Item -> Seq(Proceeding')]
  <2>1. ASSUME NEW p \in Proceeding
        PROVE  [p EXCEPT !.from = Blot(s, @), !.to = Blot(s, @)] \in Proceeding'
    <3>1. Blot(s, p.from) \in StateKey' /\ Blot(s, p.to) \in StateKey' /\ People' = People
      BY <1>2, <1>3 DEF Proceeding
    <3> QED
      BY <3>1 DEF Proceeding
  <2>2. ASSUME NEW q \in Seq(Proceeding)
        PROVE  [k \in DOMAIN q |-> [q[k] EXCEPT !.from = Blot(s, @), !.to = Blot(s, @)]]
                 \in Seq(Proceeding')
    <3> DEFINE out == [k \in DOMAIN q |-> [q[k] EXCEPT !.from = Blot(s, @), !.to = Blot(s, @)]]
    <3>1. Len(q) \in Nat /\ DOMAIN q = 1..Len(q) /\ \A k \in DOMAIN q : q[k] \in Proceeding
      OBVIOUS
    <3>2. out \in [1..Len(q) -> Proceeding']
      BY <2>1, <3>1
    <3> HIDE DEF out
    <3>3. out \in Seq(Proceeding')
      BY <3>1, <3>2
    <3> QED
      BY <3>3 DEF out
  <2> QED
    BY <1>1, <2>2 DEF TypeOK
<1>7. \A v \in Request :
        /\ req'[v] \in Reqs
        /\ req'[v].pc = req[v].pc /\ (req[v].pc # "Idle" => req'[v].item = req[v].item)
  <2>1. ASSUME NEW v \in Request
        PROVE  /\ req'[v] \in Reqs
               /\ req'[v].pc = req[v].pc /\ (req[v].pc # "Idle" => req'[v].item = req[v].item)
    <3>1. req[v] \in Reqs /\ req'[v] = Forget(s, req[v])
      BY <1>1 DEF TypeOK, Reqs
    <3>2. CASE req[v].pc # "Idle" /\ req[v].state = s
      <4>1. req[v] \in LoadedReq
        BY <3>1, <3>2 DEF Reqs
      <4>2. [req[v] EXCEPT !.state = Gone] \in LoadedReq
        BY <4>1 DEF LoadedReq
      <4> QED
        BY <3>1, <3>2, <4>1, <4>2 DEF Forget, Reqs, LoadedReq
    <3>3. CASE ~ (req[v].pc # "Idle" /\ req[v].state = s)
      BY <3>1, <3>3 DEF Forget
    <3> QED
      BY <3>2, <3>3
  <2> QED
    BY <2>1
<1>8. TypeOK'
  <2>1. req' \in [Request -> Reqs]
    BY <1>1, <1>7
  <2>2. deletions' \in 0..MaxDeletions
    <3>1. deletions \in Nat /\ MaxDeletions \in Nat
      BY WorkflowAssumption DEF TypeOK, WorkflowAssumption
    <3>2. deletions' = deletions + 1 /\ deletions < MaxDeletions
      BY DEF DeleteState
    <3> QED
      BY <3>1, <3>2
  <2> QED
    BY <1>1, <1>5, <1>6, <2>1, <2>2, TypeParts DEF TypeOK
<1>9. \A j \in Item : item'[j].status = item[j].status
                      /\ item'[j].state = Blot(s, item[j].state)
  BY <1>1, <1>4 DEF TypeOK, Row
<1>10. RowsAreThere'
  <2>1. ASSUME NEW j \in Item, item[j].status = "NONE"
        PROVE  item'[j] = item[j] /\ trail'[j] = trail[j]
    <3>1. item[j] = NoItem /\ trail[j] = << >>
      BY <2>1 DEF RowsAreThere
    <3>2. Blot(s, NoItem.state) = NoItem.state
      BY <1>2 DEF NoItem, Blot
    <3>3. [NoItem EXCEPT !.state = Blot(s, @)] = NoItem
      BY <3>2 DEF NoItem
    <3>4. item'[j] = [item[j] EXCEPT !.state = Blot(s, @)]
      BY <1>1
    <3>5. trail'[j] = [k \in DOMAIN trail[j] |->
                        [trail[j][k] EXCEPT !.from = Blot(s, @), !.to = Blot(s, @)]]
      BY <1>1
    <3>6. trail'[j] = << >>
      BY <3>1, <3>5
    <3> QED
      BY <3>1, <3>3, <3>4, <3>6
  <2>2. \A v \in Request : req[v].pc # "Idle" =>
          req[v].item \in Item /\ item[req[v].item].status # "NONE"
    BY Loaded DEF RowsAreThere, At
  <2> QED
    BY <1>7, <1>9, <2>1, <2>2, RowsStay
<1> QED
  BY <1>1, <1>8, <1>9, <1>10 DEF StepsOnBoard, Closes

\* Every step keeps types and rows, and is one of the four.
LEMMA EveryStep ==
  ASSUME TypeOK, RowsAreThere, [Next]_vars
  PROVE  TypeOK' /\ RowsAreThere' /\ StepsOnBoard
<1>1. CASE UNCHANGED vars
  <2>1. TypeOK'
    BY <1>1, Seeds, TypeParts DEF vars, TypeOK, Reqs
  <2>2. RowsAreThere'
    BY <1>1 DEF vars, RowsAreThere, At
  <2> QED
    BY <1>1, <2>1, <2>2 DEF vars, StepsOnBoard, Stays
<1> QED
  BY <1>1, Loadings, Savings, Proceedings, Creations, Deletions, StateDeletions DEF Next

(***************************************************************************)
(* The boards' invariant                                                   *)
(***************************************************************************)
\* A path that led off the board leads on from the first state.
LEMMA PathEnters ==
  ASSUME NEW q \in Seq(Proceeding), IsPathTo(q, NoState), Initial # NoState
  PROVE  IsPathTo(q, Initial)
  BY DEF IsPathTo, IsAt

\* A path is prolonged by a move from where it ends.
LEMMA PathMoves ==
  ASSUME NEW q \in Seq(Proceeding), NEW s, IsPathTo(q, s), Initial # NoState,
         NEW to, to # NoState, NEW u,
         NEW from, from = IF s = NoState THEN Initial ELSE s
  PROVE  IsPathTo(Append(q, [from |-> from, to |-> to, by |-> u]), to)
<1> DEFINE p == [from |-> from, to |-> to, by |-> u]
<1> DEFINE new == Append(q, p)
<1>1. /\ Len(q) \in Nat /\ Len(new) = Len(q) + 1 /\ new[Len(q) + 1] = p
      /\ \A k \in 1..Len(q) : new[k] = q[k]
  OBVIOUS
<1>2. p.from = from /\ p.to = to
  OBVIOUS
<1>3. IsAt(q, Len(q), from)
  BY <1>1 DEF IsPathTo, IsAt
<1> HIDE DEF p, new
<1>4. \A x : \A k \in 1..Len(q) : IsAt(q, k - 1, x) => IsAt(new, k - 1, x)
  BY <1>1 DEF IsAt
<1>5. IsAt(new, Len(q), from)
  BY <1>1, <1>3 DEF IsAt
<1>6. ASSUME NEW k \in 1..Len(new)
      PROVE  new[k].from = NoState \/ IsAt(new, k - 1, new[k].from)
  <2>1. CASE k \in 1..Len(q)
    BY <1>1, <1>4, <2>1 DEF IsPathTo
  <2>2. CASE k = Len(q) + 1
    BY <1>1, <1>2, <1>5, <2>2
  <2> QED
    BY <1>1, <2>1, <2>2
<1>7. IsAt(new, Len(new), to)
  BY <1>1, <1>2 DEF IsAt
<1>8. IsPathTo(new, to)
  BY <1>6, <1>7 DEF IsPathTo
<1> QED
  BY <1>8 DEF new, p

\* A state is blotted out of a path and of its end alike.
LEMMA PathBlots ==
  ASSUME NEW q \in Seq(Proceeding), NEW st, IsPathTo(q, st), NEW s, s # NoState,
         Initial # NoState, NEW b \in Seq(Proceeding'), Len(b) = Len(q),
         \A k \in 1..Len(q) : b[k].from = Blot(s, q[k].from) /\ b[k].to = Blot(s, q[k].to)
  PROVE  IsPathTo(b, Blot(s, st))
<1>1. Len(q) \in Nat
  OBVIOUS
<1>2. ASSUME NEW k \in 0..Len(q), NEW x, IsAt(q, k, x), Blot(s, x) # NoState
      PROVE  IsAt(b, k, Blot(s, x))
  BY <1>1, <1>2 DEF IsAt, Blot
<1>3. \A k \in 1..Len(b) : b[k].from = NoState \/ IsAt(b, k - 1, b[k].from)
  <2> SUFFICES ASSUME NEW k \in 1..Len(q), b[k].from # NoState
               PROVE  IsAt(b, k - 1, b[k].from)
    OBVIOUS
  <2>1. b[k].from = Blot(s, q[k].from) /\ q[k].from # NoState
    BY DEF Blot
  <2>2. IsAt(q, k - 1, q[k].from) /\ k - 1 \in 0..Len(q)
    BY <1>1, <2>1 DEF IsPathTo
  <2> QED
    BY <1>2, <2>1, <2>2
<1>4. CASE Blot(s, st) # NoState
  <2>1. IsAt(q, Len(q), st)
    BY <1>4 DEF IsPathTo, Blot
  <2> QED
    BY <1>1, <1>2, <1>3, <1>4, <2>1 DEF IsPathTo
<1>5. CASE Blot(s, st) = NoState
  <2>1. ASSUME b # << >> PROVE b[Len(b)].to = NoState
    <3>1. Len(q) # 0 /\ q # << >>
      BY <1>1, <2>1
    <3>2. b[Len(q)].to = Blot(s, q[Len(q)].to)
      BY <1>1, <3>1
    <3>3. CASE st = NoState
      BY <3>1, <3>2, <3>3 DEF IsPathTo, Blot
    <3>4. CASE st = s /\ st # NoState
      BY <3>1, <3>2, <3>4 DEF IsPathTo, IsAt, Blot
    <3> QED
      BY <1>5, <3>3, <3>4 DEF Blot
  <2> QED
    BY <1>3, <1>5, <2>1 DEF IsPathTo
<1> QED
  BY <1>4, <1>5

\* What a closed state does to a trail.
LEMMA Blots ==
  ASSUME TypeOK, TypeOK', NEW s \in Slugs, Closes(s), NEW i \in Item
  PROVE  /\ trail[i] \in Seq(Proceeding) /\ trail'[i] \in Seq(Proceeding')
         /\ Len(trail'[i]) = Len(trail[i]) /\ DOMAIN trail'[i] = DOMAIN trail[i]
         /\ \A k \in 1..Len(trail[i]) :
              /\ trail'[i][k].from = Blot(s, trail[i][k].from)
              /\ trail'[i][k].to = Blot(s, trail[i][k].to)
              /\ trail'[i][k].by = trail[i][k].by
<1>1. trail[i] \in Seq(Proceeding) /\ trail'[i] \in Seq(Proceeding')
  BY DEF TypeOK
<1>2. trail'[i] = [k \in DOMAIN trail[i] |->
                    [trail[i][k] EXCEPT !.from = Blot(s, @), !.to = Blot(s, @)]]
  BY DEF Closes
<1>3. \A k \in DOMAIN trail[i] :
        trail'[i][k] = [trail[i][k] EXCEPT !.from = Blot(s, @), !.to = Blot(s, @)]
  BY <1>2
<1>4. \A k \in 1..Len(trail[i]) : trail[i][k] \in Proceeding /\ k \in DOMAIN trail[i]
  BY <1>1
<1>5. \A p \in Proceeding :
        /\ [p EXCEPT !.from = Blot(s, @), !.to = Blot(s, @)].from = Blot(s, p.from)
        /\ [p EXCEPT !.from = Blot(s, @), !.to = Blot(s, @)].to = Blot(s, p.to)
        /\ [p EXCEPT !.from = Blot(s, @), !.to = Blot(s, @)].by = p.by
  BY DEF Proceeding
<1>6. DOMAIN trail'[i] = DOMAIN trail[i]
  BY <1>2
<1>7. Len(trail'[i]) = Len(trail[i])
  BY <1>1, <1>6
<1> QED
  BY <1>1, <1>3, <1>4, <1>5, <1>6, <1>7

\* A step on the board keeps every trail a path to its object.
LEMMA PathStep ==
  ASSUME TypeOK, TypeOK', TrailIsPath, StepsOnBoard
  PROVE  TrailIsPath'
<1>1. /\ Initial \in Slugs /\ NoState \notin Slugs /\ Edges \subseteq Slugs \X Slugs
      /\ UNCHANGED <<Slugs, Initial, Edges>>
  BY BoardTable, SameBoard DEF TypeOK, StepsOnBoard, Stays, Puts, MovesOn, Closes
<1>2. \A q, s : IsPathTo(q, s)' <=> IsPathTo(q, s)
  BY <1>1 DEF IsPathTo, IsAt
<1>3. \A i \in Item : trail[i] \in Seq(Proceeding)
  BY DEF TypeOK
<1>4. CASE Stays
  BY <1>2, <1>4 DEF Stays, TrailIsPath
<1>5. ASSUME NEW i \in Item, NEW s \in Slugs, Puts(i, s)
      PROVE  TrailIsPath'
  <2>1. /\ tainted \subseteq tainted' /\ UNCHANGED trail
        /\ \A j \in Item \ {i} : item'[j].state = item[j].state
    BY <1>5 DEF Puts
  <2>2. ASSUME i \notin tainted' PROVE IsPathTo(trail[i], item'[i].state)
    BY <1>1, <1>3, <1>5, <2>2, PathEnters DEF Puts, TrailIsPath
  <2>3. ASSUME NEW j \in Item \ {i}, j \notin tainted' PROVE IsPathTo(trail[j], item'[j].state)
    BY <2>1, <2>3 DEF TrailIsPath
  <2>4. \A j \in Item \ tainted' : IsPathTo(trail'[j], item'[j].state)
    BY <2>1, <2>2, <2>3
  <2> QED
    BY <1>2, <2>4 DEF TrailIsPath
<1>6. ASSUME NEW i \in Item, NEW e \in Edges, NEW u \in People, MovesOn(i, e, u)
      PROVE  TrailIsPath'
  <2>1. /\ tainted \subseteq tainted' /\ \A j \in Item \ {i} : item'[j].state = item[j].state
        /\ trail' = [trail EXCEPT ![i] = Append(@, [from |-> e[1], to |-> e[2], by |-> u])]
        /\ item'[i].state = e[2] /\ e[2] \in Slugs
    BY <1>1, <1>6 DEF MovesOn
  <2>2. /\ trail'[i] = Append(trail[i], [from |-> e[1], to |-> e[2], by |-> u])
        /\ \A j \in Item \ {i} : trail'[j] = trail[j]
    BY <2>1 DEF TypeOK
  <2>3. ASSUME i \notin tainted' PROVE IsPathTo(trail'[i], item'[i].state)
    <3>1. /\ i \notin tainted
          /\ e[1] = IF item[i].state = NoState THEN Initial ELSE item[i].state
      BY <1>6, <2>3 DEF MovesOn
    <3>2. IsPathTo(trail[i], item[i].state)
      BY <3>1 DEF TrailIsPath
    <3>3. e[2] # NoState /\ Initial # NoState
      BY <1>1, <2>1
    <3> QED
      BY <1>3, <2>1, <2>2, <3>1, <3>2, <3>3, PathMoves
  <2> QED
    BY <1>2, <2>1, <2>2, <2>3 DEF TrailIsPath
<1>7. ASSUME NEW s \in Slugs, Closes(s)
      PROVE  TrailIsPath'
  <2>1. ASSUME NEW i \in Item \ tainted
        PROVE  IsPathTo(trail'[i], Blot(s, item[i].state))
    <3>1. IsPathTo(trail[i], item[i].state)
      BY <2>1 DEF TrailIsPath
    <3>2. /\ trail[i] \in Seq(Proceeding) /\ trail'[i] \in Seq(Proceeding')
          /\ Len(trail'[i]) = Len(trail[i])
          /\ \A k \in 1..Len(trail[i]) : /\ trail'[i][k].from = Blot(s, trail[i][k].from)
                                        /\ trail'[i][k].to = Blot(s, trail[i][k].to)
      BY <1>7, Blots
    <3>3. s # NoState /\ Initial # NoState
      BY <1>1
    <3> QED
      BY <3>1, <3>2, <3>3, PathBlots
  <2> QED
    BY <1>2, <1>7, <2>1 DEF TrailIsPath, Closes
<1> QED
  BY <1>4, <1>5, <1>6, <1>7 DEF StepsOnBoard

\* A step on the board publishes only on a manager's decision.
LEMMA PublishedStep ==
  ASSUME TypeOK, TypeOK', PublishedByManager, StepsOnBoard
  PROVE  PublishedByManager'
<1>1. /\ Initial # "published" /\ NoState # "published"
      /\ \A i \in Item : trail[i] \in Seq(Proceeding)
  BY BoardTable DEF TypeOK
<1>2. CASE Stays
  BY <1>2 DEF Stays, PublishedByManager
<1>3. ASSUME NEW i \in Item, NEW s \in Slugs, Puts(i, s)
      PROVE  PublishedByManager'
  BY <1>1, <1>3 DEF Puts, PublishedByManager
<1>4. ASSUME NEW i \in Item, NEW e \in Edges, NEW u \in People, MovesOn(i, e, u)
      PROVE  PublishedByManager'
  <2> DEFINE p == [from |-> e[1], to |-> e[2], by |-> u]
  <2>1. trail'[i] = Append(trail[i], p) /\ \A j \in Item \ {i} : trail'[j] = trail[j]
    BY <1>4 DEF MovesOn, TypeOK
  <2>2. p.by = u
    OBVIOUS
  <2> HIDE DEF p
  <2>3. trail'[i] # << >> /\ trail'[i][Len(trail'[i])] = p
    BY <1>1, <2>1
  <2>4. item'[i].state = "published" => u = "manager"
    BY <1>4 DEF MovesOn
  <2> QED
    BY <1>4, <2>1, <2>2, <2>3, <2>4 DEF MovesOn, PublishedByManager
<1>5. ASSUME NEW s \in Slugs, Closes(s)
      PROVE  PublishedByManager'
  <2> SUFFICES ASSUME NEW i \in Item \ tainted', item'[i].state = "published"
               PROVE  trail'[i] # << >> /\ trail'[i][Len(trail'[i])].by = "manager"
    BY DEF PublishedByManager
  <2>1. item[i].state = "published" /\ i \notin tainted
    BY <1>1, <1>5 DEF Closes, Blot
  <2>2. trail[i] # << >> /\ trail[i][Len(trail[i])].by = "manager"
    BY <2>1 DEF PublishedByManager
  <2>3. Len(trail[i]) \in 1..Len(trail[i])
    BY <1>1, <2>2
  <2> QED
    BY <1>1, <1>5, <2>2, <2>3, Blots
<1> QED
  BY <1>2, <1>3, <1>4, <1>5 DEF StepsOnBoard

\* Every step keeps the boards' invariant.
LEMMA BoardHoldsStep == BoardHolds /\ [Next]_vars => BoardHolds'
  BY EveryStep, PathStep, PublishedStep DEF BoardHolds

\* On every board, objects are where the Proceedings of their trail lead,
\* through states that exist, and posts are on the feed by a manager's
\* decision, whoever lists, moves, edits and deletes at the same time.
THEOREM BoardsHold == Spec => []BoardHolds
  BY BoardHoldsInit, BoardHoldsStep, PTL DEF Spec

\* The trail of an object is a path to it, unless an outdated row was written.
THEOREM TrailsArePaths == Spec => []TrailIsPath
<1>1. BoardHolds => TrailIsPath
  BY DEF BoardHolds
<1> QED
  BY <1>1, BoardsHold, PTL

\* No author gets a post onto the feed.
THEOREM PostsAreApproved == Spec => []PublishedByManager
<1>1. BoardHolds => PublishedByManager
  BY DEF BoardHolds
<1> QED
  BY <1>1, BoardsHold, PTL

(***************************************************************************)
(* Each board implements Board                                             *)
(***************************************************************************)
Place == [i \in Item |-> item[i].state]
Edge(p) == <<p.from, p.to>>
Edged == [i \in Item |-> [k \in DOMAIN trail[i] |-> Edge(trail[i][k])]]

\* The abstract places and trails after a step that writes one object.
LEMMA PlaceOf ==
  ASSUME NEW i \in Item, \A j \in Item \ {i} : item'[j].state = item[j].state
  PROVE  Place' = [Place EXCEPT ![i] = item'[i].state]
  BY DEF Place

\* The step of the abstract board that each kind of step is.
LEMMA StaysIsStutter ==
  ASSUME Stays
  PROVE  UNCHANGED B!boardVars
<1>1. UNCHANGED <<Slugs, Initial, Edges>>
  BY SameBoard DEF Stays
<1> QED
  BY <1>1 DEF Stays, B!boardVars

\* Putting an object somewhere is entering, overwriting or a stutter.
LEMMA PutsIsEntry ==
  ASSUME TypeOK, NEW i \in Item, NEW s \in Slugs, Puts(i, s)
  PROVE  [B!BoardNext]_(B!boardVars)
<1>1. UNCHANGED <<Slugs, Initial, Edges>> /\ UNCHANGED <<app, trail>>
  BY SameBoard DEF Puts
<1>2. Place' = [Place EXCEPT ![i] = s]
  BY PlaceOf DEF Puts
<1>3. UNCHANGED Edged
  BY <1>1 DEF Edged
<1>4. CASE tainted' = tainted \cup {i}
  BY <1>1, <1>2, <1>3, <1>4 DEF B!Overwrite, B!BoardNext, Place, Edged, Edge
<1>5. CASE UNCHANGED tainted /\ item[i].state = s
  <2>1. Place' = Place
    BY <1>2, <1>5 DEF Place
  <2> QED
    BY <1>1, <1>3, <1>5, <2>1 DEF B!boardVars, Place, Edged, Edge
<1>6. CASE UNCHANGED tainted /\ item[i].state = NoState /\ s = Initial
  BY <1>1, <1>2, <1>3, <1>6 DEF B!Enter, B!BoardNext, Place, Edged, Edge
<1> QED
  BY <1>4, <1>5, <1>6 DEF Puts

\* A Proceeding is a move along its edge, raced or not.
LEMMA MovesOnIsMove ==
  ASSUME TypeOK, NEW i \in Item, NEW e \in Edges, NEW u \in People, MovesOn(i, e, u)
  PROVE  B!BoardNext
<1>1. UNCHANGED <<Slugs, Initial, Edges>> /\ Edges \subseteq Slugs \X Slugs
  BY SameBoard, BoardTable DEF MovesOn, TypeOK
<1>2. Place' = [Place EXCEPT ![i] = e[2]]
  BY PlaceOf DEF MovesOn
<1>3. Edged' = [Edged EXCEPT ![i] = Append(@, e)]
  <2> DEFINE p == [from |-> e[1], to |-> e[2], by |-> u]
  <2> DEFINE q == trail[i]
  <2>1. /\ q \in Seq(Proceeding) /\ trail'[i] = Append(q, p)
        /\ \A j \in Item \ {i} : trail'[j] = trail[j]
    BY DEF TypeOK, MovesOn
  <2>2. Edge(p) = e
    BY <1>1 DEF Edge
  <2>3. /\ Len(q) \in Nat /\ DOMAIN q = 1..Len(q)
    BY <2>1
  <2> HIDE DEF p, q
  <2>4. /\ DOMAIN Append(q, p) = 1..(Len(q) + 1) /\ Append(q, p)[Len(q) + 1] = p
        /\ \A k \in 1..Len(q) : Append(q, p)[k] = q[k]
    BY <2>1, <2>3
  <2> DEFINE old == [k \in DOMAIN q |-> Edge(q[k])]
  <2>5. old \in Seq({Edge(x) : x \in Proceeding}) /\ Len(old) = Len(q)
    <3>1. \A k \in 1..Len(q) : q[k] \in Proceeding
      BY <2>1, <2>3
    <3>2. old \in [1..Len(q) -> {Edge(x) : x \in Proceeding}]
      BY <2>3, <3>1
    <3> HIDE DEF old
    <3> QED
      BY <2>3, <3>2
  <2>6. [k \in DOMAIN Append(q, p) |-> Edge(Append(q, p)[k])] = Append(old, e)
    <3>1. /\ DOMAIN Append(old, e) = 1..(Len(q) + 1) /\ Append(old, e)[Len(q) + 1] = e
          /\ \A k \in 1..Len(q) : Append(old, e)[k] = old[k]
      <4> HIDE DEF old
      <4> QED
        BY <2>3, <2>5
    <3>2. \A k \in 1..Len(q) : old[k] = Edge(q[k])
      BY <2>3
    <3>3. Append(old, e) = [k \in 1..(Len(q) + 1) |-> Append(old, e)[k]]
      <4> DEFINE S == {Edge(x) : x \in Proceeding} \cup {e}
      <4> DEFINE long == Append(old, e)
      <4>1. old \in Seq(S) /\ e \in S
        BY <2>5
      <4> HIDE DEF old, S
      <4>2. long \in Seq(S) /\ Len(long) = Len(q) + 1
        BY <2>3, <2>5, <4>1
      <4>3. ASSUME NEW z \in Seq(S) PROVE z = [k \in 1..Len(z) |-> z[k]]
        OBVIOUS
      <4> HIDE DEF long
      <4>4. long = [k \in 1..(Len(q) + 1) |-> long[k]]
        BY <4>2, <4>3
      <4> QED
        BY <4>4 DEF long
    <3> HIDE DEF old
    <3>4. \A k \in 1..(Len(q) + 1) : Append(old, e)[k] = Edge(Append(q, p)[k])
      BY <2>2, <2>3, <2>4, <3>1, <3>2
    <3> QED
      BY <2>4, <3>3, <3>4
  <2>7. Edged'[i] = Append(Edged[i], e) /\ \A j \in Item \ {i} : Edged'[j] = Edged[j]
    BY <2>1, <2>6 DEF Edged, q
  <2> QED
    BY <2>7 DEF Edged
<1>4. CASE tainted' = tainted \cup {i}
  BY <1>1, <1>2, <1>3, <1>4 DEF B!MoveRaced, B!Moves, B!BoardNext, Place, Edged, Edge
<1>5. CASE UNCHANGED tainted /\ e[1] = IF item[i].state = NoState THEN Initial ELSE item[i].state
  BY <1>1, <1>2, <1>3, <1>5 DEF B!Move, B!Moves, B!BoardNext, Place, Edged, Edge
<1> QED
  BY <1>4, <1>5 DEF MovesOn

\* Deleting a state closes its column.
LEMMA ClosesIsClose ==
  ASSUME TypeOK, TypeOK', NEW s \in Slugs, Closes(s)
  PROVE  B!BoardNext
<1>1. UNCHANGED <<Slugs, Initial, Edges>> /\ UNCHANGED tainted
  BY SameBoard DEF Closes
<1>2. Place' = [i \in Item |-> Blot(s, Place[i])]
  BY DEF Closes, Place
<1>3. Edged' = [i \in Item |-> [k \in DOMAIN Edged[i] |->
                                <<Blot(s, Edged[i][k][1]), Blot(s, Edged[i][k][2])>>]]
  <2>1. ASSUME NEW i \in Item
        PROVE  Edged'[i] = [k \in DOMAIN Edged[i] |->
                             <<Blot(s, Edged[i][k][1]), Blot(s, Edged[i][k][2])>>]
    <3>1. /\ DOMAIN trail'[i] = DOMAIN trail[i]
          /\ \A k \in DOMAIN trail[i] : Edge(trail'[i][k]) =
               <<Blot(s, trail[i][k].from), Blot(s, trail[i][k].to)>>
      <4>1. DOMAIN trail[i] = 1..Len(trail[i])
        BY DEF TypeOK
      <4> QED
        BY <4>1, Blots DEF Edge
    <3>2. \A k \in DOMAIN trail[i] : /\ Edged[i][k][1] = trail[i][k].from
                                     /\ Edged[i][k][2] = trail[i][k].to
      BY DEF Edged, Edge
    <3>3. DOMAIN Edged[i] = DOMAIN trail[i]
      BY DEF Edged
    <3>4. Edged'[i] = [k \in DOMAIN trail'[i] |-> Edge(trail'[i][k])]
      BY DEF Edged
    <3> QED
      BY <3>1, <3>2, <3>3, <3>4
  <2>2. Edged' = [i \in Item |-> Edged'[i]]
    BY DEF Edged
  <2> QED
    BY <2>1, <2>2
<1>4. B!Close(s)
  BY <1>1, <1>2, <1>3 DEF B!Close, Blot, Place, Edged, Edge
<1> QED
  BY <1>1, <1>4 DEF B!BoardNext

\* Every step of the code is a step of the abstract board or a stutter.
LEMMA BoardStep == BoardHolds /\ BoardHolds' /\ [Next]_vars => [B!BoardNext]_(B!boardVars)
<1> SUFFICES ASSUME BoardHolds, BoardHolds', [Next]_vars
             PROVE  [B!BoardNext]_(B!boardVars)
  OBVIOUS
<1>1. StepsOnBoard /\ TypeOK /\ TypeOK'
  BY EveryStep DEF BoardHolds
<1> QED
  BY <1>1, StaysIsStutter, PutsIsEntry, MovesOnIsMove, ClosesIsClose DEF StepsOnBoard

\* Each of the four apps keeps the promise of the one abstract board: objects
\* enter at the first column and move along its edges, closing a column sends
\* them back, and only those that two requests wrote at once are set apart.
THEOREM EveryBoardIsABoard == Spec => ImplementsBoard
<1>1. Init => B!BoardInit
  BY DEF Init, B!BoardInit, NoItem
<1> QED
  BY <1>1, BoardStep, BoardsHold, PTL DEF Spec, ImplementsBoard, B!BoardSpec
=============================================================================
