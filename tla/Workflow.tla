------------------------------ MODULE Workflow ------------------------------
(***************************************************************************)
(* The workflow boards of todos, follow-ups, meetings and social posts:    *)
(* packages/workflow and the workflow and view modules of the four apps.   *)
(*                                                                         *)
(* A request loads an object in one statement and writes it in a later     *)
(* one; the state rows themselves can be deleted by an administrator and   *)
(* are made again, under new keys, by the next request to a board.  All    *)
(* four boards run the same code over their own table, so the table a      *)
(* behaviour is about is chosen in the initial state.                      *)
(***************************************************************************)
EXTENDS Integers, Sequences, FiniteSets

CONSTANTS
  Request,      \* the server's request threads
  Item,         \* rows of the board's model that may come to exist
  App,          \* the boards looked at: "todos", "followups", ...
  NoState,      \* a NULL workflow_state
  Gone,         \* the key of a state row that was deleted
  MaxTrail,     \* bound: proceedings of one object
  MaxDeletions  \* bound: state rows deleted

VARIABLES
  app,        \* the board this behaviour is about
  item,       \* Item -> status (the row's life), state, author
  present,    \* slugs that have a State row
  trail,      \* Item -> its Proceeding rows, oldest first
  req,        \* what each request thread is doing
  deletions,  \* state rows deleted so far
  tainted     \* items whose state was written from an outdated row

vars == <<app, item, present, trail, req, deletions, tainted>>

\* The states and transitions each board seeds, initial state first.
TodoBoard ==
  [slugs |-> <<"open", "inprogress", "done", "cancelled">>,
   edges |-> {<<"open", "inprogress">>, <<"open", "done">>, <<"inprogress", "done">>,
              <<"inprogress", "open">>, <<"done", "cancelled">>, <<"cancelled", "open">>}]

FollowUpBoard ==
  [slugs |-> <<"planning", "inprogress", "completed", "cancelled">>,
   edges |-> {<<"planning", "inprogress">>, <<"planning", "completed">>,
              <<"inprogress", "completed">>, <<"inprogress", "planning">>,
              <<"completed", "inprogress">>, <<"completed", "cancelled">>,
              <<"cancelled", "planning">>}]

MeetingBoard ==
  [FollowUpBoard EXCEPT !.edges = @ \cup {<<"completed", "planning">>}]

PostBoard ==
  [slugs |-> <<"draft", "pending_approval", "approved", "rejected", "published">>,
   edges |-> {<<"draft", "pending_approval">>, <<"rejected", "draft">>,
              <<"draft", "published">>, <<"pending_approval", "approved">>,
              <<"pending_approval", "rejected">>, <<"pending_approval", "published">>,
              <<"approved", "published">>, <<"published", "draft">>}]

Table == [todos |-> TodoBoard, followups |-> FollowUpBoard, meetings |-> MeetingBoard,
          social |-> PostBoard]

\* Neither a NULL nor a dangling key is the key of a state.
ASSUME WorkflowAssumption ==
  /\ App \subseteq DOMAIN Table
  /\ NoState # Gone
  /\ \A a \in DOMAIN Table : \A k \in DOMAIN Table[a].slugs : Table[a].slugs[k] \notin {NoState, Gone}
  /\ MaxTrail \in Nat /\ MaxDeletions \in Nat

Slugs == {Table[app].slugs[k] : k \in DOMAIN Table[app].slugs}
Initial == Table[app].slugs[1]
Edges == Table[app].edges

\* Posts are written and approved; the members of a board are all alike.
People == IF app = "social" THEN {"author", "manager"} ELSE {"member"}

NoItem == [status |-> "NONE", state |-> NoState, author |-> "member"]
Live(i) == item[i].status = "LIVE"

At(w, pc) == req[w].pc = pc
Becomes(w, r) == req' = [req EXCEPT ![w] = r]
Done(w) == Becomes(w, [pc |-> "Idle"])

\* Seeded fault: nothing is asked of who publishes.
MayMoveUnasked(u, author, from, to) ==
  to = "pending_approval" => u = author

\* get_allowed_destination_slugs: who may move a post; a board's members may
\* take every transition.
MayMove(u, author, from, to) ==
  app = "social" =>
    /\ to \in {"published", "approved", "rejected"} => u = "manager"
    /\ (to = "draft" /\ from = "rejected") \/ to = "pending_approval" => u = author

\* What a request sees of the state in its copy of a row when s is deleted.
Forget(s, r) ==
  IF r.pc # "Idle" /\ r.state = s THEN [r EXCEPT !.state = Gone] ELSE r

Taints(i, state) ==
  tainted' = IF item[i].state # state THEN tainted \cup {i} ELSE tainted
----------------------------------------------------------------------------
Init ==
  /\ app \in App
  /\ item = [i \in Item |-> NoItem]
  /\ present = {}
  /\ trail = [i \in Item |-> << >>]
  /\ req = [w \in Request |-> [pc |-> "Idle"]]
  /\ deletions = 0 /\ tainted = {}

\* perform_create, in the transaction of create: the states are seeded, the
\* object is saved and given its first state.
Create(i, u) ==
  /\ app # "social" /\ item[i] = NoItem
  /\ present' = Slugs
  /\ item' = [item EXCEPT ![i] = [status |-> "LIVE", state |-> Initial, author |-> u]]
  /\ UNCHANGED <<app, trail, req, deletions, tainted>>

\* A new post is moved on at once: a manager publishes it, others submit it.
CreatePost(i, u) ==
  LET to == IF u = "manager" THEN "published" ELSE "pending_approval"
  IN /\ app = "social" /\ item[i] = NoItem
     /\ present' = Slugs
     /\ item' = [item EXCEPT ![i] = [status |-> "LIVE", state |-> to, author |-> u]]
     /\ trail' = [trail EXCEPT ![i] = <<[from |-> Initial, to |-> to, by |-> u]>>]
     /\ UNCHANGED <<app, req, deletions, tainted>>

Loads(w, i, op, u) ==
  /\ At(w, "Idle") /\ Live(i)
  /\ Becomes(w, [pc |-> op, item |-> i, state |-> item[i].state, by |-> u])
  /\ UNCHANGED <<app, item, trail, deletions, tainted>>

\* transition: the states are seeded, and get_object loads the row.
TransitionLoad(w, i, u) == Loads(w, i, "move", u) /\ present' = Slugs

\* list and board: the states are seeded, and the queryset loads the rows.
ListLoad(w, i, u) == Loads(w, i, "list", u) /\ present' = Slugs

\* update: the row is loaded; perform_update will seed the states.
EditLoad(w, i, u) == Loads(w, i, "edit", u) /\ UNCHANGED present

\* Seeded fault: a list resets every object of a closed column, loaded or not.
ListAssignAll(w) ==
  /\ At(w, "list") /\ req[w].state \in {NoState, Gone} /\ Initial \in present
  /\ item' = [item EXCEPT ![req[w].item].state = Initial]
  /\ (IF req[w].state = Gone THEN UNCHANGED tainted ELSE Taints(req[w].item, NoState))
  /\ Done(w)
  /\ UNCHANGED <<app, present, trail, deletions>>

\* assign_initial_state in list and board: an object that had no state when
\* it was loaded is given the first one, whatever it has by now.
ListAssign(w) ==
  /\ At(w, "list") /\ req[w].state = NoState /\ Initial \in present
  /\ item' = [item EXCEPT ![req[w].item].state = Initial]
  /\ Taints(req[w].item, NoState)
  /\ Done(w)
  /\ UNCHANGED <<app, present, trail, deletions>>

\* get_allowed_destination_slugs assigns the first state in a commit of its own.
PermitAssign(w) ==
  /\ At(w, "move") /\ app = "social" /\ req[w].state = NoState
  /\ present' = Slugs
  /\ item' = [item EXCEPT ![req[w].item].state = Initial]
  /\ Taints(req[w].item, NoState)
  /\ Becomes(w, [req[w] EXCEPT !.state = Initial])
  /\ UNCHANGED <<app, trail, deletions>>

\* The state proceed starts from: assign_initial_state comes first.
Current(w) == IF req[w].state = NoState THEN Initial ELSE req[w].state

\* Seeded fault: any state may be the next.
ProceedAnywhere(w, to) ==
  LET i == req[w].item
  IN /\ At(w, "move") /\ Len(trail[i]) < MaxTrail
     /\ to \in Slugs \ {Current(w)} /\ Current(w) # Gone
     /\ MayMove(req[w].by, item[i].author, Current(w), to)
     /\ present' = Slugs
     /\ item' = [item EXCEPT ![i].state = to]
     /\ trail' = [trail EXCEPT ![i] = Append(@, [from |-> Current(w), to |-> to, by |-> req[w].by])]
     /\ Taints(i, req[w].state)
     /\ Done(w)
     /\ UNCHANGED <<app, deletions>>

\* Seeded fault: the proceeding keeps the state the object comes to, twice.
ProceedForgets(w, to) ==
  LET i == req[w].item
  IN /\ At(w, "move") /\ Len(trail[i]) < MaxTrail
     /\ <<Current(w), to>> \in Edges
     /\ MayMove(req[w].by, item[i].author, Current(w), to)
     /\ present' = Slugs
     /\ item' = [item EXCEPT ![i].state = to]
     /\ trail' = [trail EXCEPT ![i] = Append(@, [from |-> to, to |-> to, by |-> req[w].by])]
     /\ Taints(i, req[w].state)
     /\ Done(w)
     /\ UNCHANGED <<app, deletions>>

\* proceed_...: one transaction that seeds the states, tests the transition
\* from the state that was loaded, writes the state and its Proceeding.  With
\* a previous state that is gone the Proceeding cannot be committed.
Proceed(w, to) ==
  LET i == req[w].item
  IN /\ At(w, "move") /\ Len(trail[i]) < MaxTrail
     /\ <<Current(w), to>> \in Edges
     /\ MayMove(req[w].by, item[i].author, Current(w), to)
     /\ present' = Slugs
     /\ item' = [item EXCEPT ![i].state = to]
     /\ trail' = [trail EXCEPT ![i] = Append(@, [from |-> Current(w), to |-> to, by |-> req[w].by])]
     /\ Taints(i, req[w].state)
     /\ Done(w)
     /\ UNCHANGED <<app, deletions>>

\* perform_update: every column is saved as it was loaded, the state among
\* them; one that has none is then given the first.
EditSave(w) ==
  LET i == req[w].item
  IN /\ At(w, "edit") /\ req[w].state # Gone
     /\ present' = Slugs
     /\ item' = [item EXCEPT ![i].state = Current(w), ![i].status = "LIVE"]
     /\ Taints(i, req[w].state)
     /\ Done(w)
     /\ UNCHANGED <<app, trail, deletions>>

\* The request is refused, finds nothing to write, or its worker dies.
End(w) ==
  /\ ~ At(w, "Idle") /\ Done(w)
  /\ UNCHANGED <<app, item, present, trail, deletions, tainted>>

\* destroy: the row is soft-deleted; its state stays.
Delete(i) ==
  /\ Live(i)
  /\ item' = [item EXCEPT ![i].status = "DELETED"]
  /\ UNCHANGED <<app, present, trail, req, deletions, tainted>>

\* Seeded fault: the row goes, and the objects keep its key.
DeleteStateDangling(s) ==
  /\ s \in present /\ deletions < MaxDeletions
  /\ deletions' = deletions + 1
  /\ present' = present \ {s}
  /\ trail' = [i \in Item |-> [k \in DOMAIN trail[i] |->
       [trail[i][k] EXCEPT !.from = IF @ = s THEN NoState ELSE @,
                           !.to = IF @ = s THEN NoState ELSE @]]]
  /\ req' = [w \in Request |-> Forget(s, req[w])]
  /\ UNCHANGED <<app, item, tainted>>

\* WorkflowStateViewSet.destroy: the key is cleared in every object and every
\* Proceeding that holds it, and the row is gone.
DeleteState(s) ==
  /\ s \in present /\ deletions < MaxDeletions
  /\ deletions' = deletions + 1
  /\ present' = present \ {s}
  /\ item' = [i \in Item |-> [item[i] EXCEPT !.state = IF @ = s THEN NoState ELSE @]]
  /\ trail' = [i \in Item |-> [k \in DOMAIN trail[i] |->
       [trail[i][k] EXCEPT !.from = IF @ = s THEN NoState ELSE @,
                           !.to = IF @ = s THEN NoState ELSE @]]]
  /\ req' = [w \in Request |-> Forget(s, req[w])]
  /\ UNCHANGED <<app, tainted>>

Next ==
  \/ \E i \in Item, u \in People : Create(i, u) \/ CreatePost(i, u)
  \/ \E i \in Item : Delete(i)
  \/ \E w \in Request, i \in Item, u \in People :
       TransitionLoad(w, i, u) \/ ListLoad(w, i, u) \/ EditLoad(w, i, u)
  \/ \E w \in Request : ListAssign(w) \/ PermitAssign(w) \/ EditSave(w) \/ End(w)
  \/ \E w \in Request, to \in Slugs : Proceed(w, to)
  \/ \E s \in Slugs : DeleteState(s)

Spec == Init /\ [][Next]_vars
----------------------------------------------------------------------------
\* The keys a row may hold, a Proceeding, and what a request has loaded.
StateKey == present \cup {NoState}
Proceeding == [from : StateKey, to : StateKey, by : People]
LoadedReq == [pc : {"move", "list", "edit"}, item : Item,
              state : Slugs \cup {NoState, Gone}, by : People]

\* Every object, proceeding and request holds a state of its own board.
TypeOK ==
  /\ app \in App
  /\ item \in [Item -> [status : {"NONE", "LIVE", "DELETED"}, state : StateKey,
                        author : People \cup {"member"}]]
  /\ present \subseteq Slugs
  /\ trail \in [Item -> Seq(Proceeding)]
  /\ req \in [Request -> [pc : {"Idle"}] \cup LoadedReq]
  /\ deletions \in 0..MaxDeletions /\ tainted \subseteq Item

\* Requests work on rows that were saved; the others have nothing written.
RowsAreThere ==
  /\ \A i \in Item : item[i].status = "NONE" => item[i] = NoItem /\ trail[i] = << >>
  /\ \A w \in Request : ~ At(w, "Idle") => item[req[w].item].status # "NONE"

\* Where an object may be after the first k Proceedings of its trail: where
\* the last one led, or at the first state anew when a deletion took the object
\* off the board.
IsAt(path, k, s) ==
  IF k = 0 THEN s = Initial
  ELSE s = path[k].to \/ (path[k].to = NoState /\ s = Initial)

IsPathTo(path, s) ==
  /\ \A k \in 1..Len(path) : path[k].from = NoState \/ IsAt(path, k - 1, path[k].from)
  /\ IF s = NoState THEN path # << >> => path[Len(path)].to = NoState
     ELSE IsAt(path, Len(path), s)

\* The Proceedings of an object, written by requests that never see each
\* other, form one path that ends where the object is; a deletion blots a
\* state out of the object and of its trail alike.  Only objects written from
\* an outdated row are excepted.
TrailIsPath == \A i \in Item \ tainted : IsPathTo(trail[i], item[i].state)

\* A post is on the feed only by a manager's decision, whatever its author
\* sent or edited in between, unless an outdated row put it back there.
PublishedByManager ==
  \A i \in Item \ tainted :
    item[i].state = "published" => trail[i] # << >> /\ trail[i][Len(trail[i])].by = "manager"

\* The boards' invariant: an object is where its Proceedings lead, all of
\* them through states that exist, and on the feed only by a manager.
BoardHolds == TypeOK /\ RowsAreThere /\ TrailIsPath /\ PublishedByManager

\* The board below is what every app promises of its objects.
B == INSTANCE Board WITH
  Object <- Item, columns <- Slugs, Nowhere <- NoState, first <- Initial, edges <- Edges,
  place <- [i \in Item |-> item[i].state],
  trail <- [i \in Item |-> [k \in DOMAIN trail[i] |-> <<trail[i][k].from, trail[i][k].to>>]],
  raced <- tainted

\* Every step of the code is a step of Board: lists, edits and refused
\* requests move nothing but what they overwrite.
ImplementsBoard == B!BoardSpec
=============================================================================
