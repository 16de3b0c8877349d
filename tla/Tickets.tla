------------------------------ MODULE Tickets ------------------------------
(***************************************************************************)
(* Tickets, their parents, assignees and workflow (apps/tickets, and       *)
(* TransitionService of packages/workflow, which moves them).              *)
(*                                                                         *)
(* A transition looks at the ticket and at its children before the         *)
(* transaction that moves it, and writes the state column alone.  A PATCH  *)
(* writes every column of the row it loaded.  The states are cloned once,  *)
(* so a state row that is deleted stays away and leaves its transitions    *)
(* without a source, which a ticket without a state can take.  A ticket is *)
(* reported by the manager of its project, or by whoever opened it where   *)
(* there is none; afterwards the reporter and the project are columns like *)
(* others, and the project may pass to another manager.                    *)
(* TicketHistory rows are written and shown, never decided on: left out.   *)
(***************************************************************************)
EXTENDS Integers, Sequences, FiniteSets

CONSTANTS
  Request,      \* the server's request threads
  Ticket,       \* rows that may come to exist
  Person,
  Assignable,   \* people tickets are assigned to
  Reportable,   \* bound: what a ticket's reporter is set to, None included
  Project,
  FirstLead,    \* Project -> who manages it to begin with, or None
  Hands,        \* bound: people a project passes to
  ViewAll,      \* people who may see and move every ticket
  Super,        \* those of them with is_superuser
  State,        \* slugs of the cloned states, InitialState the first
  InitialState,
  Final,        \* states with is_final
  Closing,      \* slugs that speak of done, closed or resolved
  Transitions,  \* the cloned transitions, pairs of slugs
  None,         \* no parent, nobody, no state
  Gone,         \* the key of a state row that was deleted
  MaxTrail,     \* bound: proceedings of one ticket
  MaxDeletions  \* bound: state rows deleted

VARIABLES
  ticket,   \* Ticket -> status (the row's life), state, parent, assignee,
            \*   reporter, project
  lead,     \* Project -> its manager, or None
  states,   \* slugs that have a State row
  edges,    \* Transition rows, pairs of source (or None) and destination
  trail,    \* Ticket -> its Proceeding rows: from, to
  windows,  \* Ticket -> who its open assignee windows are for
  req,      \* what each request thread is doing
  tainted   \* tickets written from an outdated row, or closed on outdated children

vars == <<ticket, lead, states, edges, trail, windows, req, tainted>>

NoTicket == [status |-> "NONE", state |-> None, parent |-> None, assignee |-> None,
             reporter |-> None, project |-> None]
Live(t) == ticket[t].status = "LIVE"
Children(t) == {c \in Ticket : Live(c) /\ ticket[c].parent = t}

At(w, pc) == req[w].pc = pc
Becomes(w, r) == req' = [req EXCEPT ![w] = r]
Done(w) == Becomes(w, [pc |-> "Idle"])

\* The tickets met on the way up from t.
RECURSIVE Above(_, _)
Above(t, seen) ==
  IF t = None \/ t \in seen THEN seen ELSE Above(ticket[t].parent, seen \cup {t})

\* The assignee, the reporter and the manager of the project.
Involved(u, row) == u \in {row.assignee, row.reporter, lead[row.project]}


\* Who is involved may move a ticket; those with view_all too, but of them only
\* a superuser to a state whose name says that it is finished.
MayMove(u, row, to) ==
  /\ u \in ViewAll \/ Involved(u, row)
  /\ to \in Closing => u \in Super \/ Involved(u, row)

OpenChildren(t) ==
  {c \in Children(t) : ticket[c].state # None /\ ticket[c].state \notin Final}

Forget(s, r) ==
  IF r.pc \in {"Move", "Patch"} /\ r.row.state = s THEN [r EXCEPT !.row.state = Gone] ELSE r

Taints(stale, t) == tainted' = IF stale THEN tainted \cup {t} ELSE tainted
----------------------------------------------------------------------------
Init ==
  /\ ticket = [t \in Ticket |-> NoTicket] /\ lead = FirstLead
  /\ states = {} /\ edges = {}
  /\ trail = [t \in Ticket |-> << >>]
  /\ windows = [t \in Ticket |-> << >>]
  /\ req = [w \in Request |-> [pc |-> "Idle"]]
  /\ tainted = {}

\* _ensure_ticket_workflow_states: cloned while there is no state at all.
EnsureStates ==
  IF states = {} THEN states' = State /\ edges' = Transitions
  ELSE UNCHANGED <<lead, states, edges>>

\* perform_create: states, ticket, first state and first assignee window in
\* the transaction of create.
Create(t, p, u, j, r) ==
  /\ ticket[t] = NoTicket
  /\ r = lead[j] \/ (lead[j] = None /\ r \in Reportable \ {None})
  /\ p # None => ticket[p].status # "NONE"
  /\ EnsureStates
  /\ ticket' = [ticket EXCEPT ![t] =
       [status |-> "LIVE", parent |-> p, assignee |-> u, reporter |-> r, project |-> j,
        state |-> IF InitialState \in states' THEN InitialState ELSE None]]
  /\ windows' = IF u = None THEN windows
                ELSE [windows EXCEPT ![t] = <<u>>]
  /\ UNCHANGED <<lead, trail, req, tainted>>

\* Seeded fault: the children of a ticket are not looked at.
TransitionLoadBlind(w, t, u, to) ==
  /\ At(w, "Idle") /\ Live(t) /\ to \in states
  /\ MayMove(u, ticket[t], to)
  /\ Becomes(w, [pc |-> "Move", ticket |-> t, row |-> ticket[t], by |-> u, to |-> to,
                 lead |-> lead[ticket[t].project], children |-> Children(t)])
  /\ UNCHANGED <<ticket, lead, states, edges, trail, windows, tainted>>

\* transition, up to ticket.proceed: the row, who may move it, and the
\* children that a final state would leave open.
TransitionLoad(w, t, u, to) ==
  /\ At(w, "Idle") /\ Live(t) /\ to \in states
  /\ MayMove(u, ticket[t], to)
  /\ to \in Final => OpenChildren(t) = {}
  /\ Becomes(w, [pc |-> "Move", ticket |-> t, row |-> ticket[t], by |-> u, to |-> to,
                 lead |-> lead[ticket[t].project], children |-> OpenChildren(t)])
  /\ UNCHANGED <<ticket, lead, states, edges, trail, windows, tainted>>

\* The state, or for a final state the children, are not what was looked at.
StaleMove(w) ==
  LET t == req[w].ticket
  IN \/ ticket[t].state # req[w].row.state
     \/ req[w].to \in Final /\ OpenChildren(t) # req[w].children

\* Seeded fault: the proceeding starts from the state it leads to.
ProceedForgets(w) ==
  LET t == req[w].ticket
      to == req[w].to
  IN /\ At(w, "Move") /\ Len(trail[t]) < MaxTrail
     /\ <<req[w].row.state, to>> \in edges
     /\ ticket' = [ticket EXCEPT ![t].state = to]
     /\ trail' = [trail EXCEPT ![t] = Append(@, [from |-> to, to |-> to])]
     /\ Taints(StaleMove(w), t)
     /\ Done(w)
     /\ UNCHANGED <<lead, states, edges, windows>>

\* TransitionService.proceed: one transaction that tests the transition from
\* the state that was loaded, and writes the state and the Proceeding.
Proceed(w) ==
  LET t == req[w].ticket
      from == req[w].row.state
      to == req[w].to
  IN /\ At(w, "Move") /\ Len(trail[t]) < MaxTrail
     /\ <<from, to>> \in edges
     /\ ticket' = [ticket EXCEPT ![t].state = to]
     /\ trail' = [trail EXCEPT ![t] = Append(@, [from |-> from, to |-> to])]
     /\ Taints(StaleMove(w), t)
     /\ Done(w)
     /\ UNCHANGED <<lead, states, edges, windows>>

\* Seeded fault: only the parent itself is compared with the ticket.
NotBelowShallow(t, p) == p # t

\* validate: the ticket is not met on the way up from its new parent, which
\* ends at the top; a loop up there would keep the request climbing.
NotBelow(t, p) ==
  p = None \/ (t \notin Above(p, {}) /\ \E x \in Above(p, {}) : ticket[x].parent = None)

\* What a PATCH may ask for, one column at a time.
Edits(row) ==
  {[row EXCEPT !.parent = p] : p \in Ticket \cup {None}}
    \cup {[row EXCEPT !.assignee = u] : u \in Assignable \cup {None}}
    \cup {[row EXCEPT !.reporter = u] : u \in Reportable}
    \cup {[row EXCEPT !.project = j] : j \in Project}

\* update, up to the save: another parent, assignee, reporter or project, by
\* anybody who sees the ticket.
PatchLoad(w, t, row) ==
  /\ At(w, "Idle") /\ Live(t) /\ row \in Edits(ticket[t])
  /\ row.parent \notin {None, ticket[t].parent} =>
       NotBelow(t, row.parent) /\ ticket[row.parent].status # "NONE"
  /\ Becomes(w, [pc |-> "Patch", ticket |-> t, row |-> ticket[t], new |-> row,
                 above |-> [x \in Ticket |-> ticket[x].parent]])
  /\ UNCHANGED <<ticket, lead, states, edges, trail, windows, tainted>>

\* Seeded fault: the window of the assignee who leaves stays open.
WindowsKept(t, old, new) ==
  IF old = new \/ new = None THEN windows[t] ELSE Append(windows[t], new)

\* record_assignee_change: every open window is closed, and one opened.
Windows(t, old, new) ==
  IF old = new THEN windows[t] ELSE IF new = None THEN << >> ELSE <<new>>

\* perform_update: every column is saved, those of the row as it was loaded
\* and the new ones; the windows follow in the same transaction.
PatchSave(w) ==
  LET t == req[w].ticket
      row == req[w].row
  IN /\ At(w, "Patch") /\ row.state # Gone
     /\ ticket' = [ticket EXCEPT ![t] = [req[w].new EXCEPT !.state = row.state]]
     /\ windows' = [windows EXCEPT ![t] = Windows(t, row.assignee, req[w].new.assignee)]
     /\ Taints(ticket[t] # row \/ req[w].above # [x \in Ticket |-> ticket[x].parent], t)
     /\ Done(w)
     /\ UNCHANGED <<lead, states, edges, trail>>

\* The request is refused, or its worker dies.
End(w) ==
  /\ ~ At(w, "Idle") /\ Done(w)
  /\ UNCHANGED <<ticket, lead, states, edges, trail, windows, tainted>>

\* destroy: a soft delete; children keep their parent.
Delete(t) ==
  /\ Live(t)
  /\ ticket' = [ticket EXCEPT ![t].status = "DELETED"]
  /\ UNCHANGED <<lead, states, edges, trail, windows, req, tainted>>

\* Seeded fault: transitions into the state stay, too.
LeftEdgesKept(s) == {<<IF e[1] = s THEN None ELSE e[1], e[2]>> : e \in edges}

\* Seeded fault: transitions out of the state go with it.
LeftEdgesNone(s) == {e \in edges : s \notin {e[1], e[2]}}

\* Transition.source_state is SET_NULL, destination_state is CASCADE.
LeftEdges(s) == {<<IF e[1] = s THEN None ELSE e[1], e[2]>> : e \in {x \in edges : x[2] # s}}

\* WorkflowStateViewSet.destroy.
DeleteState(s) ==
  /\ s \in states /\ Cardinality(State \ states) < MaxDeletions
  /\ states' = states \ {s}
  /\ edges' = LeftEdges(s)
  /\ ticket' = [t \in Ticket |-> [ticket[t] EXCEPT !.state = IF @ = s THEN None ELSE @]]
  /\ trail' = [t \in Ticket |-> [k \in DOMAIN trail[t] |->
       [trail[t][k] EXCEPT !.from = IF @ = s THEN None ELSE @, !.to = IF @ = s THEN None ELSE @]]]
  /\ req' = [w \in Request |-> Forget(s, req[w])]
  /\ UNCHANGED <<lead, windows, tainted>>

\* The project passes to another manager, or to none.
HandOver(j, u) ==
  /\ lead' = [lead EXCEPT ![j] = u]
  /\ UNCHANGED <<ticket, states, edges, trail, windows, req, tainted>>

Next ==
  \/ \E t \in Ticket, p \in Ticket \cup {None}, u \in Assignable \cup {None},
        j \in Project, r \in Person : Create(t, p, u, j, r)
  \/ \E w \in Request, t \in Ticket, u \in Person, to \in State : TransitionLoad(w, t, u, to)
  \/ \E w \in Request, t \in Ticket : \E row \in Edits(ticket[t]) : PatchLoad(w, t, row)
  \/ \E w \in Request : Proceed(w) \/ PatchSave(w) \/ End(w)
  \/ \E t \in Ticket : Delete(t)
  \/ \E s \in State : DeleteState(s)
  \/ \E j \in Project, u \in Hands : HandOver(j, u)

Spec == Init /\ [][Next]_vars
----------------------------------------------------------------------------
\* Rows and requests are well-formed, and tickets hold states that exist.
TypeOK ==
  /\ ticket \in [Ticket -> [status : {"NONE", "LIVE", "DELETED"}, state : states \cup {None},
                            parent : Ticket \cup {None}, assignee : Person \cup {None},
                            reporter : Person \cup {None}, project : Project \cup {None}]]
  /\ lead \in [Project -> Person \cup {None}]
  /\ states \subseteq State
  /\ edges \subseteq (states \cup {None}) \X states
  /\ \A t \in Ticket : \A k \in DOMAIN trail[t] :
       trail[t][k] \in [from : states \cup {None}, to : states \cup {None}]
  /\ \A t \in Ticket : \A k \in DOMAIN windows[t] : windows[t][k] \in Person
  /\ \A w \in Request : req[w].pc \in {"Idle", "Move", "Patch"}
  /\ tainted \subseteq Ticket

\* No ticket is its own ancestor, which would hang the serializer's climb to
\* the top: however parents are changed one after the other, a loop needs two
\* requests that change them at once.
NoLoop ==
  \A t \in Ticket :
    t \in Above(ticket[t].parent, {}) => Above(t, {}) \cap tainted # {}

\* One assignee window of a ticket is open, the one performance is put down
\* to: its assignee's, or none while nobody is assigned.
WindowIsAssignee ==
  \A t \in Ticket :
    /\ Len(windows[t]) <= 1
    /\ t \notin tainted =>
         windows[t] = IF ticket[t].assignee = None THEN << >> ELSE <<ticket[t].assignee>>

\* The Proceedings of a ticket form one path from the first state to the one
\* it is in; with no state it may go on from wherever a deletion left it.
TrailIsPath ==
  \A t \in Ticket :
    LET n == Len(trail[t])
        Last(k) == IF k = 0 THEN {InitialState, None} ELSE {trail[t][k].to, None}
    IN ticket[t].status # "NONE" /\ t \notin tainted =>
         /\ \A k \in 1..n : trail[t][k].from \in Last(k - 1)
         /\ ticket[t].state \in Last(n)

Closes(t) == ticket[t].state \notin Final /\ ticket'[t].state \in Final

\* No step closes a ticket over an open child, unless the child was added or
\* reopened while the request was under way.
NeverClosesOverOpenChild ==
  [][\A t \in Ticket : Closes(t) => OpenChildren(t) = {} \/ t \in tainted']_vars

\* Who is involved has changed since the request looked.
PassedOn(w) ==
  LET t == req[w].ticket
  IN \/ \E c \in {"assignee", "reporter", "project"} : ticket[t][c] # req[w].row[c]
     \/ lead[ticket[t].project] # req[w].lead

\* A ticket is finished by a superuser, or by its assignee, its reporter or the
\* manager of its project as they are then, unless it passes to others while
\* the request is under way.  Whoever may edit it can make themselves one of
\* them first (tickets/views.py 313-356, tickets/serializers.py 240-246).
ClosedByInvolved ==
  [][\A w \in Request :
       LET t == req[w].ticket
       IN Proceed(w) /\ req[w].to \in Closing /\ ~ PassedOn(w) =>
            req[w].by \in Super \/ Involved(req[w].by, ticket[t])]_vars

\* A ticket whose state was deleted can still go where that state led: the
\* moves it had are the moves it has.
NeverStranded ==
  [][\A t \in Ticket :
       Live(t) /\ ticket[t].state # None /\ ticket'[t].state = None /\ t \notin tainted' =>
         \A to \in states' : <<ticket[t].state, to>> \in edges => <<None, to>> \in edges']_vars
=============================================================================
