------------------------------- MODULE Projects -------------------------------
(***************************************************************************)
(* Projects and who works on them.                                         *)
(*                                                                         *)
(* What part of an employee's day goes to which project (apps/allocation): *)
(* clean sums the allocations that overlap the new interval and the row is *)
(* saved by a later statement, with no lock; an update saves every column  *)
(* of the row as it was loaded.  The rows are those of one employee.       *)
(*                                                                         *)
(* A project with its tickets and its history (apps/projects).  An update  *)
(* is a transaction that saves every column of the project as it was       *)
(* loaded; a transition tests, moves, hands over and records in statements *)
(* of their own.  ProjectHistory is an "immutable audit record of every    *)
(* project create / update".                                               *)
(***************************************************************************)
EXTENDS Integers, Sequences, FiniteSets, FiniteSetsExt

CONSTANTS
  Request,  \* the server's request threads
  Topics,   \* what they are about: "staff", "project"
  MaxRows,  \* bounds the allocations
  LastDay,  \* the last day that matters; a row may end on none
  Percent,  \* what parts are asked for, in hundredths of a percent
  Ticket,   \* the tickets of the project
  Manager,  \* whom it may be handed to
  Moves,    \* the transitions of the workflow: pairs of states
  First,    \* its initial state
  Final,    \* its final states
  MaxEdits  \* bounds what requests do; making an allocation does not count

VARIABLES
  row,      \* Row -> the allocation, or Absent
  project,  \* the columns: state and manager; and whether it is deleted
  ticket,   \* Ticket -> "none" (it has no state), "open" or "final"
  told,     \* column -> what the history says of it last
  req,      \* what each request thread is doing
  edits,    \* how many requests there were
  excused   \* columns of the project saved from an old image, or moved by a request
            \* that died; "row" when one was saved after another changed since the sum

vars == <<row, project, ticket, told, req, edits, excused>>

Row == 1 .. MaxRows
Day == 1 .. LastDay
OpenEnd == LastDay + 1
Absent == [percent |-> 0, from |-> 0, to |-> 0, deleted |-> TRUE]
Interval == {i \in [from : Day, to : Day \cup {OpenEnd}] : i.from <= i.to}
Active == {r \in Row : ~ row[r].deleted}

\* A whole day, and what clean lets pass beyond it: 100 % and 0.01 %.
Whole == 10000
Grace == 1

Column == {"state", "manager"}
State == {First} \cup UNION {{m[1], m[2]} : m \in Moves}

Free == [pc |-> "Idle"]
At(w, pc) == req[w].pc = pc
Becomes(w, r) == req' = [req EXCEPT ![w] = r]
Edits == edits < MaxEdits /\ edits' = edits + 1

\* perform_create has made the project, with its initial state and the first
\* entry of its history; nobody is allocated yet.
Init ==
  /\ row = [r \in Row |-> Absent]
  /\ project \in [state : {First}, manager : Manager, deleted : {FALSE}]
  /\ ticket \in [Ticket -> {"none", "open"}]
  /\ told = [state |-> First, manager |-> project.manager]
  /\ req = [w \in Request |-> Free]
  /\ edits = 0 /\ excused = {}
----------------------------------------------------------------------------
(* The allocations of an employee.                                          *)

\* Seeded fault: a row that ends on the first day is left out.
OverlapsLater(a, b) ==
  a.from <= b.to /\ b.from < a.to

\* The query of clean: it starts by the end, and ends from the start on or
\* never.
Overlaps(a, b) ==
  a.from <= b.to /\ b.from <= a.to

\* Seeded fault: the row is summed with what it was before.
FitsUnlessMore(r, a) ==
  a.percent \in 1 .. Whole
    /\ a.percent + MapThenSumSet(LAMBDA o : row[o].percent,
                                 {o \in Active : Overlaps(row[o], a)}) <= Whole + Grace

\* Allocation.clean, for what is to be in row r.  (Three rows or more that
\* make exactly 100.01 the code may refuse as well, as its floats round.)
Fits(r, a) ==
  a.percent \in 1 .. Whole
    /\ a.percent + MapThenSumSet(LAMBDA o : row[o].percent,
                                 {o \in Active \ {r} : Overlaps(row[o], a)}) <= Whole + Grace

LoadOn(day) == MapThenSumSet(LAMBDA r : row[r].percent,
                {r \in Active : row[r].from <= day /\ day <= row[r].to})

\* What part of the days of a month an employee is given to projects:
\* CapacityService adds the parts of every allocation that touches the month.
MonthPercent(first, last) ==
  MapThenSumSet(LAMBDA r : row[r].percent,
    {r \in Active : row[r].from <= last /\ first <= row[r].to})

\* Rows are numbered as requests ask for them.
Taken(r) == row[r] # Absent \/ \E w \in Request : At(w, "Save") /\ req[w].row = r
Fresh(r) == ~ Taken(r) /\ \A s \in 1 .. r - 1 : Taken(s)

\* create: the last sum before the row is inserted; the ones of validate
\* come to nothing more.
Allocate(w, r, percent, i) ==
  LET a == [percent |-> percent, from |-> i.from, to |-> i.to, deleted |-> FALSE]
  IN /\ At(w, "Idle") /\ Fresh(r)
     /\ Fits(r, a)
     /\ Becomes(w, [pc |-> "Save", row |-> r, image |-> a, stale |-> FALSE])
     /\ UNCHANGED <<row, project, ticket, told, edits, excused>>

\* update: the row is loaded, changed and summed.
Reallocate(w, r, percent, i) ==
  LET a == [percent |-> percent, from |-> i.from, to |-> i.to, deleted |-> FALSE]
  IN /\ At(w, "Idle") /\ r \in Active /\ Edits
     /\ Fits(r, a)
     /\ Becomes(w, [pc |-> "Save", row |-> r, image |-> a, stale |-> FALSE])
     /\ UNCHANGED <<row, project, ticket, told, excused>>

\* What the other requests read is old once a row has changed.
Outdates(w) ==
  req' = [v \in Request |-> IF v = w THEN Free
                            ELSE IF At(v, "Save") THEN [req[v] EXCEPT !.stale = TRUE] ELSE req[v]]

Save(w) ==
  /\ At(w, "Save")
  /\ row' = [row EXCEPT ![req[w].row] = req[w].image]
  /\ Outdates(w)
  /\ excused' = IF req[w].stale THEN excused \cup {"row"} ELSE excused
  /\ UNCHANGED <<project, ticket, told, edits>>

\* destroy saves the two flags, but after the same sum: a row that no longer
\* fits cannot be deleted.
Release(r) ==
  /\ r \in Active /\ Edits
  /\ Fits(r, row[r])
  /\ row' = [row EXCEPT ![r].deleted = TRUE]
  /\ req' = [v \in Request |-> IF At(v, "Save") THEN [req[v] EXCEPT !.stale = TRUE] ELSE req[v]]
  /\ UNCHANGED <<project, ticket, told, excused>>

StaffNext ==
  \/ \E w \in Request, r \in Row, percent \in Percent, i \in Interval :
       Allocate(w, r, percent, i) \/ Reallocate(w, r, percent, i)
  \/ \E w \in Request : Save(w)
  \/ \E r \in Row : Release(r)
----------------------------------------------------------------------------
(* A project.                                                               *)

\* _diff of two snapshots, entered into the history.
Record(old, new) ==
  told' = [c \in Column |-> IF old[c] # new[c] THEN new[c] ELSE told[c]]

\* update loads the project ...
UpdateLoad(w, manager) ==
  /\ At(w, "Idle") /\ ~ project.deleted /\ Edits
  /\ Becomes(w, [pc |-> "Update", saw |-> project, manager |-> manager])
  /\ UNCHANGED <<row, project, ticket, told, excused>>

\* Seeded fault: the snapshot is taken when the new columns are in.
UpdateUnrecorded(w) ==
  LET r == req[w]
      new == [r.saw EXCEPT !.manager = r.manager]
  IN /\ At(w, "Update") /\ Becomes(w, Free)
     /\ project' = new
     /\ Record(new, new)
     /\ excused' = excused \cup {c \in Column : project[c] # r.saw[c]}
                     \cup (IF project.deleted THEN {"deleted"} ELSE {})
     /\ UNCHANGED <<row, ticket, edits>>

\* ... and saves all of it, the new manager with it; the history gets what
\* differs from what was loaded.
Update(w) ==
  LET r == req[w]
      new == [r.saw EXCEPT !.manager = r.manager]
  IN /\ At(w, "Update") /\ Becomes(w, Free)
     /\ project' = new
     /\ Record(r.saw, new)
     /\ excused' = excused \cup {c \in Column : project[c] # r.saw[c]}
                     \cup (IF project.deleted THEN {"deleted"} ELSE {})
     /\ UNCHANGED <<row, ticket, edits>>

\* Seeded fault: open tickets do not matter.
TransitionLoadUntested(w, to, manager) ==
  /\ At(w, "Idle") /\ ~ project.deleted /\ Edits
  /\ Becomes(w, [pc |-> "Move", saw |-> project, to |-> to, manager |-> manager, late |-> FALSE])
  /\ UNCHANGED <<row, project, ticket, told, excused>>

\* transition: a final state is refused while tickets are open; a ticket
\* without a state is not open.
TransitionLoad(w, to, manager) ==
  /\ At(w, "Idle") /\ ~ project.deleted /\ Edits
  /\ to \in Final => \A t \in Ticket : ticket[t] # "open"
  /\ Becomes(w, [pc |-> "Move", saw |-> project, to |-> to, manager |-> manager, late |-> FALSE])
  /\ UNCHANGED <<row, project, ticket, told, excused>>

\* proceed: the move must start from the state that was loaded.
Move(w) ==
  LET r == req[w]
  IN /\ At(w, "Move")
     /\ IF <<r.saw.state, r.to>> \in Moves
        THEN /\ project' = [project EXCEPT !.state = r.to]
             /\ Becomes(w, [r EXCEPT !.pc = "HandOver"])
             /\ excused' = IF project.state # r.saw.state THEN excused \cup {"state"} ELSE excused
        ELSE Becomes(w, Free) /\ UNCHANGED <<project, excused>>
     /\ UNCHANGED <<row, ticket, told, edits>>

\* The manager is saved, if one is named ...
HandOver(w) ==
  LET r == req[w]
  IN /\ At(w, "HandOver")
     /\ project' = [project EXCEPT !.manager = r.manager]
     /\ Becomes(w, [r EXCEPT !.pc = "Record"])
     /\ excused' = IF project.manager # r.saw.manager THEN excused \cup {"manager"} ELSE excused
     /\ UNCHANGED <<row, ticket, told, edits>>

\* ... and both are recorded.
RecordMove(w) ==
  LET r == req[w]
  IN /\ At(w, "Record") /\ Becomes(w, Free)
     /\ Record(r.saw, [r.saw EXCEPT !.state = r.to, !.manager = r.manager])
     /\ excused' = excused \cup {c \in Column : project[c] # [r.saw EXCEPT !.state = r.to, !.manager = r.manager][c]}
     /\ UNCHANGED <<row, project, ticket, edits>>

\* A ticket is opened, closed, opened again or loses its state; requests
\* that tested before may be late now.
TicketBecomes(t, state) ==
  /\ ticket[t] # state /\ Edits
  /\ ticket' = [ticket EXCEPT ![t] = state]
  /\ req' = [w \in Request |-> IF At(w, "Move") THEN [req[w] EXCEPT !.late = TRUE] ELSE req[w]]
  /\ UNCHANGED <<row, project, told, excused>>

Destroy ==
  /\ ~ project.deleted /\ Edits
  /\ project' = [project EXCEPT !.deleted = TRUE]
  /\ UNCHANGED <<row, ticket, told, req, excused>>

\* The worker dies between two statements of a transition.
Die(w) ==
  /\ ~ At(w, "Idle") /\ Becomes(w, Free)
  /\ excused' = IF At(w, "HandOver") \/ At(w, "Record") THEN excused \cup Column ELSE excused
  /\ UNCHANGED <<row, project, ticket, told, edits>>

ProjectNext ==
  \/ \E w \in Request, manager \in Manager : UpdateLoad(w, manager)
  \/ \E w \in Request, to \in State, manager \in Manager : TransitionLoad(w, to, manager)
  \/ \E w \in Request : Update(w) \/ Move(w) \/ HandOver(w) \/ RecordMove(w) \/ Die(w)
  \/ \E t \in Ticket, state \in {"none", "open", "final"} : TicketBecomes(t, state)
  \/ Destroy

Next == ("staff" \in Topics /\ StaffNext) \/ ("project" \in Topics /\ ProjectNext)

Spec == Init /\ [][Next]_vars
----------------------------------------------------------------------------
\* Nobody is given to projects for more than 100.01 % of a day, unless two
\* requests summed before either saved; and whoever is on some day is
\* reported as over-allocated for the month.
NoOverload ==
  /\ "row" \notin excused => \A day \in Day : LoadOn(day) <= Whole + Grace
  /\ \A first, last \in Day : \A day \in first .. last : LoadOn(day) <= MonthPercent(first, last)

\* Short of that an allocation can be deleted, unless two others fall into
\* its days: together they may be too much for it though no day is.
Deletable ==
  "row" \notin excused => \A r \in Active :
    \/ Fits(r, row[r])
    \/ \E p, q \in Active \ {r} :
         p # q /\ Overlaps(row[p], row[r]) /\ Overlaps(row[q], row[r])

\* Whoever replays the history of a project knows its state and its manager,
\* once no transition is between its statements, except for columns that a
\* request saved from what it read before another changed them, or that a
\* request moved and died before recording.
HistoryTells ==
  (\A w \in Request : ~ At(w, "HandOver") /\ ~ At(w, "Record")) =>
    \A c \in Column \ excused : told[c] = project[c]

\* A project becomes final only while none of its tickets is open, unless
\* one changed after the look for open ones; and a deleted one comes back
\* only through an update that had loaded it before.
ClosedWhenDoneStep ==
  project' # project =>
    /\ project'.state \in Final /\ project.state # project'.state =>
         \/ \A t \in Ticket : ticket[t] # "open"
         \/ \E w \in Request : At(w, "Move") /\ req[w].late
         \/ "state" \in excused'
    /\ project.deleted => project'.deleted \/ "deleted" \in excused'

\* ClosedWhenDoneStep, of every step.
ClosedWhenDone == [][ClosedWhenDoneStep]_vars
=============================================================================
