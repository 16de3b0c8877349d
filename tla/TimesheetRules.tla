--------------------------- MODULE TimesheetRules ---------------------------
(***************************************************************************)
(* What the timesheet screens say of one employee's week, each from queries *)
(* of its own: the days and tickets that time may be logged on, the sheets  *)
(* that are missing or await review, the days on which attendance and logs  *)
(* disagree, and the daily capacity.  Module Timesheet has the logs, sheets *)
(* and their races; here every request is one step, except where two of    *)
(* them create the capacity's row.                                          *)
(***************************************************************************)
EXTENDS Integers, Sequences, FiniteSets, FiniteSetsExt

CONSTANTS Day,         \* days of the model
          Week,        \* those of the current week, Sunday to Saturday
          Shift,       \* TRUE: the employee is shift_applicable
          Employed,    \* days between joining_date and retirement_date
          Ticket,      \* tickets of the model
          Project,     \* their projects
          Of,          \* Ticket -> Project
          Task,        \* tickets whose type is a Task, Bug, Change Request or Subtask
          Reviewer,    \* people holding timesheet.approve
          Staff,       \* reviewers with is_staff
          Managed,     \* Reviewer -> the projects they manage
          Reports,     \* reviewers who are the employee's manager
          Quarters,    \* quarter hours a log or an attendance may have
          Request,     \* threads that ask for the configuration
          Capacity,    \* daily capacities an administrator may set
          MaxEdits,    \* bound on the steps of one behaviour
          None

VARIABLES att,         \* Day -> attendance record: status, in, out, worked; None
          leave,       \* days of approved leave
          holiday,     \* active rows of Holiday
          alloc,       \* allocations of the employee: project, first and last day
          ticket,      \* Ticket -> state, is_active, assigned to the employee
          sheet,       \* status of the week's sheet, and whether it starts on Monday
          logs,        \* set of work logs: ticket, day, hours
          config,      \* rows of TimesheetConfig, oldest first: key order, hours
          asked,       \* Request -> what it is about to do
          wanted,      \* hours the last PATCH set
          raced,       \* two requests found the table empty
          edits

vars == <<att, leave, holiday, alloc, ticket, sheet, logs, config, asked, wanted, raced, edits>>
facts == <<att, leave, holiday, alloc, ticket>>
book == <<sheet, logs>>
settings == <<config, asked, wanted, raced>>

Loggable == {"PRESENT", "WFH", "HALF_DAY"}
Attendance == [status : {"PRESENT"}, in : {TRUE}, out : {TRUE}, worked : Quarters]
                \cup [status : {"PRESENT"}, in : BOOLEAN, out : {FALSE}, worked : {0}]
                \cup [status : {"ABSENT", "ON_LEAVE"}, in : {FALSE}, out : {FALSE}, worked : {0}]
States == {"open", "closed", "gone"}

TypeOK ==
    /\ att \in [Day -> Attendance \cup {None}]
    /\ leave \subseteq Day /\ holiday \subseteq Day
    /\ \A a \in alloc : a.project \in Project /\ a.from \in Day /\ a.to \in Day \cup {None}
    /\ ticket \in [Ticket -> [state : States, active : BOOLEAN, mine : BOOLEAN]]
    /\ sheet.status \in {"MISSING", "DRAFT", "SUBMITTED", "APPROVED", "REJECTED"}
    /\ \A l \in logs : l.ticket \in Ticket /\ l.day \in Day
    /\ \A i \in DOMAIN config : config[i].hours \in Capacity \cup {8}
    /\ edits \in 0 .. MaxEdits

Init ==
    /\ att = [d \in Day |-> None] /\ leave = {} /\ holiday = {}
    /\ alloc \in {{[project |-> p, from |-> d, to |-> None] : d \in {Min(Day)}} : p \in Project} \cup {{}}
    /\ ticket = [t \in Ticket |-> [state |-> "open", active |-> TRUE, mine |-> TRUE]]
    /\ sheet \in [status : {"MISSING", "DRAFT", "SUBMITTED"}, monday : BOOLEAN]
    /\ sheet.monday => sheet.status # "MISSING"
    /\ logs = {} /\ config = <<>> /\ asked = [w \in Request |-> None] /\ wanted = None /\ raced = FALSE
    /\ edits = 0

Step == edits < MaxEdits /\ edits' = edits + 1

-----------------------------------------------------------------------------
(* What may be logged.                                                      *)

AllocatedTo(d) == {a.project : a \in {x \in alloc : x.from <= d /\ (x.to = None \/ x.to >= d)}}

\* Seeded fault: an allocation of any day of the week will do.
AllocatedInWeek(d) == UNION {AllocatedTo(x) : x \in Week}

\* validate_attendance_for_log: no error for the day.
MayAttend(d) ==
    /\ d \in Employed /\ d \notin leave /\ d \notin holiday
    /\ IF Shift THEN att[d] # None /\ att[d].status \in Loggable /\ att[d].in /\ att[d].out
       ELSE att[d] # None => att[d].status \notin {"ON_LEAVE", "ABSENT"}

IsTicketActive(t) == ticket[t].state = "open" /\ ticket[t].active

\* validate_work_log, for hours above zero.
Valid(t, d) ==
    /\ MayAttend(d) /\ t \in Task /\ IsTicketActive(t)
    /\ Of[t] \in AllocatedTo(d) /\ ticket[t].mine

Editable == sheet.status \in {"MISSING", "DRAFT", "REJECTED"}

\* WorkLogCreateSerializer.validate.
Accepts(t, d) == ticket[t].state # "gone" /\ d \in Week /\ Editable /\ Valid(t, d)

\* Seeded fault: the drop-down asks for an allocation in the week.
LoggableTicketsInWeek(d) ==
    IF ~MayAttend(d) THEN {}
    ELSE {t \in Task : Of[t] \in AllocatedInWeek(d) /\ ticket[t].mine /\ IsTicketActive(t)}

\* The tickets of the drop-down.
LoggableTickets(d) ==
    IF ~MayAttend(d) THEN {}
    ELSE {t \in Task : Of[t] \in AllocatedTo(d) /\ ticket[t].mine /\ IsTicketActive(t)}

LoggableDates == {d \in Day : d \in Week /\ MayAttend(d)}

\* Seeded fault: the week's screen does not look at the sheet.
CanLogAnySheet(d) == d \in Week /\ d \in LoggableDates

\* can_log of a day on the employee's own screen.
CanLog(d) == d \in Week /\ Editable /\ d \in LoggableDates /\ d \notin leave \cup holiday

\* The same day on an administrator's screen.
AdminCanLog(d, self) == CanLog(d) /\ self

\* Opening a week makes its sheet, or moves a Monday sheet to Sunday.
Opened == [status |-> IF sheet.status = "MISSING" THEN "DRAFT" ELSE sheet.status, monday |-> FALSE]

OpenWeek ==
    /\ sheet # Opened /\ Step /\ sheet' = Opened
    /\ UNCHANGED <<facts, logs, settings>>

LogTime(t, d, h) ==
    /\ Accepts(t, d) /\ Step
    /\ logs' = logs \cup {[ticket |-> t, day |-> d, hours |-> h]}
    /\ sheet' = Opened
    /\ UNCHANGED <<facts, settings>>

\* copy_logs_from_date: the target day's attendance is asked about, the
\* tickets are not.
CopyDay(from, to) ==
    /\ to \in Week /\ Editable /\ Step
    /\ logs' = IF MayAttend(to)
               THEN logs \cup {[l EXCEPT !.day = to] : l \in {x \in logs : x.day = from}} ELSE logs
    /\ sheet' = Opened
    /\ UNCHANGED <<facts, settings>>

\* Submitting and reviewing, see Timesheet.
MoveSheet(from, to) ==
    /\ sheet.status = from /\ Step /\ sheet' = [sheet EXCEPT !.status = to]
    /\ UNCHANGED <<facts, logs, settings>>

-----------------------------------------------------------------------------
(* What managers are shown.                                                 *)

LogProjects == {Of[l.ticket] : l \in {x \in logs : x.day \in Week}}

\* can_review_timesheet, of somebody whose permissions are not passed on.
CanReview(m) == m \in Staff \/ LogProjects \cap Managed[m] # {} \/ m \in Reports

InReview == sheet.status = "SUBMITTED"
PendingFor(m) == InReview /\ CanReview(m)   \* manager_dashboard passes no permissions
QueuedFor(m) == InReview                    \* the queue does: timesheet.approve suffices
MayApprove(m) == InReview                   \* and so do approval and rejection

\* Seeded fault: an allocation must cover the whole week.
InTeamWholly(m) ==
    \E a \in alloc : a.project \in Managed[m] /\ a.from <= Min(Week) /\ (a.to = None \/ a.to >= Max(Week))

InTeam(m) ==
    \E a \in alloc : /\ a.project \in Managed[m]
                     /\ a.from <= Max(Week) /\ (a.to = None \/ a.to >= Min(Week))

\* The employee's row in missing_timesheets(m): staff too see only the projects
\* they manage, and a sheet that starts on Monday counts.
MissingOf(m) ==
    IF InTeam(m) /\ sheet.status \in {"MISSING", "DRAFT", "REJECTED"} THEN sheet.status ELSE None

\* And in team_aggregate: a sheet that starts on Monday is not found.
AggregateOf(m) ==
    IF m \notin Staff /\ ~(\E a \in alloc : /\ a.project \in Managed[m] /\ a.from <= Max(Week)
                                            /\ (a.to = None \/ a.to >= Min(Week))) THEN None
    ELSE IF sheet.monday THEN "MISSING" ELSE sheet.status

\* discrepancy_flags: days of complete attendance an hour or more away from
\* the logs.  Exactly an hour too much is called too little.
LoggedOn(d) == MapThenSumSet(LAMBDA l : l.hours, {l \in logs : l.day = d})
Complete(d) == att[d] # None /\ att[d].in /\ att[d].out /\ att[d].worked > 0

\* Seeded fault: the gap is not taken as a distance.
FlagSigned(d) ==
    LET w == att[d].worked
        l == LoggedOn(d)
    IN  IF ~Complete(d) \/ w - l < 4 THEN None
        ELSE IF l = 0 THEN "no_log" ELSE IF l > w + 4 THEN "over_logged" ELSE "under_logged"

Flag(d) ==
    LET w == att[d].worked
        l == LoggedOn(d)
    IN  IF ~Complete(d) \/ (w - l < 4 /\ l - w < 4) THEN None
        ELSE IF l = 0 THEN "no_log" ELSE IF l > w + 4 THEN "over_logged" ELSE "under_logged"

-----------------------------------------------------------------------------
(* What the rest of the system does.                                        *)

Attend(d, r) ==
    /\ Step /\ att' = [att EXCEPT ![d] = r]
    /\ UNCHANGED <<leave, holiday, alloc, ticket, book, settings>>

TakeLeave(d) ==
    /\ d \notin leave /\ Step /\ leave' = leave \cup {d}
    /\ UNCHANGED <<att, holiday, alloc, ticket, book, settings>>

Declare(d) ==
    /\ d \notin holiday /\ Step /\ holiday' = holiday \cup {d}
    /\ UNCHANGED <<att, leave, alloc, ticket, book, settings>>

Allocate(p, from, to) ==
    /\ IF to = None THEN TRUE ELSE from <= to
    /\ Step /\ alloc' = {a \in alloc : a.project # p} \cup {[project |-> p, from |-> from, to |-> to]}
    /\ UNCHANGED <<att, leave, holiday, ticket, book, settings>>

Becomes(t, r) ==
    /\ Cardinality({f \in DOMAIN r : r[f] # ticket[t][f]}) = 1
    /\ Step /\ ticket' = [ticket EXCEPT ![t] = r]
    /\ UNCHANGED <<att, leave, holiday, alloc, book, settings>>

-----------------------------------------------------------------------------
(* The daily capacity: one row, made by whoever asks first.                 *)

First == config[CHOOSE i \in DOMAIN config : \A j \in DOMAIN config : config[i].key <= config[j].key]

\* get_daily_capacity: the oldest row.
DailyCapacity == IF config = <<>> THEN 8 ELSE config[1].hours

\* Seeded fault: the row is made whether there is one or not.
AskAnew(w, h) ==
    /\ asked[w] = None /\ Step
    /\ asked' = [asked EXCEPT ![w] = [todo |-> "create", key |-> 0, hours |-> h]]
    /\ raced' = (raced \/ \E v \in Request : asked[v] # None /\ asked[v].todo = "create")
    /\ UNCHANGED <<facts, book, config, wanted>>

\* GET or PATCH: the first row by key, which is random.
Ask(w, h) ==
    /\ asked[w] = None /\ Step
    /\ asked' = [asked EXCEPT ![w] = [todo |-> IF config = <<>> THEN "create" ELSE "save",
                                      key |-> IF config = <<>> THEN 0 ELSE First.key, hours |-> h]]
    /\ raced' = (raced \/ \E v \in Request : asked[v] # None /\ asked[v].todo = "create")
    /\ UNCHANGED <<facts, book, config, wanted>>

Create(w, key) ==
    /\ asked[w] # None /\ asked[w].todo = "create"
    /\ \A i \in DOMAIN config : config[i].key # key
    /\ config' = Append(config, [key |-> key, hours |-> 8])
    /\ asked' = [asked EXCEPT ![w].todo = "save", ![w].key = key]
    /\ UNCHANGED <<facts, book, wanted, raced, edits>>

\* A GET (hours None) changes nothing.
Save(w) ==
    /\ asked[w] # None /\ asked[w].todo = "save"
    /\ config' = [i \in DOMAIN config |->
                    IF asked[w].key = config[i].key /\ asked[w].hours # None
                    THEN [config[i] EXCEPT !.hours = asked[w].hours] ELSE config[i]]
    /\ wanted' = IF asked[w].hours = None THEN wanted ELSE asked[w].hours
    /\ asked' = [asked EXCEPT ![w] = None]
    /\ UNCHANGED <<facts, book, raced, edits>>

Next ==
    \/ OpenWeek
    \/ \E t \in Ticket, d \in Day, h \in Quarters \ {0} : LogTime(t, d, h)
    \/ \E d, e \in Day : CopyDay(d, e)
    \/ \E p \in {<<"DRAFT", "SUBMITTED">>, <<"REJECTED", "SUBMITTED">>, <<"SUBMITTED", "APPROVED">>,
                 <<"SUBMITTED", "REJECTED">>} : MoveSheet(p[1], p[2])
    \/ \E d \in Day : TakeLeave(d) \/ Declare(d) \/ \E r \in Attendance : Attend(d, r)
    \/ \E p \in Project, from \in Day, to \in Day \cup {None} : Allocate(p, from, to)
    \/ \E t \in Ticket, r \in [state : States, active : BOOLEAN, mine : BOOLEAN] : Becomes(t, r)
    \/ \E w \in Request : Save(w) \/ \E h \in Capacity \cup {None} : Ask(w, h)
    \/ \E w \in Request, k \in 1 .. Cardinality(Request) : Create(w, k)

Spec == Init /\ [][Next]_vars

-----------------------------------------------------------------------------
(* Properties.                                                              *)

\* The screen lets the employee pick a ticket of the drop-down on a day exactly
\* when the server then accepts the log (views.py 84-126, services.py 253-306
\* against workitems/serializers.py 41-74), and nobody else's screen does.
OfferedIsAccepted ==
    \A d \in Day, t \in Ticket :
        /\ (CanLog(d) /\ t \in LoggableTickets(d)) <=> Accepts(t, d)
        /\ ~AdminCanLog(d, FALSE)

\* The list of missing sheets and the team's figures tell one story: who is in
\* the list has a row with that status, and who has a row that says a sheet is
\* missing, a draft or rejected is in the list; except for the projects staff
\* do not manage, and while a sheet still starts on Monday.
MissingAgrees ==
    \A m \in Reviewer : ~sheet.monday =>
        /\ MissingOf(m) # None => AggregateOf(m) = MissingOf(m)
        /\ m \notin Staff /\ AggregateOf(m) \in {"MISSING", "DRAFT", "REJECTED"} => MissingOf(m) # None

\* Every sheet the dashboard counts is in that reviewer's queue and can be
\* approved by them; the queue may hold more, the dashboard leaves the
\* permissions out (services.py 618).
PendingIsQueued == \A m \in Reviewer : PendingFor(m) => QueuedFor(m) /\ MayApprove(m)

\* A day is flagged when attendance and logs are an hour or more apart, in the
\* right direction unless it is exactly an hour too much (services.py 846-852).
FlagsAreRight ==
    \A d \in Day : Complete(d) =>
        LET w == att[d].worked
            l == LoggedOn(d)
        IN  /\ (Flag(d) # None) <=> (l <= w - 4 \/ l >= w + 4)
            /\ Flag(d) = "over_logged" => l > w
            /\ l > w /\ l # w + 4 => Flag(d) \notin {"under_logged", "no_log"}

\* The capacity an administrator set is the one the rules use, unless two
\* first requests have made two rows, of which the screen changes one and the
\* rules may read the other for ever (models.py 23, views.py 489-506).
CapacityIsSet == ~raced /\ wanted # None => DailyCapacity = wanted
=============================================================================
