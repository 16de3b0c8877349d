------------------------------ MODULE DayViews ------------------------------
(***************************************************************************)
(* What the screens and exports of the attendance app say of one month:    *)
(* the calendar of an employee, the flat list, the monthly sheet, the      *)
(* monthly counts, the overview and the HR dashboard.  Each derives a       *)
(* status for every employee and day from three sources that change         *)
(* independently: the attendance rows, the leave requests and the holidays. *)
(* The state is those sources; the views are operators over them.           *)
(***************************************************************************)
EXTENDS Integers, FiniteSets

CONSTANTS Emp,       \* employees
          Req,       \* leave requests
          Day,       \* the days of the month, 1 .. n
          Weekend,   \* the Saturdays and Sundays among them
          ByHand,    \* the statuses the instance marks by hand
          MaxEdits,  \* bound on the interventions of HR
          None

VARIABLES rec,       \* the attendance row of an employee and a day, a status or None
          leave,     \* the row of a leave request, or None before it is made
          active,    \* employees whose account is active
          holiday,   \* days with an active Holiday row
          today,
          edits      \* interventions of HR so far, for the bound only

vars == <<rec, leave, active, holiday, today, edits>>

Status == {"PRESENT", "ABSENT", "WFH", "HALF_DAY", "ON_LEAVE", "HOLIDAY", "WEEKEND"}
Working == {"PRESENT", "WFH"}
LeaveStatus == {"PENDING", "APPROVED", "REJECTED", "CANCELLED"}

Leaves == [emp : Emp, first : Day, last : Day, status : LeaveStatus]

TypeOK ==
    /\ rec \in [Emp \X Day -> Status \cup {None}]
    /\ leave \in [Req -> Leaves \cup {None}]
    /\ active \subseteq Emp
    /\ holiday \subseteq Day
    /\ today \in Day
    /\ edits \in 0 .. MaxEdits

Init ==
    /\ rec = [k \in Emp \X Day |-> None]
    /\ leave = [q \in Req |-> None]
    /\ active = Emp
    /\ holiday = {}
    /\ today = 1
    /\ edits = 0

-----------------------------------------------------------------------------
(* The sources.                                                             *)

Edit == edits < MaxEdits /\ edits' = edits + 1

Covers(q, d) == leave[q] # None /\ leave[q].first <= d /\ d <= leave[q].last

\* AttendanceTrackerView.post and the corrections: any status, any day.
Mark(e, d, s) ==
    /\ rec[e, d] # s /\ Edit
    /\ rec' = [rec EXCEPT ![e, d] = s]
    /\ UNCHANGED <<leave, active, holiday, today>>

\* CheckInView, where today's row is missing or has no check-in time.
CheckIn(e, s) ==
    /\ e \in active
    /\ rec' = [rec EXCEPT ![e, today] = s]
    /\ UNCHANGED <<leave, active, holiday, today, edits>>

\* MyLeaveRequestListView.post.
Apply(q, e, first, last) ==
    /\ leave[q] = None /\ first <= last /\ e \in active
    /\ leave' = [leave EXCEPT ![q] =
                   [emp |-> e, first |-> first, last |-> last, status |-> "PENDING"]]
    /\ UNCHANGED <<rec, active, holiday, today, edits>>

\* Seeded fault: the approval skips the weekends.
ApproveWeekdays(q) ==
    /\ leave[q] # None /\ leave[q].status = "PENDING"
    /\ leave' = [leave EXCEPT ![q].status = "APPROVED"]
    /\ rec' = [k \in Emp \X Day |->
                 IF k[1] = leave[q].emp /\ Covers(q, k[2]) /\ k[2] \notin Weekend
                      /\ rec[k] \notin Working
                 THEN "ON_LEAVE" ELSE rec[k]]
    /\ UNCHANGED <<active, holiday, today, edits>>

\* An approval writes ON_LEAVE on every day of the leave, weekends and
\* holidays included, except where the employee was at work.
Approve(q) ==
    /\ leave[q] # None /\ leave[q].status = "PENDING"
    /\ leave' = [leave EXCEPT ![q].status = "APPROVED"]
    /\ rec' = [k \in Emp \X Day |->
                 IF k[1] = leave[q].emp /\ Covers(q, k[2]) /\ rec[k] \notin Working
                 THEN "ON_LEAVE" ELSE rec[k]]
    /\ UNCHANGED <<active, holiday, today, edits>>

Reject(q) ==
    /\ leave[q] # None /\ leave[q].status = "PENDING"
    /\ leave' = [leave EXCEPT ![q].status = "REJECTED"]
    /\ UNCHANGED <<rec, active, holiday, today, edits>>

\* A withdrawal leaves the attendance rows of an approval where they are.
Withdraw(q) ==
    /\ leave[q] # None /\ leave[q].status \in {"PENDING", "APPROVED"}
    /\ leave' = [leave EXCEPT ![q].status = "CANCELLED"]
    /\ UNCHANGED <<rec, active, holiday, today, edits>>

\* The maintenance command clear_leave_requests for the requests of some
\* employees (all of them without --user): they are deleted, and then every
\* ON_LEAVE row, of whoever it is, that no approved request covers becomes
\* PRESENT where it has a check-in time and is deleted where it has none.
\* Seeded fault: the rows of others are taken for orphans too.
OrphanOfAnyone(k, left) == rec[k] = "ON_LEAVE"

Orphan(k, left) ==
    /\ rec[k] = "ON_LEAVE"
    /\ ~\E q \in left : /\ leave[q].emp = k[1] /\ Covers(q, k[2])
                         /\ leave[q].status = "APPROVED"
Clear(of, came) ==
    LET left == {q \in Req : leave[q] # None /\ leave[q].emp \notin of}
    IN  /\ Edit
        /\ leave' = [q \in Req |-> IF q \in left THEN leave[q] ELSE None]
        /\ rec' = [k \in Emp \X Day |->
                     IF ~Orphan(k, left) THEN rec[k]
                     ELSE IF k \in came THEN "PRESENT" ELSE None]
        /\ UNCHANGED <<active, holiday, today>>

SetActive(e) ==
    /\ Edit
    /\ active' = IF e \in active THEN active \ {e} ELSE active \cup {e}
    /\ UNCHANGED <<rec, leave, holiday, today>>

SetHoliday(d) ==
    /\ Edit
    /\ holiday' = IF d \in holiday THEN holiday \ {d} ELSE holiday \cup {d}
    /\ UNCHANGED <<rec, leave, active, today>>

Tomorrow ==
    /\ today + 1 \in Day
    /\ today' = today + 1
    /\ UNCHANGED <<rec, leave, active, holiday, edits>>

-----------------------------------------------------------------------------
(* The views.                                                               *)

\* EmployeeCalendarView: the requests it knows of exclude rejected ones only;
\* of several that cover a day an approved one wins.
OnCalendar(e, d) ==
    {leave[q].status : q \in {x \in Req : /\ Covers(x, d) /\ leave[x].emp = e
                                          /\ leave[x].status # "REJECTED"}}
LeaveShown(e, d, newest) ==
    LET S == OnCalendar(e, d)
    IN  CASE S = {} -> None
          [] "APPROVED" \in S -> "APPROVED"
          [] OTHER -> IF newest \in S THEN newest ELSE CHOOSE s \in S : TRUE

\* display_status of one day.
Calendar(e, d, newest) ==
    LET lv == LeaveShown(e, d, newest)
    IN  CASE rec[e, d] # None   -> rec[e, d]
          [] d \in Weekend      -> "WEEKEND"
          [] lv = "PENDING"     -> "PENDING_LEAVE"
          [] lv # None          -> "ON_LEAVE"
          [] d \in holiday      -> "HOLIDAY"
          [] d > today          -> "FUTURE"
          [] OTHER              -> "NOT_MARKED"

\* Seeded fault: the sheet leaves the holidays out.
ExportedButHolidays(e, d) == IF rec[e, d] # None THEN rec[e, d]
                             ELSE IF d \in Weekend THEN "WEEKEND"
                             ELSE IF d \in holiday THEN "HOLIDAY" ELSE "ABSENT"

\* The cell of AttendanceExportView and the row of AttendanceListView.
Exported(e, d) == IF rec[e, d] # None THEN rec[e, d]
                  ELSE IF d \in Weekend THEN "WEEKEND" ELSE "ABSENT"
Listed(e, d) == IF rec[e, d] # None THEN rec[e, d]
                ELSE IF d \in Weekend THEN "WEEKEND" ELSE "NOT_MARKED"

\* MonthlyAttendanceView, EmployeeMonthlySummaryView and the month of the
\* employee dashboard count the rows.
MonthCount(e, s) == Cardinality({d \in Day : rec[e, d] = s})
ExportCount(e, s) == Cardinality({d \in Day : Exported(e, d) = s})
CalendarCount(e, s, newest) == Cardinality({d \in Day : Calendar(e, d, newest) = s})

\* AttendanceOverviewView: rows of a day, of whoever they are.
Headcount == Cardinality(active)
RowsOf(d) == {e \in Emp : rec[e, d] # None}
OverviewCount(d, s) == Cardinality({e \in Emp : rec[e, d] = s})
Positive(n) == IF n > 0 THEN n ELSE 0
OverviewNotMarked(d) == Positive(Headcount - Cardinality(RowsOf(d)))

\* HRMSDashboardView: the counts of today, adjusted for approved leave one
\* employee at a time.
AwayToday == {leave[q].emp : q \in {x \in Req : Covers(x, today)
                                                /\ leave[x].status = "APPROVED"}}
\* Seeded fault: a row that says ON_LEAVE is counted again.
AddedAwayAgain == {e \in AwayToday : rec[e, today] \notin Working}

AddedAway == {e \in AwayToday : rec[e, today] \notin Working \cup {"ON_LEAVE"}}
HrmsCount(s) ==
    LET n == OverviewCount(today, s)
    IN  IF s = "ON_LEAVE" THEN n + Cardinality(AddedAway)
        ELSE n - Cardinality({e \in AddedAway : rec[e, today] = s})
WorkingHeadcount == IF Headcount - HrmsCount("ON_LEAVE") > 1
                    THEN Headcount - HrmsCount("ON_LEAVE") ELSE 1
AtWork == HrmsCount("PRESENT") + HrmsCount("WFH")
\* In per cent, rounded down; the code keeps one decimal.
AttendanceRate ==
    IF Headcount = 0 THEN 0
    ELSE IF AtWork >= WorkingHeadcount THEN 100 ELSE (100 * AtWork) \div WorkingHeadcount

Next ==
    \/ \E e \in Emp, d \in Day, s \in ByHand : Mark(e, d, s)
    \/ \E e \in Emp, s \in Working : CheckIn(e, s)
    \/ \E q \in Req, e \in Emp, i, j \in Day : Apply(q, e, i, j)
    \/ \E q \in Req : Approve(q) \/ Reject(q) \/ Withdraw(q)
    \/ \E of \in {{e} : e \in Emp} \cup {Emp} :
           \E came \in SUBSET {k \in Emp \X Day : rec[k] = "ON_LEAVE"} : Clear(of, came)
    \/ \E e \in Emp : SetActive(e)
    \/ \E d \in Day : SetHoliday(d)
    \/ Tomorrow

Spec == Init /\ [][Next]_vars

-----------------------------------------------------------------------------
(* Properties.                                                              *)

\* Every day of an approved leave has an attendance row, whatever was marked,
\* withdrawn or cleared in between, so that no view calls it absent or not
\* marked for want of one; and a day the calendar calls leave without a row
\* is one of a withdrawn request, which the calendar does not leave out
\* (attendance/views.py 1242-1257, 1678, clear_leave_requests.py 55-72).
LeaveIsVisible ==
    /\ \A q \in Req : leave[q] # None /\ leave[q].status = "APPROVED" =>
           \A d \in leave[q].first .. leave[q].last : rec[leave[q].emp, d] # None
    /\ \A e \in Emp, d \in Day, n \in {"PENDING", "CANCELLED"} :
           Calendar(e, d, n) = "ON_LEAVE" /\ rec[e, d] = None =>
               "CANCELLED" \in OnCalendar(e, d)

\* The monthly sheet, the list, the calendar and the counts differ on the days
\* without a row only: there the sheet counts an absence wherever the list says
\* not marked, and the calendar a holiday, leave or a day to come.
MonthsAgree ==
    \A e \in Emp :
        LET unmarked == Cardinality({d \in Day : Listed(e, d) = "NOT_MARKED"})
            Bare(n) == {d \in Day : rec[e, d] = None /\ Calendar(e, d, n) \in
                          {"PENDING_LEAVE", "ON_LEAVE", "HOLIDAY", "FUTURE", "NOT_MARKED"}}
        IN  /\ ExportCount(e, "ABSENT") = MonthCount(e, "ABSENT") + unmarked
            /\ \A s \in {"PRESENT", "WFH", "HALF_DAY"} : ExportCount(e, s) = MonthCount(e, s)
            /\ \A n \in {"PENDING", "CANCELLED"} :
                   /\ unmarked = Cardinality(Bare(n))
                   /\ \A s \in {"PRESENT", "WFH", "HALF_DAY", "ABSENT"} :
                          CalendarCount(e, s, n) = MonthCount(e, s)

\* The HR dashboard counts nobody twice and forgets nobody: its five counts
\* make up the employees with such a row or on approved leave today, and those
\* on leave are the ones a row or an approved request says are away and no row
\* says are at work.  With the not marked they make up the staff whenever
\* nobody with a row today has left.
HeadsAreCountedOnce ==
    LET five == {"PRESENT", "WFH", "HALF_DAY", "ON_LEAVE", "ABSENT"}
        sum == HrmsCount("PRESENT") + HrmsCount("WFH") + HrmsCount("HALF_DAY")
                 + HrmsCount("ON_LEAVE") + HrmsCount("ABSENT")
        seen == {e \in Emp : rec[e, today] \in five}
    IN  /\ \A s \in five : HrmsCount(s) >= 0
        /\ sum = Cardinality(seen \cup AwayToday)
        /\ HrmsCount("ON_LEAVE") =
              Cardinality({e \in Emp : \/ rec[e, today] = "ON_LEAVE"
                                       \/ e \in AwayToday /\ rec[e, today] \notin Working})
        /\ RowsOf(today) \subseteq active =>
              sum + OverviewNotMarked(today) +
                Cardinality({e \in Emp : rec[e, today] \in {"HOLIDAY", "WEEKEND"}})
              = Headcount
        /\ AttendanceRate \in 0 .. 100
        /\ (\A e \in active : rec[e, today] \in Working \cup {"ON_LEAVE"}) /\
           (\E e \in active : rec[e, today] \in Working) => AttendanceRate = 100
=============================================================================
