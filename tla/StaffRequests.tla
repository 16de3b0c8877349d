--------------------------- MODULE StaffRequests ---------------------------
(***************************************************************************)
(* What employees ask of HR and of their managers, and who decides it      *)
(* (apps/attendance/views.py): shifts and requests to change them, the     *)
(* switch that lets an employee clock in outside a shift, requests to work *)
(* from home, the monthly report a manager submits to the chief executive, *)
(* and requests to regularize one attendance day.  Reports and             *)
(* regularizations are decided once, by a test and a save that are         *)
(* statements of their own; the other reviews do not look at the status a  *)
(* request has, and it may be decided again, the other way too.  Every     *)
(* statement of a view is a commit of its own.  The five subjects share no *)
(* row, so a behaviour is about one of them.                               *)
(***************************************************************************)
EXTENDS Integers, Sequences, FiniteSets

CONSTANTS
  Request,   \* the server's request threads
  Change,    \* ShiftChangeRequest rows that may come to exist
  Shift,
  LastDay,   \* bound: the last day that is looked at
  MaxRows,   \* bound: EmployeeShift rows, and rows of the switch
  HandEnds,  \* bound: last days HR may enter for an assignment
  Ranges,    \* bound: the <<date_from, date_to>> the switch is set for
  Case,      \* AttendanceRegularizationRequest rows, all of one day
  Topics,    \* what behaviours are about: "shift", "switch", "home", "report", "day"
  None       \* NULL

VARIABLES
  topic,     \* what this behaviour is about
  today,
  change,    \* Change -> status, kind, shift
  shifts,    \* the EmployeeShift rows, in the order of their creation
  switch,    \* the AttendanceClockInEnable rows: range, on, live
  home,      \* WFHRequest rows: day -> status, and WFHSetting
  latest,    \* the permanent change that was carried out last, and its day
  posted,    \* Ranges -> the value last set for it by a request on its own
  muddled,   \* requests overlapped, died half way, or HR changed rows by hand
  team,      \* somebody reports to the manager
  report,    \* the manager's row of the month, the only one there can be
  case,      \* Case -> status
  day,       \* what the attendance row says: nothing, a case, or something else
  outdated,  \* rows decided after another decision, and cases never recorded
  refused,   \* a submission met a rejected report and was lost
  req        \* what each request thread is doing

shiftVars == <<today, change, shifts, switch, home, latest, posted, muddled>>
reportVars == <<team, report, case, day, outdated, refused>>
vars == <<topic, shiftVars, reportVars, req>>

Day == 0..LastDay
Free == [pc |-> "Idle"]
At(w, pc) == req[w].pc = pc
Becomes(w, r) == req' = [req EXCEPT ![w] = r]
Decision == {"APPROVED", "REJECTED"}
Alone(w) == \A x \in Request \ {w} : At(x, "Idle")

InForce(d) == {k \in DOMAIN shifts : shifts[k].from <= d /\ (shifts[k].to = None \/ shifts[k].to >= d)}

\* _shift_times: one of the assignments in force that began last.
ShiftsOn(d) == {k \in InForce(d) : \A l \in InForce(d) : shifts[l].from <= shifts[k].from}

\* The filter of AttendanceClockInEnableView.post: rows of the very same dates.
LiveRows(range) == {k \in DOMAIN switch : switch[k].live /\ switch[k].range = range}
Covers(range, d) == range[1] <= d /\ d <= range[2]
Unended == {k \in DOMAIN shifts : shifts[k].to = None}
Marks(x, stale) == outdated' = IF stale THEN outdated \cup {x} ELSE outdated
----------------------------------------------------------------------------
\* Only the subject of the behaviour has rows to begin with.
Init ==
  /\ topic \in Topics /\ today = 0
  /\ change = [c \in Change |-> [status |-> "NONE", kind |-> "ONE_TIME", shift |-> None]]
  /\ shifts \in {<< >>} \cup
       {<<[shift |-> s, from |-> 0, to |-> None]>> : s \in {x \in Shift : topic = "shift"}}
  /\ switch = << >>
  /\ home = [on |-> FALSE, asked |-> [d \in Day |-> "NONE"]]
  /\ latest = None /\ posted = [r \in Ranges |-> None] /\ muddled = FALSE
  /\ team \in {b \in BOOLEAN : b => topic = "report"}
  /\ report = [status |-> "NONE", deleted |-> FALSE]
  /\ case = [c \in Case |-> "NONE"]
  /\ day \in {s \in {"nothing", "other"} : s = "nothing" \/ topic = "day"}
  /\ outdated = {} /\ refused = FALSE
  /\ req = [w \in Request |-> Free]

\* Only shifts and days at home ask what day it is.
NextDay ==
  /\ topic \in {"shift", "home"} /\ today < LastDay /\ today' = today + 1
  /\ UNCHANGED <<topic, change, shifts, switch, home, latest, posted, muddled, reportVars, req>>

\* ShiftChangeRequestView.post.
AskChange(c, kind, s) ==
  /\ topic = "shift" /\ change[c].status = "NONE"
  /\ change' = [change EXCEPT ![c] = [status |-> "PENDING", kind |-> kind, shift |-> s]]
  /\ UNCHANGED <<topic, today, shifts, switch, home, latest, posted, muddled, reportVars, req>>

\* ShiftChangeRequestReviewView.post, to the save of the decision.
Review(w, c, decision) ==
  /\ At(w, "Idle") /\ change[c].status # "NONE"
  /\ change' = [change EXCEPT ![c].status = decision]
  /\ Becomes(w, IF decision = "APPROVED" /\ change[c].kind = "PERMANENT"
                THEN [pc |-> "Close", change |-> c] ELSE Free)
  /\ muddled' = (muddled \/ ~ Alone(w))
  /\ UNCHANGED <<topic, today, shifts, switch, home, latest, posted, reportVars>>

\* Seeded fault: the assignment that began last is ended, and no other.
CloseLatest(w) ==
  /\ At(w, "Close")
  /\ shifts' = [k \in DOMAIN shifts |->
       IF k \in Unended \cap ShiftsOn(today) /\ shifts[k].from < today
       THEN [shifts[k] EXCEPT !.to = today] ELSE shifts[k]]
  /\ Becomes(w, [req[w] EXCEPT !.pc = "Assign"])
  /\ UNCHANGED <<topic, today, change, switch, home, latest, posted, muddled, reportVars>>

\* The assignments without an end end today ...
Close(w) ==
  /\ At(w, "Close")
  /\ shifts' = [k \in DOMAIN shifts |->
       IF k \in Unended THEN [shifts[k] EXCEPT !.to = today] ELSE shifts[k]]
  /\ Becomes(w, [req[w] EXCEPT !.pc = "Assign"])
  /\ UNCHANGED <<topic, today, change, switch, home, latest, posted, muddled, reportVars>>

\* ... and one without an end begins.
Assign(w) ==
  LET s == change[req[w].change].shift
  IN /\ At(w, "Assign") /\ Len(shifts) < MaxRows
     /\ shifts' = Append(shifts, [shift |-> s, from |-> today, to |-> None])
     /\ latest' = <<s, today>>
     /\ Becomes(w, Free)
     /\ UNCHANGED <<topic, today, change, switch, home, posted, muddled, reportVars>>

\* EmployeeShiftView.post: HR assigns a shift.
Post(s, from, to) ==
  /\ topic = "shift" /\ Len(shifts) < MaxRows
  /\ shifts' = Append(shifts, [shift |-> s, from |-> from, to |-> to])
  /\ muddled' = TRUE
  /\ UNCHANGED <<topic, today, change, switch, home, latest, posted, reportVars, req>>

\* EmployeeShiftView.patch: the row is loaded, and every column is saved.
PatchLoad(w, k) ==
  /\ At(w, "Idle") /\ topic = "shift" /\ k \in DOMAIN shifts
  /\ Becomes(w, [pc |-> "Patch", k |-> k, row |-> shifts[k]])
  /\ UNCHANGED <<topic, shiftVars, reportVars>>

PatchSave(w, s, to) ==
  /\ At(w, "Patch")
  /\ shifts' = [shifts EXCEPT ![req[w].k] = [req[w].row EXCEPT !.shift = s, !.to = to]]
  /\ muddled' = TRUE
  /\ Becomes(w, Free)
  /\ UNCHANGED <<topic, today, change, switch, home, latest, posted, reportVars>>

\* AttendanceClockInEnableView.post: the live rows of the range, one of
\* which is kept.
SwitchLoad(w, range, on, keep) ==
  /\ At(w, "Idle") /\ topic = "switch"
  /\ keep \in LiveRows(range) \/ (LiveRows(range) = {} /\ keep = 0)
  /\ Becomes(w, [pc |-> "Tidy", range |-> range, on |-> on, keep |-> keep,
                 others |-> LiveRows(range) \ {keep}])
  /\ muddled' = ~ Alone(w) /\ posted' = [posted EXCEPT ![range] = None]
  /\ UNCHANGED <<topic, today, change, shifts, switch, home, latest, reportVars>>

\* Seeded fault: duplicates of the row are left where they are.
SwitchTidyNone(w) ==
  /\ At(w, "Tidy") /\ Becomes(w, [req[w] EXCEPT !.pc = "Switch"])
  /\ UNCHANGED <<topic, shiftVars, reportVars>>

\* The others that were seen are deleted, ...
SwitchTidy(w) ==
  /\ At(w, "Tidy") /\ Becomes(w, [req[w] EXCEPT !.pc = "Switch"])
  /\ switch' = [k \in DOMAIN switch |->
       IF k \in req[w].others THEN [switch[k] EXCEPT !.live = FALSE] ELSE switch[k]]
  /\ UNCHANGED <<topic, today, change, shifts, home, latest, posted, muddled, reportVars>>

\* ... and the one is set, deleted by now or not, or a first one is made.
SwitchSave(w) ==
  /\ At(w, "Switch")
  /\ IF req[w].keep = 0
     THEN /\ Len(switch) < MaxRows
          /\ switch' = Append(switch, [range |-> req[w].range, on |-> req[w].on, live |-> TRUE])
     ELSE switch' = [switch EXCEPT ![req[w].keep].on = req[w].on]
  /\ posted' = [posted EXCEPT ![req[w].range] = IF muddled THEN None ELSE req[w].on]
  /\ Becomes(w, Free)
  /\ UNCHANGED <<topic, today, change, shifts, home, latest, muddled, reportVars>>

\* Seeded fault: a day of the range is asked about by its first day.
AllowedByFirst(d) ==
  \E k \in DOMAIN switch : switch[k].live /\ switch[k].on /\ switch[k].range[1] = d

\* is_clockin_allowed_for_no_shift: any enabled row that covers the day.
Allowed(d) ==
  \E k \in DOMAIN switch : switch[k].live /\ switch[k].on /\ Covers(switch[k].range, d)

\* WFHSettingView.post and WFHRequestView.post.
AllowHome(on) ==
  /\ topic = "home" /\ home' = [home EXCEPT !.on = on]
  /\ UNCHANGED <<topic, today, change, shifts, switch, latest, posted, muddled, reportVars, req>>

AskHome(d) ==
  /\ topic = "home" /\ home.on /\ d > today /\ home.asked[d] = "NONE"
  /\ home' = [home EXCEPT !.asked[d] = "PENDING"]
  /\ UNCHANGED <<topic, today, change, shifts, switch, latest, posted, muddled, reportVars, req>>

\* WFHRequestReviewView.post.
ReviewHome(d, decision) ==
  /\ home.asked[d] # "NONE"
  /\ home' = [home EXCEPT !.asked[d] = decision]
  /\ UNCHANGED <<topic, today, change, shifts, switch, latest, posted, muddled, reportVars, req>>

\* Seeded fault: any report that is there makes room for the new one.
SubmitLoadAny(w) ==
  /\ At(w, "Idle") /\ topic = "report"
  /\ Becomes(w, [pc |-> IF report.status # "NONE" /\ ~ report.deleted THEN "Drop" ELSE "Submit",
                 saw |-> report.status])
  /\ UNCHANGED <<topic, reportVars, shiftVars>>

\* AttendanceMonthlyReportView.post, up to the look for an existing report:
\* there is none, or a rejected one.
SubmitLoad(w) ==
  /\ At(w, "Idle") /\ topic = "report"
  /\ report.status \in {"NONE", "REJECTED"} \/ report.deleted
  /\ Becomes(w, [pc |-> IF report.status = "REJECTED" /\ ~ report.deleted THEN "Drop" ELSE "Submit",
                 saw |-> report.status])
  /\ UNCHANGED <<topic, reportVars, shiftVars>>

\* The rejected report is soft-deleted in a commit of its own.
Drop(w) ==
  /\ At(w, "Drop")
  /\ report' = [report EXCEPT !.deleted = TRUE]
  /\ Becomes(w, [pc |-> "Submit"])
  /\ Marks("report", report.status # req[w].saw)
  /\ UNCHANGED <<topic, team, case, day, refused, shiftVars>>

\* The new one is created if the month has no row, deleted or not: the key
\* is (manager, year, month).  For a manager without a team the summary
\* fails before that.
Submit(w) ==
  /\ At(w, "Submit") /\ Becomes(w, Free)
  /\ IF team /\ report.status = "NONE"
     THEN report' = [status |-> "PENDING", deleted |-> FALSE] /\ UNCHANGED refused
     ELSE refused' = (refused \/ report.deleted) /\ UNCHANGED report
  /\ UNCHANGED <<topic, team, case, day, outdated, shiftVars>>

\* Seeded fault: the row may have any status.
ReportLoadAny(w, decision) ==
  /\ At(w, "Idle") /\ report.status # "NONE" /\ ~ report.deleted
  /\ Becomes(w, [pc |-> "Decide", as |-> decision, saw |-> report.status])
  /\ UNCHANGED <<topic, reportVars, shiftVars>>

\* AttendanceMonthlyReportReviewView.post: PENDING is read ...
ReportLoad(w, decision) ==
  /\ At(w, "Idle") /\ report.status = "PENDING" /\ ~ report.deleted
  /\ Becomes(w, [pc |-> "Decide", as |-> decision, saw |-> report.status])
  /\ UNCHANGED <<topic, reportVars, shiftVars>>

\* ... and the decision saved.
ReportDecide(w) ==
  /\ At(w, "Decide")
  /\ report' = [report EXCEPT !.status = req[w].as]
  /\ Becomes(w, Free)
  /\ Marks("report", report.status # req[w].saw)
  /\ UNCHANGED <<topic, team, case, day, refused, shiftVars>>

\* AttendanceRegularizationView.post.
AskDay(c) ==
  /\ topic = "day" /\ case[c] = "NONE"
  /\ case' = [case EXCEPT ![c] = "PENDING"]
  /\ UNCHANGED <<topic, team, report, day, outdated, refused, shiftVars, req>>

\* AttendanceRegularizationReviewView.post: PENDING is read, ...
CaseLoad(w, c, decision) ==
  /\ At(w, "Idle") /\ case[c] = "PENDING"
  /\ Becomes(w, [pc |-> "Save", case |-> c, as |-> decision])
  /\ UNCHANGED <<topic, reportVars, shiftVars>>

\* ... the decision is saved, ...
CaseSave(w) ==
  LET c == req[w].case
  IN /\ At(w, "Save")
     /\ case' = [case EXCEPT ![c] = req[w].as]
     /\ Marks(c, case[c] # "PENDING")
     /\ Becomes(w, IF req[w].as = "APPROVED" THEN [pc |-> "Record", case |-> c] ELSE Free)
     /\ UNCHANGED <<topic, team, report, day, refused, shiftVars>>

\* Seeded fault: the day is changed only if it had no row.
RecordNew(w) ==
  /\ At(w, "Record") /\ Becomes(w, Free)
  /\ day' = IF day = "nothing" THEN req[w].case ELSE day
  /\ UNCHANGED <<topic, team, report, case, outdated, refused, shiftVars>>

\* ... and what was approved is made, or written over, the day's row.
Record(w) ==
  /\ At(w, "Record") /\ Becomes(w, Free)
  /\ day' = req[w].case
  /\ UNCHANGED <<topic, team, report, case, outdated, refused, shiftVars>>

\* The request's worker dies; an approval that was not recorded stays so.
Die(w) ==
  /\ ~ At(w, "Idle") /\ Becomes(w, Free)
  /\ muddled' = TRUE
  /\ Marks(IF At(w, "Record") THEN req[w].case ELSE None, At(w, "Record"))
  /\ UNCHANGED <<topic, today, change, shifts, switch, home, latest, posted,
                 team, report, case, day, refused>>

ShiftChanges ==
  \/ NextDay
  \/ \E c \in Change, kind \in {"ONE_TIME", "PERMANENT"}, s \in Shift : AskChange(c, kind, s)
  \/ \E w \in Request, c \in Change, decision \in Decision : Review(w, c, decision)
  \/ \E w \in Request : Close(w) \/ Assign(w)
  \/ \E s \in Shift, to \in HandEnds : Post(s, today, to)
  \/ \E w \in Request, k \in 1..MaxRows : PatchLoad(w, k)
  \/ \E w \in Request, s \in Shift, to \in HandEnds : PatchSave(w, s, to)

Switches ==
  \/ \E w \in Request, r \in Ranges, on \in BOOLEAN, keep \in 0..MaxRows :
       SwitchLoad(w, r, on, keep)
  \/ \E w \in Request : SwitchTidy(w) \/ SwitchSave(w)
  \/ \E on \in BOOLEAN : AllowHome(on)
  \/ \E d \in Day : AskHome(d)
  \/ \E d \in Day, decision \in Decision : ReviewHome(d, decision)

Reports ==
  \/ \E w \in Request : SubmitLoad(w) \/ Drop(w) \/ Submit(w) \/ ReportDecide(w)
  \/ \E w \in Request, decision \in Decision : ReportLoad(w, decision)
  \/ \E c \in Case : AskDay(c)
  \/ \E w \in Request, c \in Case, decision \in Decision : CaseLoad(w, c, decision)
  \/ \E w \in Request : CaseSave(w) \/ Record(w)

Next == ShiftChanges \/ Switches \/ Reports \/ \E w \in Request : Die(w)

Spec == Init /\ [][Next]_vars
----------------------------------------------------------------------------
\* Rows are well-formed, and a report that was deleted had been made.
TypeOK ==
  /\ today \in Day
  /\ change \in [Change -> [status : {"NONE", "PENDING"} \cup Decision,
                            kind : {"ONE_TIME", "PERMANENT"}, shift : Shift \cup {None}]]
  /\ \A k \in DOMAIN shifts : shifts[k] \in [shift : Shift, from : Day, to : Day \cup {None}]
  /\ \A k \in DOMAIN switch : switch[k] \in [range : Ranges, on : BOOLEAN, live : BOOLEAN]
  /\ home \in [on : BOOLEAN, asked : [Day -> {"NONE", "PENDING"} \cup Decision]]
  /\ report \in [status : {"NONE", "PENDING"} \cup Decision, deleted : BOOLEAN]
  /\ report.deleted => report.status # "NONE"
  /\ case \in [Case -> {"NONE", "PENDING"} \cup Decision]
  /\ day \in {"nothing", "other"} \cup Case

\* However often requests are approved, rejected and approved again, one
\* after the other, the employee has one assignment without an end, and from
\* the day after on the shift is that of the last approval.
LastApprovalRules ==
  latest # None /\ ~ muddled /\ (\A w \in Request : At(w, "Idle")) =>
    /\ Cardinality(Unended) = 1
    /\ today > latest[2] => {shifts[k].shift : k \in ShiftsOn(today)} = {latest[1]}

\* A request to the switch that overlaps no other is obeyed for the dates it
\* names, even where earlier ones that did overlap left two rows behind: what
\* it turns on may clock in, and a day it turns off may only where a row of
\* other dates is on.  A day turned off inside an enabled week stays on, for
\* the request looks at rows of the very same dates and the clock at any that
\* cover the day (attendance/views.py 1966-1990, 2165-2172).
SwitchIsObeyed ==
  \A d \in Day :
    LET naming == {r \in Ranges : Covers(r, d)}
    IN  /\ (\E r \in naming : posted[r] = TRUE) => Allowed(d)
        /\ Allowed(d) => \E r \in naming :
             posted[r] \in {TRUE, None} /\ \E k \in LiveRows(r) : switch[k].on

\* An approved report is never withdrawn by the manager nor decided again,
\* except by a request that read it before the decision.
ApprovedReportStays ==
  [][report.status = "APPROVED" /\ ~ report.deleted =>
       report' = report \/ "report" \in outdated']_vars

\* The day says what a case asked for only if the case is approved, and an
\* approved case, once its review is over, has been written or was followed
\* by another that was, unless its review died or it was decided twice.
ApprovedIsOnTheDay ==
  /\ \A c \in Case : day = c /\ c \notin outdated => case[c] = "APPROVED"
  /\ (\A w \in Request : ~ At(w, "Record")) =>
       \A c \in Case \ outdated : case[c] = "APPROVED" => day \in Case

\* "Allow resubmission if previously rejected": a manager whose report was
\* rejected and who submits another has one.
Resubmitted == team => ~ refused
=============================================================================
