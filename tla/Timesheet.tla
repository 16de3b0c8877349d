----------------------------- MODULE Timesheet -----------------------------
(***************************************************************************)
(* One employee's weekly timesheets and the work logs on them              *)
(* (apps/timesheets, apps/workitems).                                      *)
(*                                                                         *)
(* Creating or changing a work log is one transaction of several           *)
(* statements at READ COMMITTED: it sees what others have committed, its   *)
(* own writes appear when it commits, and an UPDATE of a row another       *)
(* transaction has written waits for that transaction.  get_or_create_     *)
(* weekly_timesheet always ends in an UPDATE of the sheet, which is how a  *)
(* work log being created comes to hold the sheet's row lock.  Views,      *)
(* copies, submissions and reviews commit each statement on its own.       *)
(***************************************************************************)
EXTENDS Integers, FiniteSets, FiniteSetsExt

CONSTANTS
  Request,      \* the server's request threads
  Log,          \* WorkLog rows that may come to exist
  DaysPerWeek,  \* 7; the models use shorter weeks
  LastWeek,     \* the model's calendar is the weeks 1..LastWeek
  Hours,        \* the hours one entry may have
  MayLog,       \* the (log, day) pairs validate_work_log accepts
  OpenDays,     \* the days validate_attendance_for_log accepts
  Reviewer,     \* people other than the employee holding timesheet.approve
  Trusted,      \* reviewers who are staff or the reporting manager
  Manages       \* Reviewer -> the logs on projects they manage

ASSUME TimesheetAssumption ==
  /\ DaysPerWeek \in Nat \ {0} /\ LastWeek \in Nat \ {0}
  /\ IsFiniteSet(Log)
  /\ Hours \subseteq Nat \ {0}
  /\ MayLog \subseteq Log \X OpenDays
  /\ OpenDays \subseteq 1..(LastWeek * DaysPerWeek)
  /\ Trusted \subseteq Reviewer
  /\ Manages \in [Reviewer -> SUBSET Log]

VARIABLES
  sheet,     \* Week -> WeeklyTimesheet: status, total_hours, last review log
  log,       \* Log -> WorkLog: state, log_date, hours, weekly_timesheet (0: null)
  thisWeek,  \* the week of date.today()
  req,       \* what each request thread is doing
  late,      \* threads whose check of a sheet's status, or whose copy of a log,
             \* another has outdated
  behind,    \* threads whose sum of a sheet's hours another has outdated
  raced,     \* sheets whose status was saved from an outdated check
  drifted,   \* sheets whose total_hours was left or written out of date
  unaudited  \* sheets whose review logs came out of order, or not at all

vars == <<sheet, log, thisWeek, req, late, behind, raced, drifted, unaudited>>

Week == 1..LastWeek
Day == 1..(LastWeek * DaysPerWeek)
WeekOf(d) == ((d - 1) \div DaysPerWeek) + 1
Editable == {"DRAFT", "REJECTED"}
Closed == {"SUBMITTED", "APPROVED"}
Actions == [SUBMITTED |-> {"SUBMIT"}, APPROVED |-> {"APPROVE"},
            REJECTED |-> {"REJECT", "REQUEST_CHANGES"}]
Entry == [state : {"LIVE"}, day : Day, hours : Hours, week : 0..LastWeek]
NoLog == [state |-> "NONE", day |-> 1, hours |-> 0, week |-> 0]

At(w, pc) == req[w].pc = pc
Becomes(w, r) == req' = [req EXCEPT ![w] = r]
Done(w) == Becomes(w, [pc |-> "Idle"])

\* Threads between a check of sheet k's status and the write it allows, and
\* threads about to write a sum of its hours.
InChecked == {"Lock", "Save", "Total", "Link", "Commit", "SaveStatus", "CopyFound", "CopyLink"}
InSummed == {"View", "Total", "Commit", "CopyOpen", "CopyFound", "CopyTotal"}
Checked(k) == {w \in Request : req[w].pc \in InChecked /\ req[w].week = k}
Summed(k) == {w \in Request : req[w].pc \in InSummed /\ req[w].week = k}

\* Threads that have log l in memory and will write it.
Holding(l) == {w \in Request : /\ req[w].pc \in {"Save", "CopyFind", "CopyFound", "CopyLink"}
                               /\ req[w].log = l}

\* The transaction holding sheet k's row lock, and those holding log l's.
Locked(k) == \E w \in Request : req[w].pc \in {"Link", "Commit"} /\ req[w].week = k
LogLocked(l) == \E w \in Request : /\ req[w].pc \in {"Total", "Find", "Lock", "Link", "Commit"}
                                   /\ req[w].log = l
Reserved(l) == \E w \in Request : /\ req[w].pc \in {"Lock", "Link", "Commit"}
                                  /\ req[w].log = l

OnSheet(k) == {l \in Log : log[l].state = "LIVE" /\ log[l].week = k}
HoursOf(L) == MapThenSumSet(LAMBDA l : log[l].hours, L)

\* Seeded fault: the entry is taken off instead of added.
HoursWithout(k, l, e) == HoursOf(OnSheet(k)) - e.hours

\* Sum("hours") over the sheet's logs as a transaction that has written row e
\* of log l sees it.
HoursWith(k, l, e) ==
  HoursOf(OnSheet(k) \ {l}) + IF e.week = k THEN e.hours ELSE 0

\* The sheets whose hours change when log l is written back on sheet k.
Touched(l, k) == {log[l].week, k} \ {0}

\* Thread w writes n as the total of sheet k, in a commit that changes the hours
\* of the sheets in J: what others have summed of those is out of date.
WritesTotal(w, k, n, J) ==
  /\ sheet' = [sheet EXCEPT ![k].total = n,
                            ![k].status = IF sheet[k].status = "NONE" THEN "DRAFT" ELSE @]
  /\ drifted' = (drifted \ {k}) \cup (J \ {k}) \cup IF w \in behind THEN {k} ELSE {}
  /\ behind' = (behind \cup UNION {Summed(j) : j \in J}) \ {w}
----------------------------------------------------------------------------
Init ==
  /\ sheet = [k \in Week |-> [status |-> "NONE", total |-> 0, last |-> "NONE"]]
  /\ log = [l \in Log |-> NoLog]
  /\ thisWeek = 1
  /\ req = [w \in Request |-> [pc |-> "Idle"]]
  /\ late = {} /\ behind = {} /\ raced = {} /\ drifted = {} /\ unaudited = {}

\* assert_current_week_only.
InCurrentWeek(d) == WeekOf(d) = thisWeek

\* WorkLogCreateSerializer.validate, up to the SELECT of the week's sheet.
CreateCheck(w, l, d, h) ==
  /\ At(w, "Idle") /\ log[l].state = "NONE" /\ ~ Reserved(l)
  /\ InCurrentWeek(d) /\ <<l, d>> \in MayLog
  /\ sheet[WeekOf(d)].status \notin Closed
  /\ Becomes(w, [pc |-> "Lock", log |-> l, week |-> WeekOf(d),
                 fresh |-> sheet[WeekOf(d)].status = "NONE",
                 row |-> [state |-> "LIVE", day |-> d, hours |-> h, week |-> WeekOf(d)]])
  /\ UNCHANGED <<sheet, log, thisWeek, late, behind, raced, drifted, unaudited>>

\* The INSERT or UPDATE that ends get_or_create_weekly_timesheet waits for the
\* row; an INSERT that comes second fails on unique (employee, week_start).
LinkLock(w) ==
  /\ At(w, "Lock")
  /\ LET r == req[w]
     IN /\ ~ Locked(r.week)
        /\ IF r.fresh /\ sheet[r.week].status # "NONE"
           THEN Done(w) /\ late' = late \ {w}
           ELSE /\ Becomes(w, [r EXCEPT !.pc = "Link"]) /\ UNCHANGED late
  /\ UNCHANGED <<sheet, log, thisWeek, behind, raced, drifted, unaudited>>

\* Seeded fault: the status is not looked at again once the row is locked.
LinkTrustsCheck(w) == TRUE

\* A create runs get_or_create_weekly_timesheet a second time, under the lock
\* its first run took; an update of an unlinked log has only the one run.
LinkAllowed(w) ==
  log[req[w].log].state = "NONE" => sheet[req[w].week].status \notin Closed

\* link_work_log_to_week: the status again, the link, the sum.
LinkSum(w) ==
  /\ At(w, "Link")
  /\ LET r == req[w]
     IN IF LinkAllowed(w)
        THEN /\ Becomes(w, [pc |-> "Commit", log |-> r.log, week |-> r.week, row |-> r.row,
                            sum |-> HoursWith(r.week, r.log, r.row)])
             /\ UNCHANGED late
        ELSE Done(w) /\ late' = late \ {w}
  /\ UNCHANGED <<sheet, log, thisWeek, behind, raced, drifted, unaudited>>

\* ... and the total, with which the transaction commits.
LinkCommit(w) ==
  /\ At(w, "Commit")
  /\ LET r == req[w]
     IN /\ log' = [log EXCEPT ![r.log] = r.row]
        /\ WritesTotal(w, r.week, r.sum, Touched(r.log, r.week))
  /\ late' = (late \cup Holding(req[w].log)) \ {w}
  /\ Done(w)
  /\ UNCHANGED <<thisWeek, raced, unaudited>>

\* Seeded fault: logging outside the current week is not refused.
UpdateLoadAnyWeek(w, l, d, h) ==
  /\ At(w, "Idle") /\ log[l].state = "LIVE"
  /\ <<l, d>> \in MayLog
  /\ log[l].week # 0 => sheet[log[l].week].status \notin Closed
  /\ Becomes(w, [pc |-> "Save", log |-> l, week |-> log[l].week,
                 row |-> [log[l] EXCEPT !.day = d, !.hours = h]])
  /\ UNCHANGED <<sheet, log, thisWeek, late, behind, raced, drifted, unaudited>>

\* Seeded fault: assert_week_editable is missing.
UpdateLoadClosed(w, l, d, h) ==
  /\ At(w, "Idle") /\ log[l].state = "LIVE"
  /\ InCurrentWeek(d) /\ <<l, d>> \in MayLog
  /\ Becomes(w, [pc |-> "Save", log |-> l, week |-> log[l].week,
                 row |-> [log[l] EXCEPT !.day = d, !.hours = h]])
  /\ UNCHANGED <<sheet, log, thisWeek, late, behind, raced, drifted, unaudited>>

\* A PATCH loads the log and the sheet it is on, not the sheet of its new day.
UpdateLoad(w, l, d, h) ==
  /\ At(w, "Idle") /\ log[l].state = "LIVE"
  /\ InCurrentWeek(d) /\ <<l, d>> \in MayLog
  /\ log[l].week # 0 => sheet[log[l].week].status \notin Closed
  /\ Becomes(w, [pc |-> "Save", log |-> l, week |-> log[l].week,
                 row |-> [log[l] EXCEPT !.day = d, !.hours = h]])
  /\ UNCHANGED <<sheet, log, thisWeek, late, behind, raced, drifted, unaudited>>

\* instance.save() of every column, then the sum; refresh_weekly_totals and
\* the commit follow, or the link of a log that is on no sheet.
UpdateSave(w) ==
  /\ At(w, "Save")
  /\ LET r == req[w]
     IN /\ ~ LogLocked(r.log)
        /\ Becomes(w, IF r.week # 0
                      THEN [pc |-> "Total", log |-> r.log, week |-> r.week, row |-> r.row,
                            sum |-> HoursWith(r.week, r.log, r.row)]
                      ELSE [pc |-> "Find", log |-> r.log, row |-> r.row])
  /\ UNCHANGED <<sheet, log, thisWeek, late, behind, raced, drifted, unaudited>>

\* Seeded fault: refresh_weekly_totals is forgotten.
UpdateTotalForgets(w) ==
  /\ At(w, "Total") /\ ~ Locked(req[w].week)
  /\ log' = [log EXCEPT ![req[w].log] = req[w].row]
  /\ WritesTotal(w, req[w].week, sheet[req[w].week].total,
                 Touched(req[w].log, req[w].week))
  /\ late' = (late \cup Holding(req[w].log)) \ {w}
  /\ Done(w)
  /\ UNCHANGED <<thisWeek, raced, unaudited>>

UpdateTotal(w) ==
  /\ At(w, "Total") /\ ~ Locked(req[w].week)
  /\ log' = [log EXCEPT ![req[w].log] = req[w].row]
  /\ WritesTotal(w, req[w].week, req[w].sum, Touched(req[w].log, req[w].week))
  /\ late' = (late \cup Holding(req[w].log)) \ {w}
  /\ Done(w)
  /\ UNCHANGED <<thisWeek, raced, unaudited>>

\* link_work_log_to_week of an unlinked log: the sheet of the log's day.
UpdateFind(w) ==
  /\ At(w, "Find")
  /\ LET r == req[w]
         k == WeekOf(r.row.day)
     IN IF sheet[k].status \in Closed THEN Done(w) /\ late' = late \ {w}
        ELSE /\ Becomes(w, [pc |-> "Lock", log |-> r.log, week |-> k,
                            fresh |-> sheet[k].status = "NONE",
                            row |-> [r.row EXCEPT !.week = k]])
             /\ UNCHANGED late
  /\ UNCHANGED <<sheet, log, thisWeek, behind, raced, drifted, unaudited>>

\* BaseModelViewSet.destroy soft-deletes the row and nothing else: DRF calls
\* the view set's perform_destroy, with its checks and its refresh, only from
\* the destroy this one replaces.
LogDelete(l) ==
  /\ log[l].state = "LIVE" /\ ~ LogLocked(l)
  /\ log' = [log EXCEPT ![l].state = "DELETED"]
  /\ IF log[l].week = 0 THEN UNCHANGED <<behind, drifted>>
     ELSE /\ behind' = behind \cup Summed(log[l].week)
          /\ drifted' = drifted \cup {log[l].week}
  /\ late' = late \cup Holding(l)
  /\ UNCHANGED <<sheet, thisWeek, req, raced, unaudited>>

\* get_or_create_weekly_timesheet outside a transaction: the row, created in
\* DRAFT when there is none, and the sum of its hours.
OpensSheet(k) ==
  IF sheet[k].status # "NONE" THEN UNCHANGED sheet
  ELSE ~ Locked(k) /\ sheet' = [sheet EXCEPT ![k].status = "DRAFT"]

\* MyTimesheetWeekView.get writes the total it has just summed.
ViewLoad(w, k) ==
  /\ At(w, "Idle") /\ OpensSheet(k)
  /\ Becomes(w, [pc |-> "View", week |-> k, sum |-> HoursOf(OnSheet(k))])
  /\ UNCHANGED <<log, thisWeek, late, behind, raced, drifted, unaudited>>

ViewSave(w) ==
  /\ At(w, "View") /\ ~ Locked(req[w].week)
  /\ WritesTotal(w, req[w].week, req[w].sum, {})
  /\ Done(w)
  /\ UNCHANGED <<log, thisWeek, late, raced, unaudited>>

\* copy_logs_from_date: the target's sheet must be editable ...
CopyStart(w, from, to) ==
  /\ At(w, "Idle") /\ InCurrentWeek(to) /\ OpensSheet(WeekOf(to))
  /\ Becomes(w, [pc |-> "CopyOpen", week |-> WeekOf(to), sum |-> HoursOf(OnSheet(WeekOf(to))),
                 from |-> from, to |-> to, open |-> sheet[WeekOf(to)].status \notin Closed])
  /\ UNCHANGED <<log, thisWeek, late, behind, raced, drifted, unaudited>>

\* ... and the source's logs are read.
CopyOpen(w) ==
  /\ At(w, "CopyOpen") /\ ~ Locked(req[w].week)
  /\ LET r == req[w]
     IN /\ WritesTotal(w, r.week, r.sum, {})
        /\ IF ~ r.open THEN Done(w)
           ELSE Becomes(w, [pc |-> "Copy", to |-> r.to,
                            todo |-> {<<l, log[l].hours>> :
                                       l \in {m \in Log : log[m].state = "LIVE"
                                                            /\ log[m].day = r.from}}])
  /\ UNCHANGED <<log, thisWeek, late, raced, unaudited>>

\* One log of the source: WorkLog.objects.create, on no sheet yet.
CopyCreate(w) ==
  /\ At(w, "Copy")
  /\ LET r == req[w]
     IN IF r.todo = {} \/ r.to \notin OpenDays THEN Done(w) /\ UNCHANGED log
        ELSE \E src \in r.todo, n \in Log :
               /\ log[n].state = "NONE" /\ ~ Reserved(n)
               /\ log' = [log EXCEPT ![n] = [state |-> "LIVE", day |-> r.to,
                                             hours |-> src[2], week |-> 0]]
               /\ Becomes(w, [pc |-> "CopyFind", log |-> n, to |-> r.to,
                              todo |-> r.todo \ {src}])
  /\ UNCHANGED <<sheet, thisWeek, late, behind, raced, drifted, unaudited>>

\* link_work_log_to_week(wl): get_or_create_weekly_timesheet again ...
CopyFind(w) ==
  /\ At(w, "CopyFind")
  /\ LET r == req[w]
         k == WeekOf(r.to)
     IN Becomes(w, [pc |-> "CopyFound", log |-> r.log, to |-> r.to, todo |-> r.todo, week |-> k,
                    sum |-> HoursOf(OnSheet(k)), open |-> sheet[k].status \notin Closed])
  /\ UNCHANGED <<sheet, log, thisWeek, late, behind, raced, drifted, unaudited>>

\* ... which raises, leaving the new log on no sheet, if the week was closed.
CopyFound(w) ==
  /\ At(w, "CopyFound") /\ ~ Locked(req[w].week)
  /\ LET r == req[w]
     IN /\ WritesTotal(w, r.week, r.sum, {})
        /\ IF r.open
           THEN /\ Becomes(w, [pc |-> "CopyLink", log |-> r.log, to |-> r.to, todo |-> r.todo,
                               week |-> r.week])
                /\ UNCHANGED late
           ELSE Done(w) /\ late' = late \ {w}
  /\ UNCHANGED <<log, thisWeek, raced, unaudited>>

\* work_log.save(update_fields=["weekly_timesheet"]).
CopyLink(w) ==
  /\ At(w, "CopyLink") /\ ~ LogLocked(req[w].log)
  /\ LET r == req[w]
     IN /\ log' = [log EXCEPT ![r.log].week = r.week]
        /\ behind' = behind \cup UNION {Summed(j) : j \in Touched(r.log, r.week)}
        /\ drifted' = drifted \cup (Touched(r.log, r.week) \ {r.week})
        /\ Becomes(w, [r EXCEPT !.pc = "CopySum"])
        /\ late' = (late \cup Holding(r.log)) \ {w}
  /\ UNCHANGED <<sheet, thisWeek, raced, unaudited>>

CopySum(w) ==
  /\ At(w, "CopySum")
  /\ LET r == req[w]
     IN Becomes(w, [pc |-> "CopyTotal", to |-> r.to, todo |-> r.todo, week |-> r.week,
                    sum |-> HoursOf(OnSheet(r.week))])
  /\ UNCHANGED <<sheet, log, thisWeek, late, behind, raced, drifted, unaudited>>

CopyTotal(w) ==
  /\ At(w, "CopyTotal") /\ ~ Locked(req[w].week)
  /\ WritesTotal(w, req[w].week, req[w].sum, {})
  /\ Becomes(w, [pc |-> "Copy", to |-> req[w].to, todo |-> req[w].todo])
  /\ UNCHANGED <<log, thisWeek, late, raced, unaudited>>

\* submit_timesheet, on the employee's own sheet of the current week.
SubmitLoad(w, k) ==
  /\ At(w, "Idle") /\ k = thisWeek /\ sheet[k].status \in Editable
  /\ Becomes(w, [pc |-> "SaveStatus", week |-> k, to |-> "SUBMITTED", relabel |-> FALSE])
  /\ UNCHANGED <<sheet, log, thisWeek, late, behind, raced, drifted, unaudited>>

\* can_review_timesheet: a manager of a project only while a log of it counts.
CanReview(r, k) == r \in Trusted \/ \E l \in OnSheet(k) : l \in Manages[r]

\* Seeded fault: the guard of reject_timesheet is missing.
ReviewLoadAny(w, k, r, to, relabel) ==
  /\ At(w, "Idle") /\ sheet[k].status \notin {"NONE", "DRAFT"} /\ CanReview(r, k)
  /\ relabel => to = "REJECTED"
  /\ Becomes(w, [pc |-> "SaveStatus", week |-> k, to |-> to, relabel |-> relabel])
  /\ UNCHANGED <<sheet, log, thisWeek, late, behind, raced, drifted, unaudited>>

\* approve_timesheet and reject_timesheet; RequestChangesView rejects and then
\* relabels the entry of the review log.  The bulk views do one after another.
ReviewLoad(w, k, r, to, relabel) ==
  /\ At(w, "Idle") /\ sheet[k].status = "SUBMITTED" /\ CanReview(r, k)
  /\ relabel => to = "REJECTED"
  /\ Becomes(w, [pc |-> "SaveStatus", week |-> k, to |-> to, relabel |-> relabel])
  /\ UNCHANGED <<sheet, log, thisWeek, late, behind, raced, drifted, unaudited>>

\* weekly.save(update_fields=["status", ...]) waits for a log being created.
StatusSave(w) ==
  /\ At(w, "SaveStatus") /\ ~ Locked(req[w].week)
  /\ LET k == req[w].week
     IN /\ sheet' = [sheet EXCEPT ![k].status = req[w].to]
        /\ raced' = IF w \in late THEN raced \cup {k} ELSE raced
        /\ late' = (late \cup Checked(k)) \ {w}
        /\ unaudited' = IF \E v \in Request : At(v, "Audit") /\ req[v].week = k
                        THEN unaudited \cup {k} ELSE unaudited
  /\ Becomes(w, [req[w] EXCEPT !.pc = "Audit"])
  /\ UNCHANGED <<log, thisWeek, behind, drifted>>

ActionFor(to) == CASE to = "SUBMITTED" -> "SUBMIT"
                   [] to = "APPROVED" -> "APPROVE"
                   [] to = "REJECTED" -> "REJECT"

\* TimesheetReviewLog.objects.create(...).
Audit(w) ==
  /\ At(w, "Audit")
  /\ sheet' = [sheet EXCEPT ![req[w].week].last = ActionFor(req[w].to)]
  /\ IF req[w].relabel THEN Becomes(w, [pc |-> "Relabel", week |-> req[w].week])
     ELSE Done(w)
  /\ UNCHANGED <<log, thisWeek, late, behind, raced, drifted, unaudited>>

\* Seeded fault: the latest entry is relabelled whatever it says.
RelabelsAny(action) == TRUE

\* if log and log.action == "REJECT".
Relabels(action) == action = "REJECT"

\* RequestChangesView relabels the sheet's latest entry, whoever wrote it.
Relabel(w) ==
  /\ At(w, "Relabel")
  /\ sheet' = IF Relabels(sheet[req[w].week].last)
              THEN [sheet EXCEPT ![req[w].week].last = "REQUEST_CHANGES"] ELSE sheet
  /\ Done(w)
  /\ UNCHANGED <<log, thisWeek, late, behind, raced, drifted, unaudited>>

NextWeek ==
  /\ thisWeek < LastWeek
  /\ thisWeek' = thisWeek + 1
  /\ UNCHANGED <<sheet, log, req, late, behind, raced, drifted, unaudited>>

\* A thread dies: a transaction is rolled back, anything else stays half done.
Die(w) ==
  /\ ~ At(w, "Idle")
  /\ drifted' = IF req[w].pc \in {"CopySum", "CopyTotal"}
                THEN drifted \cup {req[w].week} ELSE drifted
  /\ unaudited' = IF At(w, "Audit") THEN unaudited \cup {req[w].week} ELSE unaudited
  /\ late' = late \ {w} /\ behind' = behind \ {w}
  /\ Done(w)
  /\ UNCHANGED <<sheet, log, thisWeek, raced>>

Create(w) == \E l \in Log, d \in Day, h \in Hours : CreateCheck(w, l, d, h)
Update(w) ==
  \/ \E l \in Log, d \in Day, h \in Hours : UpdateLoad(w, l, d, h)
  \/ UpdateSave(w) \/ UpdateTotal(w) \/ UpdateFind(w)
Link(w) == LinkLock(w) \/ LinkSum(w) \/ LinkCommit(w)
View(w) == (\E k \in Week : ViewLoad(w, k)) \/ ViewSave(w)
Copy(w) ==
  \/ \E from, to \in Day : CopyStart(w, from, to)
  \/ CopyOpen(w) \/ CopyCreate(w) \/ CopyFind(w) \/ CopyFound(w)
  \/ CopyLink(w) \/ CopySum(w) \/ CopyTotal(w)
Review(w) ==
  \/ \E k \in Week : SubmitLoad(w, k)
  \/ \E k \in Week, r \in Reviewer, to \in {"APPROVED", "REJECTED"}, b \in BOOLEAN :
       ReviewLoad(w, k, r, to, b)
  \/ StatusSave(w) \/ Audit(w) \/ Relabel(w)

Handlers(w) == Create(w) \/ Update(w) \/ Link(w) \/ View(w) \/ Copy(w) \/ Review(w)
Next ==
  \/ \E w \in Request : Handlers(w) \/ Die(w)
  \/ \E l \in Log : LogDelete(l)
  \/ NextWeek

Spec == Init /\ [][Next]_vars
----------------------------------------------------------------------------
\* Sheets, logs and requests hold what their columns and variables allow.
TypeOK ==
  /\ sheet \in [Week -> [status : {"NONE", "DRAFT", "SUBMITTED", "APPROVED", "REJECTED"},
                         total : Nat,
                         last : {"NONE"} \cup UNION {Actions[s] : s \in DOMAIN Actions}]]
  /\ log \in [Log -> [state : {"NONE", "LIVE", "DELETED"}, day : Day,
                      hours : Hours \cup {0}, week : 0..LastWeek]]
  /\ thisWeek \in Week
  /\ late \cup behind \subseteq Request
  /\ raced \cup drifted \cup unaudited \subseteq Week

\* total_hours is what the logs on the sheet add up to, except while a copied
\* log is being counted, after a deletion, which never refreshes it, and after
\* a refresh that wrote a sum another request had overtaken
\* (refresh_weekly_totals).
TotalIsSum ==
  \A k \in Week :
    \/ sheet[k].total = HoursOf(OnSheet(k))
    \/ k \in drifted
    \/ \E w \in Request : req[w].pc \in {"CopySum", "CopyTotal"} /\ req[w].week = k

\* Submitting seals the sheet against new entries: a create that was validated
\* before the submission is refused or was on the sheet first, because its row
\* lock makes the submission wait (WorkLogCreateSerializer.create).
NoLateEntryStep ==
  \A l \in Log : log[l].state = "NONE" /\ log'[l].state = "LIVE" /\ log'[l].week # 0
     => sheet[log'[l].week].status \notin Closed
NoLateEntry == [][NoLateEntryStep]_vars

\* Nothing else changes the entries of a submitted or approved sheet either,
\* except a deletion, and a change or a copy whose check, or whose copy of the
\* entry, another request has outdated.
SealedUnlessRacedStep ==
  \A l \in Log, k \in Week :
     /\ sheet[k].status \in Closed
     /\ log'[l] # log[l]
     /\ k \in Touched(l, log'[l].week)
     => \/ log' = [log EXCEPT ![l].state = "DELETED"]
        \/ \E w \in late : req'[w] # req[w]
SealedUnlessRaced == [][SealedUnlessRacedStep]_vars

\* A sheet is submitted from DRAFT or REJECTED and decided from SUBMITTED, once,
\* except by a request whose check of the status another has outdated.
StatusMovesStep ==
  \A k \in Week : sheet'[k].status # sheet[k].status =>
     \/ k \in raced'
     \/ <<sheet[k].status, sheet'[k].status>> \in
          {<<"NONE", "DRAFT">>, <<"DRAFT", "SUBMITTED">>, <<"REJECTED", "SUBMITTED">>,
           <<"SUBMITTED", "APPROVED">>, <<"SUBMITTED", "REJECTED">>}
StatusMoves == [][StatusMovesStep]_vars

\* The latest entry of the review log says what the sheet's status says, once
\* the request that changed it is through, unless it died before writing the
\* entry or two changes of the same sheet overlapped.
AuditAgrees ==
  \A k \in Week :
    /\ sheet[k].status \in DOMAIN Actions /\ k \notin unaudited
    /\ ~ \E w \in Request : At(w, "Audit") /\ req[w].week = k
    => sheet[k].last \in Actions[sheet[k].status]

\* An entry never counts towards a sheet of a later week than its own day: it
\* may only lag behind, on the sheet it was first linked to.
NeverOnALaterSheet ==
  \A l \in Log : log[l].state = "LIVE" => log[l].week <= WeekOf(log[l].day)

\* Whoever is excused is in the middle of something: no request begins late or
\* behind.
ExcusesEnd == \A w \in late \cup behind : ~ At(w, "Idle")

\* Totals are sums of the right entries and the review log says what happened.
SheetAgrees ==
  TypeOK /\ TotalIsSum /\ AuditAgrees /\ NeverOnALaterSheet /\ ExcusesEnd

\* What is submitted stays as it was submitted, and is decided once.
Sealed == [][NoLateEntryStep /\ SealedUnlessRacedStep /\ StatusMovesStep]_vars

\* "Cannot modify logs on a submitted or approved timesheet."
\* (timesheets/services.py:410): served one at a time, no request changes the
\* entries of a closed sheet.
ClosedSheetsKeepLogs ==
  [][\A l \in Log :
       log[l].week # 0 /\ sheet[log[l].week].status \in Closed => log'[l] = log[l]]_vars
=============================================================================
