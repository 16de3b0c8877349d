------------------------------ MODULE Audience ------------------------------
(***************************************************************************)
(* Whom the notification engine tells, against who may decide.  The engine *)
(* looks up the chart, the projects and the groups when the worker gets to *)
(* the event, the views look them up when somebody decides; both see the   *)
(* tables of this module.                                                  *)
(***************************************************************************)
EXTENDS Integers, FiniteSets

CONSTANTS Emp, Project, Nobody,
          Who,         \* the employee who asks for leave and submits the week
          MaxEdits     \* bound on the changes of a behaviour

VARIABLES manager,     \* Employee.manager of Who
          active,      \* is_active and not is_deleted
          group,       \* keycloak_group, or the flag is_manager or is_pmo
          projectMan,  \* Project.manager
          dropped,     \* projects with is_deleted
          allocated,   \* projects Who has an active allocation on
          logged,      \* projects of the work logs of his week
          approver,    \* ReimbursementConfig.approver
          edits

vars == <<manager, active, group, projectMan, dropped, allocated, logged, approver, edits>>

Groups == {"employee", "hr", "finance", "manager", "pmo"}

TypeOK ==
    /\ manager \in Emp \cup {Nobody} /\ approver \in Emp \cup {Nobody}
    /\ active \subseteq Emp /\ group \in [Emp -> Groups]
    /\ projectMan \in [Project -> Emp \cup {Nobody}]
    /\ dropped \subseteq Project /\ allocated \subseteq Project /\ logged \subseteq Project
    /\ edits \in 0 .. MaxEdits

Init ==
    /\ manager = Nobody /\ approver = Nobody /\ active = Emp
    /\ group = [e \in Emp |-> "employee"]
    /\ projectMan = [p \in Project |-> Nobody]
    /\ dropped = {} /\ allocated = {} /\ logged = {}
    /\ edits = 0

-----------------------------------------------------------------------------
(* The tables change: accounts, projects, allocations, work logs.           *)

Edit == edits < MaxEdits /\ edits' = edits + 1

SetManager(m) ==
    /\ Edit /\ manager' = m
    /\ UNCHANGED <<active, group, projectMan, dropped, allocated, logged, approver>>
Leave(e) ==
    /\ Edit /\ e \in active \ {Who} /\ active' = active \ {e}
    /\ UNCHANGED <<manager, group, projectMan, dropped, allocated, logged, approver>>
SetGroup(e, g) ==
    /\ Edit /\ group' = [group EXCEPT ![e] = g]
    /\ UNCHANGED <<manager, active, projectMan, dropped, allocated, logged, approver>>
SetProjectManager(p, m) ==
    /\ Edit /\ projectMan' = [projectMan EXCEPT ![p] = m]
    /\ UNCHANGED <<manager, active, group, dropped, allocated, logged, approver>>
Drop(p) ==
    /\ Edit /\ dropped' = dropped \cup {p}
    /\ UNCHANGED <<manager, active, group, projectMan, allocated, logged, approver>>
Allocate(p) ==
    /\ Edit /\ p \notin dropped /\ allocated' = allocated \cup {p}
    /\ UNCHANGED <<manager, active, group, projectMan, dropped, logged, approver>>
Log(p) ==
    /\ Edit /\ p \in allocated /\ logged' = logged \cup {p}
    /\ UNCHANGED <<manager, active, group, projectMan, dropped, allocated, approver>>
SetApprover(e) ==
    /\ Edit /\ approver' = e
    /\ UNCHANGED <<manager, active, group, projectMan, dropped, allocated, logged>>

Next ==
    \/ \E m \in (Emp \ {Who}) \cup {Nobody} : SetManager(m)
    \/ \E e \in Emp : Leave(e) \/ SetApprover(e) \/ \E g \in Groups : SetGroup(e, g)
    \/ \E p \in Project : \/ Drop(p) \/ Allocate(p) \/ Log(p)
                          \/ \E m \in Emp : SetProjectManager(p, m)

Spec == Init /\ [][Next]_vars

-----------------------------------------------------------------------------
(* The helpers of recipients.py.                                            *)

HrEmployees == {e \in active : group[e] = "hr"}
FinanceEmployees == {e \in active : group[e] \in {"finance", "pmo"}}
ManagersAndPmo == {e \in active : group[e] \in {"manager", "pmo"}}

\* Seeded fault: whoever the manager is.
TimesheetReviewersOnceThere ==
    ({manager} \cup {projectMan[p] : p \in logged}) \ {Nobody}

\* The managers of the projects of the logs, and the reporting manager.
TimesheetReviewers ==
    ({manager} \cup {projectMan[p] : p \in logged}) \cap active

-----------------------------------------------------------------------------
(* resolve_recipients.                                                      *)

\* recipient_ids were given: those of them who are still there.
TellThese(who, actor) == (who \cap active) \ {actor}

TellOfTimesheet(actor) == TimesheetReviewers \ {actor}

\* Seeded fault: the fallback is told in any case.
TellOfLeaveWidely(actor) ==
    (({manager} \ {Nobody}) \cup ({projectMan[p] : p \in allocated} \cap active)
        \cup ManagersAndPmo) \ {actor}

\* The reporting manager, active or not, and the active managers of projects;
\* managers and PMO when there is neither.
TellOfLeave(actor) ==
    LET own == {manager} \ {Nobody}
        pms == {projectMan[p] : p \in allocated} \cap active
    IN  (IF own \cup pms = {} THEN ManagersAndPmo ELSE own \cup pms) \ {actor}

TellOfClaim(actor) ==
    (({approver} \cap active) \cup HrEmployees \cup FinanceEmployees \cup ManagersAndPmo)
        \ {actor}

TellOfOnboarding(actor) == (HrEmployees \cup ManagersAndPmo) \ {actor}
TellOfMoney == FinanceEmployees
TellOfPost == active

\* project.allocation: the employee and the manager of the project.
TellOfAllocation(p, actor) == ({Who, projectMan[p]} \cap active) \ {actor}

-----------------------------------------------------------------------------
(* Who may decide.                                                          *)

\* can_review_timesheet, of those who hold no permission: deleted projects do
\* not count as managed.
MayReviewWeek(e) ==
    \/ \E p \in logged \ dropped : projectMan[p] = e
    \/ manager = e

\* LeaveReviewView, of those outside HR and the chart above the manager.
MayReviewLeave(e) ==
    /\ e # Who
    /\ \/ manager = e
       \/ \E p \in allocated : projectMan[p] = e
       \/ manager = Nobody

-----------------------------------------------------------------------------
\* Whoever is told of a week or of a leave request may decide on it, except the
\* manager of a deleted project, who is told of weeks only (recipients.py:26-47
\* against services.py:547-574 and views.py:1181-1217 of the leave app).
ToldMayDecide ==
    /\ \A e \in TellOfTimesheet(Who) :
           MayReviewWeek(e) \/ \E p \in logged \cap dropped : projectMan[p] = e
    /\ \A e \in TellOfLeave(Who) : MayReviewLeave(e)

\* Only employees who are there are told, except a manager who has left and is
\* still entered: a leave request may then reach nobody else (engine.py:139-160).
TheRightAreTold ==
    /\ TellThese(Emp, Who) \cup TellOfTimesheet(Who) \cup TellOfClaim(Who)
         \cup TellOfOnboarding(Who) \cup TellOfMoney
         \cup UNION {TellOfAllocation(p, Who) : p \in Project} \subseteq TellOfPost
    /\ TellOfLeave(Who) \ {manager} \subseteq active
    /\ \A e \in active \ {Who} :
           /\ (manager = e \/ \E p \in logged : projectMan[p] = e) => e \in TellOfTimesheet(Who)
           /\ (manager = e \/ \E p \in allocated : projectMan[p] = e) => e \in TellOfLeave(Who)
           /\ approver = e => e \in TellOfClaim(Who)
    /\ (manager = Nobody /\ ManagersAndPmo \ {Who} # {}
          /\ \A p \in allocated : projectMan[p] \notin active)
             => TellOfLeave(Who) \cap active # {}
=============================================================================
