------------------------------ MODULE OrgChart ------------------------------
(***************************************************************************)
(* Who reports to whom.  An employee's manager is one nullable column that *)
(* an update may set to anybody, the employee included: nothing keeps the  *)
(* chart free of cycles.  Five pieces of the code walk it, each with its   *)
(* own way of ending: the reporting map of the leave app, the chain of     *)
(* managers of the leave and payroll apps, the level in the employee list, *)
(* the organisation tree and the head count of the employee dashboard.     *)
(***************************************************************************)
EXTENDS Integers, FiniteSets

CONSTANTS Emp, Nobody,
          Ceo,        \* the employee whose designation is CEO
          Lead,       \* the one manager of projects of the instance
          MaxLed,     \* bound on the employees on those projects
          MaxAsked    \* bound on the employees with a pending request

VARIABLES manager,    \* Employee.manager
          status,     \* Employee.status
          active,     \* employees with is_active
          led,        \* employees with an active allocation on a project of Lead
          pending     \* employees with a pending leave request

vars == <<manager, status, active, led, pending>>

TypeOK ==
    /\ manager \in [Emp -> Emp \cup {Nobody}]
    /\ status \in [Emp -> {"ACTIVE", "INACTIVE", "RESIGNED"}]
    /\ active \subseteq Emp /\ led \subseteq Emp /\ pending \subseteq Emp

Init ==
    /\ manager = [e \in Emp |-> Nobody]
    /\ status = [e \in Emp |-> "ACTIVE"]
    /\ active = Emp
    /\ led = {} /\ pending = {}

-----------------------------------------------------------------------------
(* The walks.                                                               *)

Reports(m) == {e \in active : manager[e] = m}

\* The breadth-first search over active employees; one round per n.
Found(m) ==
    LET round[n \in 0 .. Cardinality(Emp)] ==
          IF n = 0 THEN Reports(m)
          ELSE round[n - 1] \cup UNION {Reports(e) : e \in round[n - 1]}
    IN  round[Cardinality(Emp)]
ReportingLevel(m, e) == IF e \in Reports(m) THEN "direct" ELSE "indirect"

\* Seeded fault: the walk stops at a manager who has left.
InManagerChainActive(m, e) ==
    LET walk[c \in Emp, seen \in SUBSET Emp] ==
          /\ manager[c] \in active /\ manager[c] \notin seen
          /\ \/ manager[c] = m
             \/ walk[manager[c], seen \cup {manager[c]}]
    IN  walk[e, {}]

\* is_in_manager_chain: up the chart, whoever is active, until a manager is
\* missing or was visited before.
InManagerChain(m, e) ==
    LET walk[c \in Emp, seen \in SUBSET Emp] ==
          /\ manager[c] # Nobody /\ manager[c] \notin seen
          /\ \/ manager[c] = m
             \/ walk[manager[c], seen \cup {manager[c]}]
    IN  walk[e, {}]

\* get_absolute_level: up the chart while the employee is active, the current
\* one being what is remembered.
AbsoluteLevel(e) ==
    LET walk[c \in Emp, seen \in SUBSET Emp] ==
          IF c \in active /\ manager[c] # Nobody /\ manager[c] \notin seen
          THEN 1 + walk[manager[c], seen \cup {c}] ELSE 0
    IN  walk[e, {}]

\* OrgTreeView: active employees who have not resigned, closed downwards from
\* the root until nothing changes.
Nodes == {e \in active : status[e] \notin {"INACTIVE", "RESIGNED"}}

\* Seeded fault: the tree shows only the root and its reports.
SubtreeFlat(root) == Nodes \cap ({root} \cup {e \in Nodes : manager[e] = root})

Subtree(root) ==
    LET grow[n \in 0 .. Cardinality(Emp)] ==
          IF n = 0 THEN {root}
          ELSE grow[n - 1] \cup {e \in Nodes : manager[e] \in grow[n - 1]}
    IN  Nodes \cap grow[Cardinality(Emp)]

\* _count_all_reports calls itself for every report and remembers nothing.
\* It ends if no descent is as long as the number of employees; then it is
\* the sum of one per call.
Descends(m) ==
    LET path[n \in 0 .. Cardinality(Emp), e \in Emp] ==
          n = 0 \/ \E r \in Reports(e) : path[n - 1, r]
    IN  path[Cardinality(Emp), m]
CountAllReports(m) ==
    LET calls[n \in 0 .. Cardinality(Emp), e \in Emp] ==
          IF n = 0 THEN 0
          ELSE LET each[S \in SUBSET Emp] ==
                     IF S = {} THEN 0
                     ELSE LET r == CHOOSE x \in S : TRUE
                          IN  1 + calls[n - 1, r] + each[S \ {r}]
               IN  each[Reports(e)]
    IN  calls[Cardinality(Emp), m]

-----------------------------------------------------------------------------
(* The leave team.                                                          *)

Led(m) == IF m = Lead THEN led \ {m} ELSE {}

\* Seeded fault: the badge counts the reports only.
MetaPendingOfReports(m) == Cardinality((Reports(m) \cap pending) \ {m})

\* LeaveTeamMetaView counts the pending requests of everybody it finds;
\* LeaveTeamRequestsView lists the team without the chief executive's "all",
\* and beside the list counts the pending requests of the direct reports only,
\* the reader's own included where they report to themselves.
TeamOfMeta(m) == Found(m) \cup Led(m) \cup (IF m = Ceo THEN active \ {m} ELSE {})
TeamOfList(m) == Found(m) \cup Led(m)
MetaPending(m) == Cardinality((TeamOfMeta(m) \cap pending) \ {m})

ListPending(m) == Cardinality(Reports(m) \cap pending)

\* can_approve of the team list and of the list of all requests.
ButtonInTeam(m, e) ==
    /\ e \in TeamOfList(m) \cap pending /\ e # m
    /\ \/ manager[e] = m \/ ReportingLevel(m, e) = "direct"
       \/ e \in Led(m) \/ m = Ceo \/ manager[e] = Nobody
ButtonInAll(m, e) ==
    /\ e \in pending /\ e # m
    /\ manager[e] = m \/ e \in Led(m) \/ m = Ceo \/ manager[e] = Nobody

\* Seeded fault: no review without a manager.
MayReviewManaged(m, e) ==
    /\ e \in pending
    /\ e # m \/ m = Ceo
    /\ manager[e] = m \/ e \in Found(m) \/ InManagerChain(m, e) \/ e \in Led(m) \/ m = Ceo

\* The test of LeaveReviewView for a reviewer who is not of HR.
MayReview(m, e) ==
    /\ e \in pending
    /\ e # m \/ m = Ceo
    /\ \/ manager[e] = m \/ e \in Found(m) \/ InManagerChain(m, e)
       \/ e \in Led(m) \/ m = Ceo \/ manager[e] = Nobody

\* The test of PayrollApproveView and PayrollMarkPaidView.
MayPay(m, e) == e # m /\ (manager[e] # Nobody => InManagerChain(m, e))

-----------------------------------------------------------------------------
(* What changes.                                                            *)

SetManager(e, m) ==
    /\ manager[e] # m
    /\ manager' = [manager EXCEPT ![e] = m]
    /\ UNCHANGED <<status, active, led, pending>>

\* Employee.save follows the status, except for a resignation.
SetStatus(e, s) ==
    /\ status[e] # s
    /\ status' = [status EXCEPT ![e] = s]
    /\ active' = CASE s = "ACTIVE" -> active \cup {e}
                   [] s = "INACTIVE" -> active \ {e}
                   [] OTHER -> active
    /\ UNCHANGED <<manager, led, pending>>

Allocate(e) ==
    /\ e \in led \/ Cardinality(led) < MaxLed
    /\ led' = IF e \in led THEN led \ {e} ELSE led \cup {e}
    /\ UNCHANGED <<manager, status, active, pending>>

Ask(e) ==
    /\ e \in active /\ e \notin pending /\ Cardinality(pending) < MaxAsked
    /\ pending' = pending \cup {e}
    /\ UNCHANGED <<manager, status, active, led>>

Review(m, e) ==
    /\ m \in active /\ MayReview(m, e)
    /\ pending' = pending \ {e}
    /\ UNCHANGED <<manager, status, active, led>>

Next ==
    \/ \E e \in Emp, m \in Emp \cup {Nobody} : SetManager(e, m)
    \/ \E e \in Emp, s \in {"ACTIVE", "INACTIVE", "RESIGNED"} : SetStatus(e, s)
    \/ \E e \in Emp : Allocate(e) \/ Ask(e)
    \/ \E m, e \in Emp : Review(m, e)

Spec == Init /\ [][Next]_vars

-----------------------------------------------------------------------------
(* Properties.                                                              *)

Cyclic(e) == InManagerChain(e, e)
Ancestors(e) == {m \in Emp : InManagerChain(m, e)}

\* The walks tell the same chart, cycles or not.  Whoever the reporting map
\* finds has the manager in the chain, and conversely when everybody is
\* active; the tree shows the same people, resigned ones and those under them
\* left out.  The count of the dashboard agrees with the map where it ends,
\* and it does not end for an employee exactly when the map holds a cycle of
\* active employees; the level agrees with the chain where there is none
\* (attendance/views.py 1080-1118, accounts/models.py 217-226,
\* accounts/views.py 576-590, dashboard/views.py 723-726).
WalksAgree ==
    /\ \A m, e \in Emp :
          /\ e \in Found(m) => InManagerChain(m, e)
          /\ active = Emp /\ InManagerChain(m, e) => e \in Found(m)
    /\ \A m \in Emp :
          /\ Subtree(m) \ {m} \subseteq Found(m)
          /\ active = Nodes => Subtree(m) \ {m} = Found(m) \ {m}
          /\ Descends(m) <=> (\E e \in Found(m) : e \in Found(e))
          /\ ~Descends(m) => CountAllReports(m) = Cardinality(Found(m))
    /\ \A e \in Emp :
          /\ active = Emp /\ (\A m \in Ancestors(e) \cup {e} : ~Cyclic(m)) =>
                AbsoluteLevel(e) = Cardinality(Ancestors(e))
          /\ AbsoluteLevel(e) <= Cardinality(Emp)

\* Nobody is shown a button that the review then refuses, and the badge of a
\* team counts what its list offers: the requests of others, all of them for
\* the chief executive.  The list's own pending_count is another number: it is
\* of the direct reports, each of whom has a button there but the reader, and
\* agrees with the badge exactly when nobody further down or of a project has
\* asked (attendance/views.py 1302-1337, 1375-1397, 1481, 1184-1213).
ButtonsWork ==
    /\ \A m, e \in Emp :
          ButtonInTeam(m, e) \/ ButtonInAll(m, e) => MayReview(m, e)
    /\ \A m \in Emp :
          LET listed == (TeamOfList(m) \cap pending) \ {m}
              others == (TeamOfMeta(m) \cap pending) \ {m}
              own == IF manager[m] = m /\ m \in active \cap pending THEN 1 ELSE 0
          IN  /\ IF m = Ceo THEN MetaPending(m) >= Cardinality(listed)
                 ELSE MetaPending(m) = Cardinality(listed)
              /\ Cardinality({e \in listed : ButtonInTeam(m, e)}) + own >= ListPending(m)
              /\ ListPending(m) <= MetaPending(m) + own
              /\ ListPending(m) = MetaPending(m) + own <=> others \subseteq Reports(m)
    /\ \A m, e \in Emp : MayPay(m, e) /\ manager[e] # Nobody /\ e \in pending => MayReview(m, e)
=============================================================================
