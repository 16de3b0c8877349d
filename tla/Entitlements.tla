---------------------------- MODULE Entitlements ----------------------------
(***************************************************************************)
(* The balance rows of one leave type over several financial years, and    *)
(* the six ways their totals come about: assignment with days carried       *)
(* forward from the year before, assignment in bulk, allocation of a policy  *)
(* rule, the maintenance command, the employee's own screen, and an approval *)
(* that finds no row.  A financial year runs from April to March and is      *)
(* named for the year it starts in; an approval charges the calendar year.   *)
(* An assignment reads what an employee carries forward and writes the row   *)
(* in statements of their own, one employee after the other, while rules and  *)
(* rows change.                                                              *)
(***************************************************************************)
EXTENDS Integers, FiniteSets, FiniteSetsExt

CONSTANTS Emp,         \* active employees
          Year,        \* calendar years, also names of financial years
          Fixed,       \* the years the maintenance command always sets
          Amounts,     \* totals HR assigns
          MaxDays,     \* max_days of the leave type
          StdDays,     \* the total the maintenance command sets
          Rules,       \* policy rules HR may make
          Req,         \* assignments with days carried forward
          MaxOps,      \* bound on the operations of one behaviour
          None

VARIABLES bal,         \* [Emp \X Year -> [total, used] or None]
          rules,       \* the rows of LeavePolicyRule
          carried,     \* days the last assignment carried into a row
          stale,       \* rows whose year before was touched after that
          revised,     \* rows a rule of whose year before was changed after that
          job,         \* what each assignment is about to do
          ops

vars == <<bal, rules, carried, stale, revised, job, ops>>

Keys == Emp \X Year
Before(k) == <<k[1], k[2] - 1>>

TypeOK ==
    /\ \A k \in Keys : bal[k] # None => bal[k].total \in Nat /\ bal[k].used \in Nat
    /\ rules \subseteq Rules
    /\ carried \in [Keys -> Nat]
    /\ stale \subseteq Keys /\ revised \subseteq Keys
    /\ \A w \in Req : job[w] = None \/ job[w].days \in Nat
    /\ ops \in 0 .. MaxOps

Init ==
    /\ bal = [k \in Keys |-> None]
    /\ rules = {}
    /\ carried = [k \in Keys |-> 0]
    /\ stale = {} /\ revised = {} /\ ops = 0
    /\ job = [w \in Req |-> None]

-----------------------------------------------------------------------------
Exists(k) == k \in Keys /\ bal[k] # None
Remaining(k) == IF bal[k].total > bal[k].used THEN bal[k].total - bal[k].used ELSE 0

\* The rows whose carried days were computed from the rows now changed.
AfterChange(S) == stale \cup {k \in Keys : Before(k) \in S}

Step == ops < MaxOps /\ ops' = ops + 1

\* Setting the totals of some rows creates the missing ones.
SetRows(S, Total(_)) ==
    bal' = [k \in Keys |->
              IF k \notin S THEN bal[k]
              ELSE [total |-> Total(k), used |-> IF bal[k] = None THEN 0 ELSE bal[k].used]]
SetTotals(S, Total(_)) == SetRows(S, Total) /\ Step /\ UNCHANGED job

Covers(r, y) == r.from <= y /\ (r.to = None \/ r.to >= y)

\* The rules in effect in a year: the newest of those that cover it; of two
\* from one year the query returns either.
RulesFor(y) ==
    LET in == {r \in rules : Covers(r, y)}
    IN  {r \in in : \A x \in in : x.from <= r.from}

\* What a rule lets be carried of the row before; a limit of 0 is no limit.
CarryOf(r, k) ==
    IF ~r.carry \/ ~Exists(Before(k)) THEN 0
    ELSE IF r.limit > 0 THEN Min({r.limit, Remaining(Before(k))}) ELSE Remaining(Before(k))

\* Seeded fault: the rule of the new year decides.
EligibleNow(k) ==
    IF RulesFor(k[2]) = {} THEN {0} ELSE {CarryOf(r, k) : r \in RulesFor(k[2])}

\* eligible_carry_forward_days: all it may be.
Eligible(k) ==
    IF RulesFor(k[2] - 1) = {} THEN {0} ELSE {CarryOf(r, k) : r \in RulesFor(k[2] - 1)}

BeforeRow(k) == IF Before(k) \in Keys THEN bal[Before(k)] ELSE None

\* A rule covers the year before and lets days be carried out of it.
Lets(r, k, days) == r.carry /\ Covers(r, k[2] - 1) /\ (r.limit = 0 \/ days <= r.limit)

\* LeaveAssignView.post: for each employee, the days that are carried ...
Assign(w, E, y, amount, carry) ==
    /\ job[w] = None /\ Step
    /\ job' = [job EXCEPT ![w] = [todo |-> E, year |-> y, amount |-> amount, carry |-> carry,
                                  emp |-> None, days |-> 0, was |-> None, under |-> {}]]
    /\ UNCHANGED <<bal, rules, carried, stale, revised>>

AssignRead(w, e) ==
    /\ job[w] # None /\ job[w].emp = None /\ e \in job[w].todo
    /\ \E days \in IF job[w].carry THEN Eligible(<<e, job[w].year>>) ELSE {0} :
         job' = [job EXCEPT ![w].emp = e, ![w].days = days, ![w].under = rules,
                            ![w].was = BeforeRow(<<e, job[w].year>>)]
    /\ UNCHANGED <<bal, rules, carried, stale, revised, ops>>

\* ... and update_or_create with the amount and those days.
AssignWrite(w) ==
    LET j == job[w]
        k == <<j.emp, j.year>>
    IN  /\ j # None /\ j.emp # None
        /\ SetRows({k}, LAMBDA x : j.amount + j.days)
        /\ carried' = [carried EXCEPT ![k] = j.days]
        /\ stale' = (AfterChange({k}) \ {k}) \cup (IF BeforeRow(k) # j.was THEN {k} ELSE {})
        /\ revised' = (revised \ {k}) \cup (IF j.under \subseteq rules THEN {} ELSE {k})
        /\ job' = [job EXCEPT ![w] = IF j.todo = {j.emp} THEN None
                                     ELSE [j EXCEPT !.todo = @ \ {j.emp}, !.emp = None,
                                                    !.days = 0, !.was = None, !.under = {}]]
        /\ UNCHANGED <<rules, ops>>

\* LeaveBalanceAssignView.post: the amount alone, one row after the other.
AssignBulk(e, y, amount) ==
    /\ SetTotals({<<e, y>>}, LAMBDA k : amount)
    /\ carried' = [carried EXCEPT ![e, y] = 0]
    /\ stale' = AfterChange({<<e, y>>}) \ {<<e, y>>}
    /\ UNCHANGED <<rules, revised>>

\* Seeded fault: the command creates its rows anew.
SetYearAnew(y) ==
    LET S == {k \in Keys : k[2] \in {y} \cup Fixed}
    IN  /\ Step
        /\ bal' = [k \in Keys |-> IF k \in S THEN [total |-> StdDays, used |-> 0] ELSE bal[k]]
        /\ UNCHANGED job
        /\ carried' = [k \in Keys |-> IF k \in S THEN 0 ELSE carried[k]]
        /\ stale' = AfterChange(S) \ S
        /\ UNCHANGED <<rules, revised>>

\* set_financial_year_leaves: the named year and the two fixed ones.
SetYear(y) ==
    LET S == {k \in Keys : k[2] \in {y} \cup Fixed}
    IN  /\ SetTotals(S, LAMBDA k : StdDays)
        /\ carried' = [k \in Keys |-> IF k \in S THEN 0 ELSE carried[k]]
        /\ stale' = AfterChange(S) \ S
        /\ UNCHANGED <<rules, revised>>

\* allocate() of a rule: rows that exist are left as they are.
Allocate(r, y) ==
    LET S == {k \in Keys : k[2] = y /\ bal[k] = None}
    IN  /\ r \in rules
        /\ SetTotals(S, LAMBDA k : r.total)
        /\ stale' = AfterChange(S)
        /\ UNCHANGED <<rules, carried, revised>>

\* MyLeaveBalancesView: without a row of the year it falls back to the newest
\* year there is, and makes the row where there is none at all.
ShownYear(e, y) ==
    LET have == {x \in Year : bal[e, x] # None}
    IN  IF y \in have \/ have = {} THEN y ELSE Max(have)
OpenOwn(e, y) ==
    LET S == {<<e, y>>}
    IN  /\ ShownYear(e, y) = y /\ bal[e, y] = None
        /\ SetTotals(S, LAMBDA k : MaxDays)
        /\ stale' = AfterChange(S)
        /\ UNCHANGED <<rules, carried, revised>>

\* An approval of leave taken in the financial year y, from April to December
\* or after the turn of the year, charges the row of the calendar year.
Charged(e, y, late) == <<e, IF late THEN y + 1 ELSE y>>
Approve(e, y, late, days) ==
    LET k == Charged(e, y, late)
        row == IF Exists(k) THEN bal[k] ELSE [total |-> MaxDays, used |-> 0]
    IN  /\ k \in Keys /\ Step
        /\ bal' = [bal EXCEPT ![k] = [row EXCEPT !.used = @ + days]]
        /\ stale' = AfterChange({k})
        /\ UNCHANGED <<rules, carried, revised, job>>

\* LeavePolicyRuleViewSet: a rule is made, changed or deleted, whatever was
\* carried under it.
SetRules(new) ==
    /\ rules' = new /\ Step
    /\ revised' = revised \cup {k \in Keys :
         \E r \in rules \ new : carried[k] > 0 /\ Lets(r, k, carried[k])}
    /\ UNCHANGED <<bal, carried, stale, job>>

AddRule(r) == r \notin rules /\ SetRules(rules \cup {r})
ChangeRule(r, new) == r \in rules /\ new \notin rules /\ SetRules((rules \ {r}) \cup {new})
DeleteRule(r) == r \in rules /\ SetRules(rules \ {r})

Next ==
    \/ \E w \in Req, E \in (SUBSET Emp) \ {{}}, y \in Year, n \in Amounts, c \in BOOLEAN :
         Assign(w, E, y, n, c)
    \/ \E w \in Req, e \in Emp : AssignRead(w, e)
    \/ \E w \in Req : AssignWrite(w)
    \/ \E e \in Emp, y \in Year, n \in Amounts : AssignBulk(e, y, n)
    \/ \E y \in Year : SetYear(y) \/ \E r \in Rules : Allocate(r, y)
    \/ \E e \in Emp, y \in Year : OpenOwn(e, y)
    \/ \E e \in Emp, y \in Year, late \in BOOLEAN : Approve(e, y, late, 1)
    \/ \E r, new \in Rules : AddRule(r) \/ ChangeRule(r, new) \/ DeleteRule(r)

Spec == Init /\ [][Next]_vars

-----------------------------------------------------------------------------
(* Properties.                                                              *)

\* Days carried forward were left over: with the days used in the year before
\* they stay within its total, unless that year's row was charged or set again
\* after the assignment read it, which carries nothing back (leave_utils.py
\* 10-36, attendance/views.py 1613-1620).
CarriedWasLeft ==
    \A k \in Keys : carried[k] > 0 /\ k \notin stale =>
        /\ Exists(Before(k))
        /\ carried[k] + bal[Before(k)].used <= bal[Before(k)].total

\* Days are carried only out of a year in which some rule lets them be, and
\* within a limit one of those rules sets, whoever assigns meanwhile; only a
\* rule that was changed or deleted after it was read leaves days behind that
\* no rule allows.
CarriedByRule ==
    \A k \in Keys : carried[k] > 0 /\ k \notin revised => \E r \in rules : Lets(r, k, carried[k])

\* However totals are set, what was used stays used (every caller of
\* update_or_create names total_days alone).
UsedStaysStep ==
    \A k \in Keys : bal[k] # None => bal'[k] # None /\ bal'[k].used >= bal[k].used
UsedStays == [][UsedStaysStep]_vars
=============================================================================
