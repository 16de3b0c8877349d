------------------------------- MODULE Figures --------------------------------
(***************************************************************************)
(* The figures of the dashboards and reports.                              *)
(*                                                                         *)
(* Of a financial year: what the executive dashboard adds up from invoices, *)
(* payments, their allocations and work logs for the year, per month, per  *)
(* project and per type of project, and what the performance report adds   *)
(* up per week and month.  The year's range is capped at today; months are *)
(* not, and weeks cross them.                                              *)
(*                                                                         *)
(* Of the projects: what the PMO dashboard, the employee's dashboard, the  *)
(* executive pipeline and the progress report say of the same projects and *)
(* tickets.  A project or ticket may have no workflow state, as when its   *)
(* state was deleted; the screens filter on the flags of the state, which  *)
(* such a row does not have.                                               *)
(***************************************************************************)
EXTENDS Integers, FiniteSets, FiniteSetsExt

CONSTANTS Day,          \* days the calendar may show
          MonthOf,      \* day -> month, counted from the first
          YearOf,       \* month -> financial year
          MondayOf,     \* day -> the Monday it follows, which may be before the first day
          Invoice, Payment,
          Log,          \* work logs of one employee
          Estimate,     \* original_estimate of the tickets they are of, of one project
          Amounts,      \* amounts and hours
          Project,      \* the projects invoices are of and whose progress is followed
          Ticket,
          Of,           \* Ticket -> Project
          Begins,       \* the start_date of every project
          Slugs,        \* workflow slugs of projects in use, those of the seed and others
          MaxSteps,     \* bound on the changes of one behaviour
          None

VARIABLES invoice,      \* Invoice -> day, amount, project, dead (cancelled or deleted); None
          payment,      \* Payment -> day, amount, dead; None
          share,        \* what of a payment is allocated to an invoice
          log,          \* Log -> day, hours, ticket, billable; None
          project,      \* Project -> slug, is_active, end_date
          ticket,       \* Ticket -> state, due_date, assigned to me; None
          today,
          steps

books == <<invoice, payment, share, log>>
vars == <<books, project, ticket, today, steps>>

Month == {MonthOf[d] : d \in Day}
Year == {YearOf[m] : m \in Month}
Fy(d) == YearOf[MonthOf[d]]
Types == {"unspecified", "fixed"}

InitialSlugs == {"enquiry"}
FinalSlugs == {"close", "cancelled"}
Excluded == {"close", "cancelled"}               \* PROJECT_DUE_EXCLUDED_WORKFLOW_SLUGS
ActiveBusiness == {"followup", "kickoff", "ongoing"}
TicketStates == {"todo", "inprogress", "done"}

TypeOK ==
    /\ \A i \in Invoice : invoice[i] # None => invoice[i].day \in Day /\ invoice[i].amount \in Amounts
    /\ \A p \in Payment : payment[p] # None => payment[p].day \in Day /\ payment[p].amount \in Amounts
    /\ share \in [Payment \X Invoice -> {0} \cup Amounts]
    /\ \A l \in Log : log[l] # None => log[l].day \in Day /\ log[l].ticket \in DOMAIN Estimate
    /\ project \in [Project -> [slug : Slugs \cup {None}, on : BOOLEAN, end : Day \cup {None}]]
    /\ ticket \in [Ticket -> [state : TicketStates \cup {None}, due : Day \cup {None}, mine : BOOLEAN]
                               \cup {None}]
    /\ today \in Day /\ steps \in 0 .. MaxSteps

Init ==
    /\ invoice = [i \in Invoice |-> None] /\ payment = [p \in Payment |-> None]
    /\ share = [k \in Payment \X Invoice |-> 0]
    /\ log = [l \in Log |-> None]
    /\ project \in [Project -> [slug : {None, "ongoing"}, on : {TRUE}, end : Day \cup {None}]]
    /\ ticket = [t \in Ticket |-> None]
    /\ today = Min(Day) /\ steps = 0

Total(F(_), S) == MapThenSumSet(F, S)

-----------------------------------------------------------------------------
(* The ranges of a year.                                                    *)

DaysIn(y) == {d \in Day : Fy(d) = y}
CurrentFy == Fy(today)

\* fy_date_range: a year to come is refused, the current one ends today.
Available(y) == y <= CurrentFy
Span(y) == {d \in DaysIn(y) : y = CurrentFy => d <= today}

\* Seeded fault: the months of the current year end before this one.
MonthsBefore(y) == {m \in Month : YearOf[m] = y /\ (y = CurrentFy => m < MonthOf[today])}

\* iter_fy_months: the months that begin within the range.
MonthsShown(y) == {m \in Month : \E d \in Span(y) : d = Min({x \in Day : MonthOf[x] = m})}

-----------------------------------------------------------------------------
(* The money.                                                               *)

InvoicesOf(y) == {i \in Invoice : invoice[i] # None /\ ~invoice[i].dead /\ invoice[i].day \in Span(y)}
PaymentsOf(y) == {p \in Payment : payment[p] # None /\ ~payment[p].dead /\ payment[p].day \in Span(y)}
Billed(S) == Total(LAMBDA i : invoice[i].amount, S)
Paid(S) == Total(LAMBDA p : payment[p].amount, S)

\* finance_stats.
Invoiced(y) == Billed(InvoicesOf(y))
Received(y) == Paid(PaymentsOf(y))
Pending(y) == IF Invoiced(y) > Received(y) THEN Invoiced(y) - Received(y) ELSE 0

\* payment_monthly.
InvoicedIn(y, m) == Billed({i \in InvoicesOf(y) : MonthOf[invoice[i].day] = m})
ReceivedIn(y, m) == Paid({p \in PaymentsOf(y) : MonthOf[payment[p].day] = m})

\* The rows of project_portfolio, the detail of one project, and
\* revenue_by_project_type: a payment counts by its allocations to live
\* invoices, of whatever year.
TypeOf(p) == IF p = None THEN "unspecified" ELSE "fixed"
ProjectInvoiced(y, p) == Billed({i \in InvoicesOf(y) : invoice[i].project = p})

\* Seeded fault: allocations of payments that were deleted count.
SharesOfAny(y, I) ==
    {k \in Payment \X Invoice : k[2] \in I /\ payment[k[1]] # None /\ payment[k[1]].day \in Span(y)}

SharesOf(y, I) == {k \in Payment \X Invoice : k[2] \in I /\ k[1] \in PaymentsOf(y)}
LiveInvoices == {i \in Invoice : invoice[i] # None /\ ~invoice[i].dead}
ReceivedFor(y, I) == Total(LAMBDA k : share[k], SharesOf(y, I))
ProjectReceived(y, p) == ReceivedFor(y, {i \in LiveInvoices : invoice[i].project = p})
TypeInvoiced(y, t) == Billed({i \in InvoicesOf(y) : TypeOf(invoice[i].project) = t})
TypeReceived(y, t) == ReceivedFor(y, {i \in LiveInvoices : TypeOf(invoice[i].project) = t})

-----------------------------------------------------------------------------
(* The hours.                                                               *)

Hours(S) == Total(LAMBDA l : log[l].hours, S)
LogsOf(D) == {l \in Log : log[l] # None /\ log[l].day \in D}

\* The logs of a project in the range of the year, and billing_monthly, which
\* takes whole months.
LoggedFy(y) == Hours(LogsOf(Span(y)))
BillableFy(y, b) == Hours({l \in LogsOf(Span(y)) : log[l].billable = b})
BillableIn(m, b) == Hours({l \in LogsOf({d \in Day : MonthOf[d] = m}) : log[l].billable = b})

\* build_employee_performance between two days, whole weeks by their Monday.
Weeks(S) == {MondayOf[log[l].day] : l \in S}
WeekLogged(S, w) == Hours({l \in S : MondayOf[log[l].day] = w})
TicketsOf(S) == {log[l].ticket : l \in S}
WeeksWorked(S, t) == Weeks({l \in S : log[l].ticket = t})
\* An estimate is spread evenly over the weeks the ticket was worked on.
WeekEstimated(S, w) ==
    Total(LAMBDA t : Estimate[t] \div Cardinality(WeeksWorked(S, t)), {t \in TicketsOf(S) : w \in WeeksWorked(S, t)})


\* The weeks of the week chart, and of the month chart: there a week belongs to
\* the month of its Monday, and months before that of from are not shown.
ShownWeeks(from, to) == {MondayOf[d] : d \in from .. to}
FirstOf(m) == Min({d \in Day : MonthOf[d] = m})
MonthWeeks(S, from) == {w \in Weeks(S) : w >= FirstOf(MonthOf[from])}

-----------------------------------------------------------------------------
(* The counts of tickets.                                                   *)

Live == {t \in Ticket : ticket[t] # None}
On(p) == {t \in Live : Of[t] = p}
Mine == {t \in Live : ticket[t].mine}

\* workflow_state__is_initial and __is_final: without a state neither holds,
\* nor its opposite.
Initial(S) == {t \in S : ticket[t].state = "todo"}
Final(S) == {t \in S : ticket[t].state = "done"}
NotFinal(S) == {t \in S : ticket[t].state \in TicketStates \ {"done"}}

\* Seeded fault: a ticket without a state counts as going.
GoingOrNone(S) == {t \in S : ticket[t].state \notin {"todo", "done"}}

Going(S) == {t \in S : ticket[t].state = "inprogress"}
Stateless(S) == {t \in S : ticket[t].state = None}
Late(S) == {t \in S : ticket[t].due # None /\ ticket[t].due < today}

\* The work items of the PMO dashboard (all tickets) and of the employee's (hers).
WorkItems(S) ==
    [open |-> Cardinality(Initial(S)), going |-> Cardinality(Going(S)), done |-> Cardinality(Final(S)),
     total |-> Cardinality(S), overdue |-> Cardinality(Late(NotFinal(S)))]

\* One card per state, with an overdue mark on tickets of states not final.
Cards(S) == [s \in TicketStates |-> {t \in S : ticket[t].state = s}]
MarkedLate(S) == {t \in S : \E s \in TicketStates \ {"done"} : t \in Cards(S)[s] /\ t \in Late(S)}

\* The row of a project in the portfolio, and in the progress report.
PortfolioRow(p) ==
    LET n == Cardinality(On(p))
    IN  [total |-> n, open |-> n - Cardinality(Final(On(p)))]
ProgressRow(p) ==
    [total |-> Cardinality(On(p)), open |-> Cardinality(NotFinal(On(p))), done |-> Cardinality(Final(On(p)))]

-----------------------------------------------------------------------------
(* The health of a project.                                                 *)

\* project_excluded_from_due_tracking, and the queryset that says the same.
IsExcluded(p) == project[p].slug # None /\ project[p].slug \in Excluded \cup FinalSlugs
Eligible(p) == project[p].slug \notin Excluded
                 /\ (project[p].slug = None \/ project[p].slug \notin FinalSlugs)

\* Seeded fault: a project that ended stays in business.
InBusinessForEver(p) == project[p].on /\ project[p].slug # None /\ project[p].slug \notin InitialSlugs

InActiveBusiness(p) ==
    project[p].on /\ project[p].slug # None /\ project[p].slug \notin InitialSlugs \cup FinalSlugs

\* n / d < a / b, for d of either sign.
Below(n, d, a, b) == IF d > 0 THEN n * b < a * d ELSE n * b > a * d


Health(p) ==
    LET left == project[p].end - today
        span == project[p].end - Begins
        n == Cardinality(On(p))
        Ratio(a, b) == n > 0 /\ Below(a, b, Cardinality(NotFinal(On(p))), n)
    IN  CASE IsExcluded(p) \/ project[p].end = None -> "ON_TRACK"
          [] OTHER ->
             IF project[p].end < today THEN "DELAYED"
             ELSE IF span # 0 /\ Below(left, span, 1, 5) /\ Ratio(2, 5) THEN "DELAYED"
             ELSE IF (span # 0 /\ Below(left, span, 7, 20)) \/ Ratio(3, 5) THEN "AT_RISK" ELSE "ON_TRACK"

\* project_portfolio has a row for a project in business whose days touch the
\* year; the others, whatever was invoiced for them, have none.
Portfolio(y) ==
    {p \in Project : /\ InActiveBusiness(p)
                     /\ \E d \in Span(y) : Begins <= d
                     /\ project[p].end = None \/ \E d \in DaysIn(y) : d = Min(DaysIn(y)) /\ project[p].end >= d}

Tracked == {p \in Project : InActiveBusiness(p) /\ Eligible(p)}
HealthCount(h) == Cardinality({p \in Tracked : Health(p) = h})
InBusiness == {p \in Project : InActiveBusiness(p)}

\* The alerts of the PMO dashboard.
Alerts ==
    {a \in {"overdue", "delayed", "at_risk"} :
       CASE a = "overdue" -> WorkItems(Live).overdue > 0
         [] a = "delayed" -> HealthCount("DELAYED") > 0
         [] OTHER         -> HealthCount("AT_RISK") > 0}

\* The executive pipeline sorts by slug alone; of the two buckets that name
\* "followup" the later one has it.
Bucket(p) ==
    CASE project[p].slug \in ActiveBusiness -> "active"
      [] project[p].slug = "enquiry"        -> "pipeline"
      [] project[p].slug = "close"          -> "completed"
      [] project[p].slug = "cancelled"      -> "cancelled"
      [] OTHER                              -> "none"
BucketOf(b) == {p \in Project : Bucket(p) = b}
PipelineTotal == Cardinality(Project) - Cardinality(BucketOf("none"))

-----------------------------------------------------------------------------
(* What changes.                                                            *)

Step == steps < MaxSteps /\ steps' = steps + 1

\* Invoices and payments, see Billing; both may be dated at will.
Bill(i, d, n, p) ==
    /\ invoice[i] = None /\ Step
    /\ invoice' = [invoice EXCEPT ![i] = [day |-> d, amount |-> n, project |-> p, dead |-> FALSE]]
    /\ UNCHANGED <<payment, share, log, project, ticket, today>>

Void(i) ==
    /\ i \in LiveInvoices /\ Step
    /\ invoice' = [invoice EXCEPT ![i].dead = TRUE]
    /\ UNCHANGED <<payment, share, log, project, ticket, today>>

\* A payment comes with its allocations, which it covers.
Pay(p, d, n, I) ==
    /\ payment[p] = None /\ I \subseteq LiveInvoices /\ Step
    /\ Billed(I) <= n
    /\ payment' = [payment EXCEPT ![p] = [day |-> d, amount |-> n, dead |-> FALSE]]
    /\ share' = [k \in Payment \X Invoice |->
                   IF k[1] = p /\ k[2] \in I THEN invoice[k[2]].amount ELSE share[k]]
    /\ UNCHANGED <<invoice, log, project, ticket, today>>

TakeBack(p) ==
    /\ payment[p] # None /\ ~payment[p].dead /\ Step
    /\ payment' = [payment EXCEPT ![p].dead = TRUE]
    /\ UNCHANGED <<invoice, share, log, project, ticket, today>>

\* Hours are logged within the current week, the days to come included.
LogHours(l, d, n, t, b) ==
    /\ log[l] = None /\ MondayOf[d] = MondayOf[today] /\ Step
    /\ log' = [log EXCEPT ![l] = [day |-> d, hours |-> n, ticket |-> t, billable |-> b]]
    /\ UNCHANGED <<invoice, payment, share, project, ticket, today>>

\* A ticket begins in the initial state, or in none while there is none.
AddTicket(t, s, due, mine) ==
    /\ ticket[t] = None /\ Step
    /\ ticket' = [ticket EXCEPT ![t] = [state |-> s, due |-> due, mine |-> mine]]
    /\ UNCHANGED <<books, project, today>>

\* Deleting a state leaves its tickets without one; its transitions take them on.
DeleteState(s) ==
    /\ Step /\ \E t \in Live : ticket[t].state = s
    /\ ticket' = [t \in Ticket |-> IF t \in Live /\ ticket[t].state = s
                                    THEN [ticket[t] EXCEPT !.state = None] ELSE ticket[t]]
    /\ UNCHANGED <<books, project, today>>

MoveTicket(t, s) ==
    /\ t \in Live /\ Step
    /\ <<ticket[t].state, s>> \in {<<"todo", "inprogress">>, <<"inprogress", "done">>, <<"done", "inprogress">>,
                                   <<None, "inprogress">>, <<None, "done">>}
    /\ ticket' = [ticket EXCEPT ![t].state = s]
    /\ UNCHANGED <<books, project, today>>

DropTicket(t) ==
    /\ t \in Live /\ Step
    /\ ticket' = [ticket EXCEPT ![t] = None]
    /\ UNCHANGED <<books, project, today>>

MoveProject(p, s) ==
    /\ project[p].slug # s /\ Step
    /\ project' = [project EXCEPT ![p].slug = s]
    /\ UNCHANGED <<books, ticket, today>>

Reschedule(p, d) ==
    /\ project[p].end # d /\ Step
    /\ project' = [project EXCEPT ![p].end = d]
    /\ UNCHANGED <<books, ticket, today>>

Switch(p) ==
    /\ Step /\ project' = [project EXCEPT ![p].on = ~@]
    /\ UNCHANGED <<books, ticket, today>>

Later ==
    /\ \E d \in Day : d > today /\ today' = Min({x \in Day : x > today})
    /\ UNCHANGED <<books, project, ticket, steps>>

Next ==
    \/ \E i \in Invoice : Void(i) \/ \E d \in Day, n \in Amounts, p \in Project \cup {None} : Bill(i, d, n, p)
    \/ \E p \in Payment : TakeBack(p) \/ \E d \in Day, n \in Amounts, I \in SUBSET Invoice : Pay(p, d, n, I)
    \/ \E l \in Log, d \in Day, n \in Amounts, t \in DOMAIN Estimate, b \in BOOLEAN : LogHours(l, d, n, t, b)
    \/ \E t \in Ticket :
         \/ \E s \in {"todo", None}, d \in Day \cup {None}, mine \in BOOLEAN : AddTicket(t, s, d, mine)
         \/ DropTicket(t)
         \/ \E s \in TicketStates : MoveTicket(t, s)
    \/ \E p \in Project :
         \/ \E s \in Slugs : MoveProject(p, s)
         \/ \E d \in Day \cup {None} : Reschedule(p, d)
         \/ Switch(p)
    \/ \E s \in TicketStates : DeleteState(s)
    \/ Later

Spec == Init /\ [][Next]_vars

-----------------------------------------------------------------------------
(* Properties.                                                              *)

\* The year of the dashboard is the sum of its months, of its types of project
\* and, with the invoices of no project, of the pages of its projects; the
\* portfolio falls short of it by the invoices of no project and of those that
\* are out of business or ended before the year.  What the year's payments were
\* allocated to live invoices is never more than what came in
\* (executive_service.py 165-208, 242-290, 316-340, 395-410).
MoneyAddsUp ==
    \A y \in Year : Available(y) =>
        /\ Total(LAMBDA m : InvoicedIn(y, m), MonthsShown(y)) = Invoiced(y)
        /\ Total(LAMBDA m : ReceivedIn(y, m), MonthsShown(y)) = Received(y)
        /\ Total(LAMBDA t : TypeInvoiced(y, t), Types) = Invoiced(y)
        /\ Total(LAMBDA p : ProjectInvoiced(y, p), Project) + ProjectInvoiced(y, None) = Invoiced(y)
        /\ Invoiced(y) - Total(LAMBDA p : ProjectInvoiced(y, p), Portfolio(y))
             = Billed({i \in InvoicesOf(y) :
                         LET p == invoice[i].project
                         IN  p = None \/ ~InActiveBusiness(p)
                               \/ (project[p].end # None /\ Fy(project[p].end) < y)})
        /\ Total(LAMBDA t : TypeReceived(y, t), Types) <= Received(y)
        /\ Total(LAMBDA p : ProjectReceived(y, p), Project) = TypeReceived(y, "fixed")
        /\ Pending(y) <= Invoiced(y)

\* The monthly hours are those of the year, except that the current month
\* counts the days after today too, which may be logged until the week ends
\* (executive_service.py 127-134, 292-314).
HoursAddUp ==
    \A y \in Year : Available(y) =>
        LET ahead == Hours(LogsOf({d \in Day : d > today /\ MonthOf[d] = MonthOf[today]}))
        IN  /\ BillableFy(y, TRUE) + BillableFy(y, FALSE) = LoggedFy(y)
            /\ Total(LAMBDA m : BillableIn(m, TRUE) + BillableIn(m, FALSE), MonthsShown(y))
                 = LoggedFy(y) + (IF y = CurrentFy THEN ahead ELSE 0)

\* Every hour and every whole estimate of the performance report is in a week
\* of its week chart; its month chart drops the hours of the week in which
\* the first month begins if the month does not begin on a Monday
\* (accounts/performance.py 49-71, 121-131, 157-161, 191-199).
WeeksAddUp ==
    \A from \in Day, to \in Day : from <= to =>
        LET S == LogsOf(from .. to)
            cut == {l \in S : MondayOf[log[l].day] < FirstOf(MonthOf[from])}
        IN  /\ Total(LAMBDA w : WeekLogged(S, w), ShownWeeks(from, to)) = Hours(S)
            /\ Total(LAMBDA w : WeekEstimated(S, w), ShownWeeks(from, to))
                 = Total(LAMBDA t : Estimate[t], TicketsOf(S))
            /\ Total(LAMBDA w : WeekLogged(S, w), MonthWeeks(S, from)) = Hours(S) - Hours(cut)

\* The figures differ by the tickets without a state and by nothing else: they
\* are open in the portfolio, and neither open, going, done nor overdue in the
\* work items, on the cards and in the progress report; the alert is raised
\* when a card would mark a ticket of somebody (dashboard/views.py 38-41,
\* 71-75, 146-156, 255-276, 401-412, reports/views.py 103-109).
ItemsAddUp ==
    /\ \A S \in {Live, Mine} : LET w == WorkItems(S)
                               IN  /\ w.open + w.going + w.done + Cardinality(Stateless(S)) = w.total
                                   /\ w.overdue = Cardinality(MarkedLate(S))
                                   /\ w.overdue + Cardinality(Late(Stateless(S)))
                                        = Cardinality(Late(S \ Final(S)))
    /\ \A p \in Project :
         /\ PortfolioRow(p).open = ProgressRow(p).open + Cardinality(Stateless(On(p)))
         /\ ProgressRow(p).open + ProgressRow(p).done <= PortfolioRow(p).total
    /\ "overdue" \in Alerts <=> MarkedLate(Live) # {}

\* Every project in business is tracked and has one health, so that the three
\* counts make up the projects in business; of these all are active in the
\* executive pipeline but those with a slug of their own, and a project that is
\* active there is in business unless it was switched off.
PortfolioAddsUp ==
    /\ HealthCount("ON_TRACK") + HealthCount("AT_RISK") + HealthCount("DELAYED") = Cardinality(InBusiness)
    /\ \A p \in InBusiness : Bucket(p) \in {"active", "none"} /\ ~IsExcluded(p)
    /\ \A p \in BucketOf("active") : project[p].on => p \in InBusiness
    /\ PipelineTotal = Cardinality(UNION {BucketOf(b) : b \in {"pipeline", "active", "completed", "cancelled"}})

\* The health of a project gets worse with time only, and with tickets that
\* are added, moved back or dropped or whose state is not final any more;
\* finishing a ticket never does, and better never comes with time
\* (dashboard/views.py 26-47).
Worse == [ON_TRACK |-> 0, AT_RISK |-> 1, DELAYED |-> 2]
HealthFollowsStep ==
    \A p \in Project : project'[p] = project[p] =>
        /\ Worse[Health(p)'] > Worse[Health(p)] =>
              \/ today' > today
              \/ \E t \in Ticket : Of[t] = p /\ ticket'[t] # ticket[t]
                                     /\ (IF ticket'[t] = None THEN TRUE ELSE ticket'[t].state # "done")
        /\ Worse[Health(p)'] < Worse[Health(p)] => today' = today /\ ticket' # ticket
HealthFollows == [][HealthFollowsStep]_vars
=============================================================================
