------------------------------ MODULE Payroll ------------------------------
(***************************************************************************)
(* The payroll entry of one employee and month (apps/payroll), and the     *)
(* attendance it is computed from.  Generation counts the days of each     *)
(* kind in a query of its own and writes the entry, whatever its status;   *)
(* approval and payment test the status in one statement and save it in    *)
(* another.  Amounts are kept as the half days that are paid.              *)
(***************************************************************************)
EXTENDS Integers, FiniteSets, FiniteSetsExt

CONSTANTS
  Request,     \* the server's request threads
  Person,
  Employee,    \* whose entry it is
  Hierarchies, \* Person -> manager or None, as they may be
  Day,         \* the days of the month
  Rates,       \* monthly salaries per paid half day
  HandPays,    \* bound: half days somebody may enter by hand
  None         \* NULL

VARIABLES
  manager,    \* Person -> manager
  rate,       \* from the rate card
  days,       \* Day -> status of its attendance row
  entry,      \* status, deleted, pay (half days), leave, tax
  req,        \* what each request thread is doing
  approved,   \* the pay that was approved last and is not paid yet, or None
  excused     \* since it was last generated, the entry was written by hand, by
              \* a request it changed under, or from days that changed

vars == <<manager, rate, days, entry, req, approved, excused>>

Status == {"DRAFT", "FINALIZED", "PAID", "CANCELLED"}
DayStatus == {"PRESENT", "HALF_DAY", "ON_LEAVE", "ABSENT"}
NoEntry == [status |-> "NONE", deleted |-> FALSE, pay |-> 0, leave |-> 0, tax |-> 0]

Free == [pc |-> "Idle"]
At(w, pc) == req[w].pc = pc
Becomes(w, r) == req' = [req EXCEPT ![w] = r]

\* The entry changes under the requests that hold it.
Outdated(r) == IF "stale" \in DOMAIN r THEN [r EXCEPT !.stale = TRUE] ELSE r
Writes(w) == req' = [v \in Request |-> IF v = w THEN Free ELSE Outdated(req[v])]

Count(status) == Cardinality({d \in Day : days[d] = status})

\* Seeded fault: who is in the fourth slab pays nothing for the third.
TaxSteep(g) ==
  CASE g <= 300000 -> 0
    [] g > 300000 /\ g <= 600000 -> (g - 300000) * 5
    [] g > 600000 /\ g <= 900000 -> 300000 * 5 + (g - 600000) * 10
    [] g > 900000 /\ g <= 1200000 -> 300000 * 5 + (g - 900000) * 15
    [] OTHER -> 300000 * 5 + 300000 * 10 + 300000 * 15 + (g - 1200000) * 20

\* _tds: the tax of a year's gross, in hundredths.
Tax(g) ==
  CASE g <= 300000 -> 0
    [] g > 300000 /\ g <= 600000 -> (g - 300000) * 5
    [] g > 600000 /\ g <= 900000 -> 300000 * 5 + (g - 600000) * 10
    [] g > 900000 /\ g <= 1200000 -> 300000 * 5 + 300000 * 10 + (g - 900000) * 15
    [] OTHER -> 300000 * 5 + 300000 * 10 + 300000 * 15 + (g - 1200000) * 20

RECURSIVE Climbs(_, _, _)
Climbs(m, p, visited) ==
  /\ manager[p] # None /\ manager[p] \notin visited
  /\ manager[p] = m \/ Climbs(m, manager[p], visited \cup {manager[p]})

\* Seeded fault: the employee may decide, as far as the chain goes.
MayDecideOwn(u) == manager[Employee] # None => Climbs(u, Employee, {})

\* Nobody decides on the own entry; who has a manager is decided on by one of
\* those above (is_in_manager_chain), who has none by anybody.
MayDecide(u) == u # Employee /\ (manager[Employee] # None => Climbs(u, Employee, {}))
----------------------------------------------------------------------------
Init ==
  /\ manager \in Hierarchies /\ rate \in Rates
  /\ days \in [Day -> {"PRESENT", "ABSENT"}]
  /\ entry = NoEntry
  /\ req = [w \in Request |-> Free]
  /\ approved = None /\ excused = FALSE

\* Somebody clocks in, is on leave, or is corrected, between the counts of some
\* request perhaps.
Attend(d, status) ==
  /\ days[d] # status
  /\ days' = [days EXCEPT ![d] = status]
  /\ req' = [w \in Request |-> IF req[w].pc \in {"Halves", "Leaves"}
                                THEN [req[w] EXCEPT !.mixed = TRUE] ELSE req[w]]
  /\ UNCHANGED <<manager, rate, entry, approved, excused>>

\* PayrollGenerateView.get: what generating the month would write now.
Preview == [pay |-> 2 * Count("PRESENT") + Count("HALF_DAY"), leave |-> Count("ON_LEAVE")]

\* generate_payroll counts the days that are paid in full, ...
CountFull(w) ==
  /\ At(w, "Idle")
  /\ Becomes(w, [pc |-> "Halves", mixed |-> FALSE, pay |-> 2 * Count("PRESENT")])
  /\ UNCHANGED <<manager, rate, days, entry, approved, excused>>

\* Seeded fault: days of leave are paid like half days.
CountHalvesAndLeave(w) ==
  /\ At(w, "Halves")
  /\ Becomes(w, [req[w] EXCEPT !.pc = "Leaves", !.pay = @ + Count("HALF_DAY") + 2 * Count("ON_LEAVE")])
  /\ UNCHANGED <<manager, rate, days, entry, approved, excused>>

\* ... the half days, ...
CountHalves(w) ==
  /\ At(w, "Halves")
  /\ Becomes(w, [req[w] EXCEPT !.pc = "Leaves", !.pay = @ + Count("HALF_DAY")])
  /\ UNCHANGED <<manager, rate, days, entry, approved, excused>>

\* ... and those of leave.
CountLeaves(w) ==
  /\ At(w, "Leaves")
  /\ Becomes(w, [pc |-> "Write", mixed |-> req[w].mixed, pay |-> req[w].pay,
                 leave |-> Count("ON_LEAVE")])
  /\ UNCHANGED <<manager, rate, days, entry, approved, excused>>

\* PayrollGenerateView.post: of anybody but oneself.  PayrollBulkGenerateView.post:
\* of everybody on a shift but oneself, one after the other.
Generate(w, u) == u # Employee /\ CountFull(w)
GenerateAll(w, u) == u # Employee /\ CountFull(w)

\* Seeded fault: an entry that was finalized stays so.
WriteKeepsStatus(w) ==
  /\ At(w, "Write")
  /\ entry' = [status |-> IF entry.status = "FINALIZED" THEN "FINALIZED" ELSE "DRAFT",
               deleted |-> entry.deleted, pay |-> req[w].pay,
               leave |-> req[w].leave, tax |-> Tax(12 * rate * req[w].pay)]
  /\ excused' = req[w].mixed
  /\ Writes(w)
  /\ UNCHANGED <<manager, rate, days, approved>>

\* Seeded fault: a deleted entry is taken up again.
WriteRevives(w) ==
  /\ At(w, "Write")
  /\ entry' = [status |-> "DRAFT", deleted |-> FALSE, pay |-> req[w].pay,
               leave |-> req[w].leave, tax |-> Tax(12 * rate * req[w].pay)]
  /\ excused' = req[w].mixed
  /\ Writes(w)
  /\ UNCHANGED <<manager, rate, days, approved>>

\* update_or_create: amounts and DRAFT, in the row there is, deleted or not.
Write(w) ==
  /\ At(w, "Write")
  /\ entry' = [status |-> "DRAFT", deleted |-> entry.deleted, pay |-> req[w].pay,
               leave |-> req[w].leave, tax |-> Tax(12 * rate * req[w].pay)]
  /\ excused' = req[w].mixed
  /\ Writes(w)
  /\ UNCHANGED <<manager, rate, days, approved>>

\* PayrollListView.post: refused while there is an entry, and by the unique
\* key once there was one.
Create(status, pay) ==
  /\ entry.status = "NONE"
  /\ entry' = [NoEntry EXCEPT !.status = status, !.pay = pay]
  /\ excused' = TRUE
  /\ UNCHANGED <<manager, rate, days, req, approved>>

Visible == entry.status # "NONE" /\ ~ entry.deleted

\* PayrollDetailView.patch: every column is saved, the status as asked for.
PatchLoad(w) ==
  /\ At(w, "Idle") /\ Visible
  /\ Becomes(w, [pc |-> "Patch", saw |-> entry, stale |-> FALSE])
  /\ UNCHANGED <<manager, rate, days, entry, approved, excused>>

PatchSave(w, status, pay) ==
  /\ At(w, "Patch")
  /\ entry' = [req[w].saw EXCEPT !.status = status, !.pay = pay]
  /\ excused' = TRUE
  /\ Writes(w)
  /\ UNCHANGED <<manager, rate, days, approved>>

\* PayrollDetailView.delete.
Delete ==
  /\ Visible /\ entry' = [entry EXCEPT !.deleted = TRUE]
  /\ req' = [v \in Request |-> Outdated(req[v])]
  /\ UNCHANGED <<manager, rate, days, approved, excused>>

\* PayrollApproveView.post: DRAFT is read ...
ApproveLoad(w, u) ==
  /\ At(w, "Idle") /\ Visible /\ entry.status = "DRAFT" /\ MayDecide(u)
  /\ Becomes(w, [pc |-> "Approve", by |-> u, stale |-> FALSE])
  /\ UNCHANGED <<manager, rate, days, entry, approved, excused>>

\* ... and FINALIZED is saved.
ApproveSave(w) ==
  /\ At(w, "Approve")
  /\ entry' = [entry EXCEPT !.status = "FINALIZED"]
  /\ approved' = entry.pay
  /\ excused' = (excused \/ req[w].stale)
  /\ Writes(w)
  /\ UNCHANGED <<manager, rate, days>>

\* Seeded fault: an entry that was paid may be paid again.
PayLoadAgain(w, u) ==
  /\ At(w, "Idle") /\ Visible /\ entry.status \in {"FINALIZED", "PAID"} /\ MayDecide(u)
  /\ Becomes(w, [pc |-> "Pay", stale |-> FALSE])
  /\ UNCHANGED <<manager, rate, days, entry, approved, excused>>

\* PayrollMarkPaidView.post: FINALIZED is read ...
PayLoad(w, u) ==
  /\ At(w, "Idle") /\ Visible /\ entry.status = "FINALIZED" /\ MayDecide(u)
  /\ Becomes(w, [pc |-> "Pay", stale |-> FALSE])
  /\ UNCHANGED <<manager, rate, days, entry, approved, excused>>

\* ... and PAID is saved.
PaySave(w) ==
  /\ At(w, "Pay")
  /\ entry' = [entry EXCEPT !.status = "PAID"]
  /\ approved' = None
  /\ excused' = (excused \/ req[w].stale)
  /\ Writes(w)
  /\ UNCHANGED <<manager, rate, days>>

Next ==
  \/ \E d \in Day, status \in DayStatus : Attend(d, status)
  \/ \E w \in Request :
       \/ CountHalves(w) \/ CountLeaves(w) \/ Write(w)
       \/ PatchLoad(w) \/ ApproveSave(w) \/ PaySave(w)
       \/ \E u \in Person : \/ Generate(w, u) \/ GenerateAll(w, u)
                           \/ ApproveLoad(w, u) \/ PayLoad(w, u)
       \/ \E status \in Status, pay \in HandPays : PatchSave(w, status, pay)
  \/ \E status \in Status, pay \in HandPays : Create(status, pay)
  \/ Delete

Spec == Init /\ [][Next]_vars
----------------------------------------------------------------------------
\* The entry is well-formed, and deleted only after it was made.
TypeOK ==
  /\ days \in [Day -> DayStatus]
  /\ entry.status \in Status \cup {"NONE"} /\ entry.deleted \in BOOLEAN
  /\ entry.pay \in Int /\ entry.leave \in 0..Cardinality(Day)

\* Every payment is of an approval of its own, and of the amount approved: who
\* generates the month again takes the approval away with the old amounts.
\* Except after an entry by hand and in a request the entry changed under.
PaidAsApproved ==
  [][\A w \in Request :
       At(w, "Pay") /\ req'[w] = Free => approved = entry.pay \/ excused']_vars

\* The people reached from the employee along managers: those in every set
\* that has the manager and whoever manages one of its members.
Superiors ==
  {x \in Person : \A S \in SUBSET Person :
     manager[Employee] \in S /\ (\A y \in S : manager[y] \in S \cup {None}) => x \in S}

\* Whoever approves is above the employee, and never the employee, in
\* hierarchies that run in a circle too.
ApprovedFromAbove ==
  \A w \in Request : At(w, "Approve") =>
    req[w].by # Employee /\ (manager[Employee] # None => req[w].by \in Superiors)

\* Counted kind by kind, the days of the entry fit in the month, unless one
\* of them changed between two counts.
FitsTheMonth ==
  ~ excused => entry.pay + 2 * entry.leave <= 2 * Cardinality(Day)

\* What is written is what the preview showed, on days that stood still.
GeneratedAsPreviewed ==
  \A w \in Request : At(w, "Leaves") /\ ~ req[w].mixed => req[w].pay = Preview.pay

\* A deleted entry stays deleted: generating the month again writes to it
\* unseen, and only a patch that read it before brings it back.
DeletedStays ==
  [][entry.deleted /\ ~ entry'.deleted => \E w \in Request : At(w, "Patch") /\ req[w].stale]_vars

\* The tax is the sum of each slab's share at the slab's rate, at the edges
\* of the slabs too.
TaxIsProgressive ==
  LET g == 12 * rate * entry.pay
      Share(lo, hi) == IF g <= lo THEN 0 ELSE (IF g < hi THEN g ELSE hi) - lo
  IN ~ excused /\ entry.status # "NONE" =>
       entry.tax = 5 * Share(300000, 600000) + 10 * Share(600000, 900000)
                   + 15 * Share(900000, 1200000) + 20 * Share(1200000, g)
=============================================================================
