------------------------------ MODULE Billing ------------------------------
(***************************************************************************)
(* The milestones, invoices, payments and allocations of one project of    *)
(* one client (apps/payment).                                              *)
(*                                                                         *)
(* Every limit is checked against sums read before the write: the budget,  *)
(* an invoice's pending amount, a payment's unallocated amount.  Creating  *)
(* and changing a row is one transaction, without a lock; the other        *)
(* operations commit statement by statement.  A PATCH writes every column  *)
(* of the row it loaded, and may change its keys: an invoice goes to       *)
(* another milestone, an allocation to another invoice or payment.  An     *)
(* invoice takes its payments along when it is deleted, and a payment its  *)
(* invoices.                                                               *)
(*                                                                         *)
(* Amounts are whole paise; Tolerance is the one paisa of grace the checks *)
(* give.  late, a history variable, holds the requests that act on         *)
(* something another request has changed since they read it.               *)
(***************************************************************************)
EXTENDS Integers, Sequences, FiniteSets, FiniteSetsExt, Functions

CONSTANTS
  Request,     \* the server's request threads
  Milestone, Invoice, Payment, Allocation,  \* rows that may come to exist
  Amount,      \* the amounts a user may enter
  Tax,         \* Amount -> the tax added to an invoice's amount
  Budget,      \* Project.budget
  Tolerance,   \* Decimal("0.01")
  MaxEntries,  \* allocations entered with one new payment
  Edited,      \* the rows users PATCH, and ...
  Removed,     \* ... delete: bounds of an instance
  MaxDepth,    \* how deep a deletion may nest: a bound
  None         \* no milestone

ASSUME BillingAssumption ==
  /\ Amount \subseteq Nat \ {0} /\ Tax \in [Amount -> Nat]
  /\ Budget \in Nat \ {0} /\ Tolerance \in Nat /\ MaxEntries \in Nat
  /\ MaxDepth \in Nat
  /\ None \notin Milestone /\ Invoice \cap Payment = {}

VARIABLES
  milestone,   \* Milestone -> state, status, amount
  invoice,     \* Invoice -> state, amount, milestone, is_cancelled
  payment,     \* Payment -> state, amount
  allocation,  \* Allocation -> state, payment, invoice, amount
  req,         \* what each request thread is doing
  late

rows == <<milestone, invoice, payment, allocation>>
vars == <<rows, req, late>>

State == {"NONE", "LIVE", "DELETED"}
NoMilestone == [state |-> "NONE", status |-> "PENDING", amount |-> 0]
NoInvoice == [state |-> "NONE", amount |-> 0, milestone |-> None, cancelled |-> FALSE]
NoPayment == [state |-> "NONE", amount |-> 0]
NoAllocation == [state |-> "NONE"]

Exists(row) == row.state # "NONE"
Live(row) == row.state = "LIVE"
At(w, pc) == req[w].pc = pc
Becomes(w, r) == req' = [req EXCEPT ![w] = r]
Idle == [pc |-> "Idle"]

\* Invoice.save computes the total.
Total(row) == row.amount + Tax[row.amount]
Active(m) == {i \in Invoice : /\ Live(invoice[i]) /\ ~ invoice[i].cancelled
                              /\ invoice[i].milestone = m}
AllocationsTo(i) == {a \in Allocation : Exists(allocation[a]) /\ allocation[a].invoice = i}
AllocationsOf(p) == {a \in Allocation : Exists(allocation[a]) /\ allocation[a].payment = p}

\* received_amount and allocated_amount: deleted allocations count, too.
Incoming(i, but) ==
  [a \in {b \in AllocationsTo(i) \ but : Live(payment[allocation[b].payment])}
     |-> allocation[a].amount]
Received(i, but) == SumFunction(Incoming(i, but))
Allocated(p, but) == SumFunction([a \in AllocationsOf(p) \ but |-> allocation[a].amount])

\* project_budget_summary: what is billed and what is planned.
Billed(but) ==
  MapThenSumSet(LAMBDA i : invoice[i].amount,
                {i \in Invoice \ but : Live(invoice[i]) /\ ~ invoice[i].cancelled})
Planned(but) ==
  MapThenSumSet(LAMBDA m : milestone[m].amount, {m \in Milestone \ but : Live(milestone[m])})

\* Seeded fault: the remaining budget is not what others have left of it.
FitsIgnoring(amount, sum) == amount <= Budget + Tolerance

\* validate_milestone_amount and validate_invoice_amount.
Fits(amount, sum) == amount <= (IF sum > Budget THEN 0 ELSE Budget - sum) + Tolerance

\* Invoice.status = PAID, of an invoice loaded as row.
PaidUp(i, row) == ~ row.cancelled /\ Received(i, {}) >= Total(row)

\* What request r relies on having read: rows by name, sums by what they sum.
Account(x) == {x, <<"allocated", x>>, <<"received", x>>}
Books(p, i) == {<<"allocated", p>>, <<"received", i>>, p, i}
Held(r) ==
  CASE r.pc = "Bill" -> {r.milestone, <<"billed">>}
    [] r.pc \in {"Billed", "MarkPaid"} -> {r.milestone} \cup r.paid
    [] r.pc = "Invoice" -> {<<"billed">>}
    [] r.pc = "PatchInvoice" -> {r.invoice, <<"billed">>}
    [] r.pc = "Cancel" -> {r.invoice}
    [] r.pc = "Milestone" -> {<<"planned">>}
    [] r.pc = "PatchMilestone" -> {r.milestone, <<"planned">>}
    [] r.pc = "Allocate" -> Books(r.checked, r.row.invoice) \cup Books(r.row.payment, r.row.invoice)
    [] r.pc = "PatchAllocation" -> Books(r.row.payment, r.row.invoice) \cup {r.allocation}
    [] r.pc = "Settle" -> {r.invoice}
    [] r.pc \in {"Pay", "Entered"} -> UNION {{e.invoice, <<"received", e.invoice>>} : e \in r.entries}
    [] r.pc = "PatchPayment" -> {r.payment}
    [] r.pc = "Destroy" -> r.free \cup UNION {Account(x) : x \in r.seen}
    [] OTHER -> {}

\* Request w goes on as r, having changed X.
Step(w, r, X) ==
  /\ Becomes(w, r)
  /\ late' = (late \cup {v \in Request \ {w} : Held(req[v]) \cap X # {}})
               \ (IF r = Idle THEN {w} ELSE {})
----------------------------------------------------------------------------
Init ==
  /\ milestone = [m \in Milestone |-> NoMilestone]
  /\ invoice = [i \in Invoice |-> NoInvoice]
  /\ payment = [p \in Payment |-> NoPayment]
  /\ allocation = [a \in Allocation |-> NoAllocation]
  /\ req = [w \in Request |-> Idle]
  /\ late = {}

\* MilestoneCreateSerializer: a new milestone must fit in the budget ...
MilestoneCheck(w, amount) ==
  /\ At(w, "Idle") /\ Fits(amount, Planned({}))
  /\ Step(w, [pc |-> "Milestone", amount |-> amount], {})
  /\ UNCHANGED rows

MilestoneInsert(w, m) ==
  /\ At(w, "Milestone") /\ milestone[m] = NoMilestone
  /\ milestone' = [milestone EXCEPT ![m] =
       [NoMilestone EXCEPT !.state = "LIVE", !.amount = req[w].amount]]
  /\ Step(w, Idle, {m, <<"planned">>})
  /\ UNCHANGED <<invoice, payment, allocation>>

\* ... and keeps its amount once it is invoiced or paid.
MilestonePatchLoad(w, m, amount) ==
  /\ At(w, "Idle") /\ m \in Edited /\ Live(milestone[m])
  /\ milestone[m].status # "PENDING" => milestone[m].amount = amount
  /\ Fits(amount, Planned({m}))
  /\ Step(w, [pc |-> "PatchMilestone", milestone |-> m,
              row |-> [milestone[m] EXCEPT !.amount = amount]], {})
  /\ UNCHANGED rows

MilestonePatchSave(w) ==
  /\ At(w, "PatchMilestone")
  /\ milestone' = [milestone EXCEPT ![req[w].milestone] = req[w].row]
  /\ Step(w, Idle, {req[w].milestone, <<"planned">>})
  /\ UNCHANGED <<invoice, payment, allocation>>

MilestoneDelete(w, m) ==
  /\ At(w, "Idle") /\ m \in Removed /\ Live(milestone[m])
  /\ milestone' = [milestone EXCEPT ![m].state = "DELETED"]
  /\ Step(w, Idle, {m, <<"planned">>})
  /\ UNCHANGED <<invoice, payment, allocation>>

\* Seeded fault: the guard on paid milestones is missing.
GenerateLoadPaid(w, m) ==
  /\ At(w, "Idle") /\ Live(milestone[m])
  /\ Active(m) = {}
  /\ Fits(milestone[m].amount, Billed({}))
  /\ Step(w, [pc |-> "Bill", milestone |-> m, amount |-> milestone[m].amount], {})
  /\ UNCHANGED rows

\* generate_invoice: the milestone, its active invoices and the budget, read ...
GenerateLoad(w, m) ==
  /\ At(w, "Idle") /\ Live(milestone[m])
  /\ milestone[m].status # "PAID" /\ Active(m) = {}
  /\ Fits(milestone[m].amount, Billed({}))
  /\ Step(w, [pc |-> "Bill", milestone |-> m, amount |-> milestone[m].amount], {})
  /\ UNCHANGED rows

\* ... the invoice, committed ...
GenerateInvoice(w, i) ==
  /\ At(w, "Bill") /\ invoice[i] = NoInvoice
  /\ LET m == req[w].milestone
     IN /\ invoice' = [invoice EXCEPT ![i] =
             [NoInvoice EXCEPT !.state = "LIVE", !.amount = req[w].amount, !.milestone = m]]
        /\ Step(w, [pc |-> "Billed", milestone |-> m, paid |-> {}], {i, m, <<"billed">>})
  /\ UNCHANGED <<milestone, payment, allocation>>

\* Seeded fault: the milestone gets the status of the invoice.
GenerateMarkUnpaid(w) ==
  /\ At(w, "Billed")
  /\ milestone' = [milestone EXCEPT ![req[w].milestone].status = "UNPAID"]
  /\ Step(w, Idle, {req[w].milestone})
  /\ UNCHANGED <<invoice, payment, allocation>>

\* ... and the milestone's status.
GenerateMark(w) ==
  /\ At(w, "Billed")
  /\ milestone' = [milestone EXCEPT ![req[w].milestone].status = "INVOICED"]
  /\ Step(w, Idle, {req[w].milestone})
  /\ UNCHANGED <<invoice, payment, allocation>>

\* InvoiceCreateSerializer; the milestone's status and invoices are not looked at.
InvoiceCheck(w, amount, m) ==
  /\ At(w, "Idle")
  /\ m # None => Exists(milestone[m])
  /\ Fits(amount, Billed({}))
  /\ Step(w, [pc |-> "Invoice", amount |-> amount, milestone |-> m], {})
  /\ UNCHANGED rows

InvoiceInsert(w, i) ==
  /\ At(w, "Invoice") /\ invoice[i] = NoInvoice
  /\ invoice' = [invoice EXCEPT ![i] =
       [NoInvoice EXCEPT !.state = "LIVE", !.amount = req[w].amount,
                         !.milestone = req[w].milestone]]
  /\ Step(w, Idle, {i, req[w].milestone, <<"billed">>})
  /\ UNCHANGED <<milestone, payment, allocation>>

\* The milestone may be changed, or taken away; neither it nor the one the
\* invoice had is told.
InvoicePatchLoad(w, i, amount, m) ==
  /\ At(w, "Idle") /\ i \in Edited /\ Live(invoice[i]) /\ Fits(amount, Billed({i}))
  /\ m # None => Exists(milestone[m])
  /\ Step(w, [pc |-> "PatchInvoice", invoice |-> i,
              row |-> [invoice[i] EXCEPT !.amount = amount, !.milestone = m]], {})
  /\ UNCHANGED rows

InvoicePatchSave(w) ==
  /\ At(w, "PatchInvoice")
  /\ LET i == req[w].invoice
     IN /\ invoice' = [invoice EXCEPT ![i] = req[w].row]
        /\ Step(w, Idle, {i, invoice[i].milestone, req[w].row.milestone, <<"billed">>})
  /\ UNCHANGED <<milestone, payment, allocation>>

\* cancel_invoice leaves the milestone as it is.
CancelLoad(w, i) ==
  /\ At(w, "Idle") /\ Live(invoice[i]) /\ ~ invoice[i].cancelled
  /\ Step(w, [pc |-> "Cancel", invoice |-> i], {})
  /\ UNCHANGED rows

CancelSave(w) ==
  /\ At(w, "Cancel")
  /\ LET i == req[w].invoice
     IN /\ invoice' = [invoice EXCEPT ![i].cancelled = TRUE]
        /\ Step(w, Idle, {i, invoice[i].milestone, <<"billed">>})
  /\ UNCHANGED <<milestone, payment, allocation>>

\* Seeded fault: an allocation is checked against the invoice alone.
AllocationFitsInvoice(amount, p, i, but) ==
  amount <= Total(invoice[i]) - Received(i, but) + Tolerance

\* PaymentAllocationCreateSerializer.validate.
AllocationFits(amount, p, i, but) ==
  /\ amount <= Total(invoice[i]) - Received(i, but) + Tolerance
  /\ amount <= payment[p].amount - Allocated(p, but) + Tolerance

\* Both ways to allocate a payment: the payment must be live, the invoice need
\* not be, and may be cancelled.  Only the action on payments settles; it checks
\* the payment its request names, if it names one, and allocates its own.
AllocateLoad(w, p, q, i, amount, settles) ==
  /\ At(w, "Idle") /\ Live(payment[p]) /\ Live(payment[q]) /\ Exists(invoice[i])
  /\ settles \/ p = q
  /\ AllocationFits(amount, q, i, {})
  /\ Step(w, [pc |-> "Allocate", row |-> [state |-> "LIVE", payment |-> p, invoice |-> i,
                                          amount |-> amount],
              checked |-> q, bill |-> invoice[i], settles |-> settles], {})
  /\ UNCHANGED rows

AllocateInsert(w, a) ==
  /\ At(w, "Allocate") /\ allocation[a] = NoAllocation
  /\ LET row == req[w].row
     IN /\ allocation' = [allocation EXCEPT ![a] = row]
        /\ Step(w, IF req[w].settles
                   THEN [pc |-> "Settle", invoice |-> row.invoice, bill |-> req[w].bill]
                   ELSE Idle,
                Books(row.payment, row.invoice))
  /\ UNCHANGED <<milestone, invoice, payment>>

\* Seeded fault: a milestone is paid with the first allocation to its invoice.
SettlesAny(i, bill) == bill.milestone # None

\* if invoice.milestone and invoice.status == PAID.
Settles(i, bill) == bill.milestone # None /\ PaidUp(i, bill)

Settle(w) ==
  /\ At(w, "Settle")
  /\ LET r == req[w]
     IN Step(w, IF Settles(r.invoice, r.bill)
                THEN [pc |-> "MarkPaid", milestone |-> r.bill.milestone,
                      paid |-> {r.invoice, <<"received", r.invoice>>}]
                ELSE Idle, {})
  /\ UNCHANGED rows

MarkPaid(w) ==
  /\ At(w, "MarkPaid")
  /\ milestone' = [milestone EXCEPT ![req[w].milestone].status = "PAID"]
  /\ Step(w, Idle, {req[w].milestone})
  /\ UNCHANGED <<invoice, payment, allocation>>

\* An allocation is changed, to whatever payment and invoice, or deleted on its
\* own, which frees no amount.
AllocationPatchLoad(w, a, p, i, amount) ==
  /\ At(w, "Idle") /\ a \in Edited /\ Live(allocation[a])
  /\ Live(payment[p]) /\ Exists(invoice[i])
  /\ AllocationFits(amount, p, i, {a})
  /\ Step(w, [pc |-> "PatchAllocation", allocation |-> a,
              row |-> [allocation[a] EXCEPT !.payment = p, !.invoice = i, !.amount = amount]], {})
  /\ UNCHANGED rows

AllocationPatchSave(w) ==
  /\ At(w, "PatchAllocation")
  /\ LET a == req[w].allocation
         row == req[w].row
     IN /\ allocation' = [allocation EXCEPT ![a] = row]
        /\ Step(w, Idle, Books(row.payment, row.invoice)
                           \cup Books(allocation[a].payment, allocation[a].invoice) \cup {a})
  /\ UNCHANGED <<milestone, invoice, payment>>

AllocationDelete(w, a) ==
  /\ At(w, "Idle") /\ a \in Removed /\ Live(allocation[a])
  /\ allocation' = [allocation EXCEPT ![a].state = "DELETED"]
  /\ Step(w, Idle, {a})
  /\ UNCHANGED <<milestone, invoice, payment>>

\* What may be entered along with a new payment: an amount for each of a few
\* allocation rows to be, of whatever invoices.
Entry == [invoice : Invoice, amount : Amount]
Entries == UNION {[A -> Entry] : A \in {S \in SUBSET Allocation : Cardinality(S) <= MaxEntries}}
EntrySum(entries) == MapThenSumSet(LAMBDA a : entries[a].amount, DOMAIN entries)

\* Seeded fault: an entry is held against the total, not what is pending.
EntryFitsTotal(e) ==
  /\ Exists(invoice[e.invoice])
  /\ e.amount <= Total(invoice[e.invoice]) + Tolerance

\* PaymentCreateSerializer.validate looks at each entry by itself.
EntryFits(e) ==
  /\ Exists(invoice[e.invoice])
  /\ e.amount <= Total(invoice[e.invoice]) - Received(e.invoice, {}) + Tolerance

PayCheck(w, amount, entries) ==
  /\ At(w, "Idle")
  /\ \A a \in DOMAIN entries : allocation[a] = NoAllocation /\ EntryFits(entries[a])
  /\ EntrySum(entries) <= amount + Tolerance
  /\ Step(w, [pc |-> "Pay", amount |-> amount, new |-> entries,
              entries |-> {entries[a] : a \in DOMAIN entries}], {})
  /\ UNCHANGED rows

\* What invoice i receives, the entries included, and whether that is all.
IncomingWith(i, new) ==
  LET before == Incoming(i, {})
  IN [a \in {b \in DOMAIN new : new[b].invoice = i} \cup DOMAIN before |->
        IF a \in DOMAIN new THEN new[a].amount ELSE before[a]]
PaidUpWith(i, new) ==
  ~ invoice[i].cancelled /\ SumFunction(IncomingWith(i, new)) >= Total(invoice[i])

\* The milestones whose invoices are PAID now that the entries are in.
SettledBy(new) ==
  {m \in Milestone : \E a \in DOMAIN new : /\ invoice[new[a].invoice].milestone = m
                                          /\ PaidUpWith(new[a].invoice, new)}

\* PaymentCreateSerializer.create is one transaction: its rows are there to be
\* read by itself ...
PayRead(w) ==
  /\ At(w, "Pay")
  /\ Step(w, [pc |-> "Entered", amount |-> req[w].amount, new |-> req[w].new,
              entries |-> req[w].entries, paid |-> SettledBy(req[w].new)], {})
  /\ UNCHANGED rows

\* ... before it commits.
PayInsert(w, p) ==
  /\ At(w, "Entered") /\ payment[p] = NoPayment
  /\ LET new == req[w].new
         paid == req[w].paid
     IN /\ \A a \in DOMAIN new : allocation[a] = NoAllocation
        /\ payment' = [payment EXCEPT ![p] = [state |-> "LIVE", amount |-> req[w].amount]]
        /\ allocation' = [a \in Allocation |->
             IF a \notin DOMAIN new THEN allocation[a]
             ELSE [state |-> "LIVE", payment |-> p, invoice |-> new[a].invoice,
                   amount |-> new[a].amount]]
        /\ UNCHANGED invoice
        /\ milestone' = [m \in Milestone |->
             IF m \in paid THEN [milestone[m] EXCEPT !.status = "PAID"] ELSE milestone[m]]
        /\ Step(w, Idle, paid \cup UNION {Books(p, e.invoice) : e \in req[w].entries})

\* A PATCH of a payment does not look at what is allocated of it.
PaymentPatchLoad(w, p, amount) ==
  /\ At(w, "Idle") /\ p \in Edited /\ Live(payment[p])
  /\ Step(w, [pc |-> "PatchPayment", payment |-> p,
              row |-> [payment[p] EXCEPT !.amount = amount]], {})
  /\ UNCHANGED rows

PaymentPatchSave(w) ==
  /\ At(w, "PatchPayment")
  /\ LET p == req[w].payment
     IN /\ payment' = [payment EXCEPT ![p] = req[w].row]
        /\ Step(w, Idle, {p} \cup {<<"received", allocation[a].invoice>> : a \in AllocationsOf(p)})
  /\ UNCHANGED <<milestone, invoice, allocation>>
----------------------------------------------------------------------------
(***************************************************************************)
(* soft_delete of an invoice or a payment.  The calls nest, so what is     *)
(* left to do is a stack of frames: delete a row, release its milestone,   *)
(* list its live allocations, delete those one by one and what is at their *)
(* other end.  Each row is deleted as it was loaded: an invoice with the    *)
(* milestone it had, an allocation with its other end.                     *)
(***************************************************************************)
Frame(do, x) == [do |-> do, on |-> x]
InvoiceFrame(do, i, m) == [do |-> do, on |-> i, of |-> m]
Destroying(w, do) == At(w, "Destroy") /\ req[w].todo # <<>> /\ Head(req[w].todo).do = do

\* Request w goes on with the frames of its cascade, having changed X.
Continue(w, frames, X) ==
  Step(w, [req[w] EXCEPT !.todo = frames \o Tail(@)], X)

\* The same after row x was deleted, whose allocations are next.
Marked(w, x, frames, X) ==
  Step(w, [req[w] EXCEPT !.todo = frames \o Tail(@), !.seen = @ \cup {x}], X)

DestroyStart(w, frame) ==
  /\ At(w, "Idle")
  /\ Step(w, [pc |-> "Destroy", todo |-> <<frame>>, seen |-> {}, free |-> {}], {})
  /\ UNCHANGED rows
InvoiceDestroy(w, i) ==
  i \in Removed /\ Live(invoice[i]) /\ DestroyStart(w, InvoiceFrame("invoice", i, invoice[i].milestone))
PaymentDestroy(w, p) ==
  p \in Removed /\ Live(payment[p]) /\ DestroyStart(w, Frame("payment", p))

DestroyInvoice(w) ==
  /\ Destroying(w, "invoice")
  /\ LET i == Head(req[w].todo).on
         m == Head(req[w].todo).of
     IN /\ invoice' = [invoice EXCEPT ![i].state = "DELETED"]
        /\ Marked(w, i, <<InvoiceFrame("release", i, m), Frame("of invoice", i)>>,
                  {i, invoice[i].milestone, <<"billed">>})
  /\ UNCHANGED <<milestone, payment, allocation>>

\* Seeded fault: the milestone's other invoices are not looked for.
OthersIgnored(i, m) == {}

\* The active invoices of milestone m other than i.
OthersActive(i, m) == Active(m) \ {i}

\* With no other active invoice the milestone is to be billed again.
DestroyRelease(w) ==
  /\ Destroying(w, "release")
  /\ LET i == Head(req[w].todo).on
         m == Head(req[w].todo).of
     IN IF m = None \/ OthersActive(i, m) # {} THEN Continue(w, <<>>, {})
        ELSE Step(w, [req[w] EXCEPT !.todo = <<Frame("reset", m)>> \o Tail(@),
                                    !.free = @ \cup {m}], {})
  /\ UNCHANGED rows

DestroyReset(w) ==
  /\ Destroying(w, "reset")
  /\ LET m == Head(req[w].todo).on
     IN /\ milestone' = [milestone EXCEPT ![m].status = "PENDING"]
        /\ Continue(w, <<>>, {m})
  /\ UNCHANGED <<invoice, payment, allocation>>

\* Seeded fault: a payment goes without what else it is allocated to.
DestroyPaymentAlone(w) ==
  /\ Destroying(w, "payment")
  /\ LET p == Head(req[w].todo).on
     IN /\ payment' = [payment EXCEPT ![p].state = "DELETED"]
        /\ Marked(w, p, <<>>,
                    {p} \cup {<<"received", allocation[a].invoice>> : a \in AllocationsOf(p)})
  /\ UNCHANGED <<milestone, invoice, allocation>>

DestroyPayment(w) ==
  /\ Destroying(w, "payment")
  /\ LET p == Head(req[w].todo).on
     IN /\ payment' = [payment EXCEPT ![p].state = "DELETED"]
        /\ Marked(w, p, <<Frame("of payment", p)>>,
                    {p} \cup {<<"received", allocation[a].invoice>> : a \in AllocationsOf(p)})
  /\ UNCHANGED <<milestone, invoice, allocation>>

\* The allocations still to be deleted, if there are any: other end by key.
Deleting(do, ends) == IF DOMAIN ends = {} THEN <<>> ELSE <<Frame(do, ends)>>

\* list(self.allocations.filter(is_deleted=False)).
DestroyList(w) ==
  /\ LET x == Head(req[w].todo).on
         payments == [a \in {b \in AllocationsTo(x) : Live(allocation[b])} |-> allocation[a].payment]
         invoices == [a \in {b \in AllocationsOf(x) : Live(allocation[b])} |-> allocation[a].invoice]
     IN \/ Destroying(w, "of invoice") /\ Continue(w, Deleting("via invoice", payments), {})
        \/ Destroying(w, "of payment") /\ Continue(w, Deleting("via payment", invoices), {})
  /\ UNCHANGED rows

\* What follows the deletion of an allocation: its other end, unless deleted.
OtherEnd(do, x) ==
  CASE do = "via invoice" /\ Live(payment[x]) -> <<Frame("payment", x)>>
    [] do = "via payment" /\ Live(invoice[x]) -> <<InvoiceFrame("invoice", x, invoice[x].milestone)>>
    [] OTHER -> <<>>

DestroyAllocation(w) ==
  /\ Destroying(w, "via invoice") \/ Destroying(w, "via payment")
  /\ Len(req[w].todo) <= MaxDepth
  /\ LET frame == Head(req[w].todo)
         ends == frame.on
     IN \E a \in DOMAIN ends :
          /\ allocation' = [allocation EXCEPT ![a].state = "DELETED"]
          /\ Continue(w, OtherEnd(frame.do, ends[a])
                           \o Deleting(frame.do, [b \in DOMAIN ends \ {a} |-> ends[b]]), {a})
  /\ UNCHANGED <<milestone, invoice, payment>>

DestroyEnd(w) ==
  /\ At(w, "Destroy") /\ req[w].todo = <<>>
  /\ Step(w, Idle, {})
  /\ UNCHANGED rows

\* A thread dies between two commits; a transaction is rolled back.  Two rows
\* numbered alike end this way as well: the second insert is refused.
Die(w) ==
  /\ ~ At(w, "Idle")
  /\ Becomes(w, Idle) /\ late' = late \ {w}
  /\ UNCHANGED rows

Milestones(w) ==
  \/ \E amount \in Amount : MilestoneCheck(w, amount)
  \/ \E m \in Milestone : MilestoneInsert(w, m) \/ MilestoneDelete(w, m) \/ GenerateLoad(w, m)
  \/ \E m \in Milestone, amount \in Amount : MilestonePatchLoad(w, m, amount)
  \/ MilestonePatchSave(w)
  \/ (\E i \in Invoice : GenerateInvoice(w, i)) \/ GenerateMark(w)
Invoices(w) ==
  \/ \E amount \in Amount, m \in Milestone \cup {None} : InvoiceCheck(w, amount, m)
  \/ \E i \in Invoice : InvoiceInsert(w, i) \/ CancelLoad(w, i) \/ InvoiceDestroy(w, i)
  \/ \E i \in Invoice, amount \in Amount, m \in Milestone \cup {None} : InvoicePatchLoad(w, i, amount, m)
  \/ InvoicePatchSave(w) \/ CancelSave(w)
Payments(w) ==
  \/ \E amount \in Amount, entries \in Entries : PayCheck(w, amount, entries)
  \/ PayRead(w)
  \/ \E p \in Payment : PayInsert(w, p) \/ PaymentDestroy(w, p)
  \/ \E p \in Payment, amount \in Amount : PaymentPatchLoad(w, p, amount)
  \/ PaymentPatchSave(w)
Allocations(w) ==
  \/ \E p, q \in Payment, i \in Invoice, amount \in Amount, s \in BOOLEAN :
       AllocateLoad(w, p, q, i, amount, s)
  \/ \E a \in Allocation : AllocateInsert(w, a) \/ AllocationDelete(w, a)
  \/ Settle(w) \/ MarkPaid(w)
  \/ \E a \in Allocation, p \in Payment, i \in Invoice, amount \in Amount :
       AllocationPatchLoad(w, a, p, i, amount)
  \/ AllocationPatchSave(w)
Cascade(w) ==
  \/ DestroyInvoice(w) \/ DestroyRelease(w) \/ DestroyReset(w) \/ DestroyPayment(w)
  \/ DestroyList(w) \/ DestroyAllocation(w) \/ DestroyEnd(w)

Next == \E w \in Request :
  Milestones(w) \/ Invoices(w) \/ Payments(w) \/ Allocations(w) \/ Cascade(w) \/ Die(w)

Spec == Init /\ [][Next]_vars
----------------------------------------------------------------------------
MilestoneRow == [state : State, status : {"PENDING", "INVOICED", "PAID"}, amount : Amount \cup {0}]
InvoiceRow == [state : State, amount : Amount \cup {0}, milestone : Milestone \cup {None},
               cancelled : BOOLEAN]
PaymentRow == [state : State, amount : Amount \cup {0}]
AllocationRow == [state : {"LIVE", "DELETED"}, payment : Payment, invoice : Invoice, amount : Amount]

Frames ==
  [do : {"invoice", "release"}, on : Invoice, of : Milestone \cup {None}]
    \cup [do : {"of invoice"}, on : Invoice]
    \cup [do : {"payment", "of payment"}, on : Payment]
    \cup [do : {"reset"}, on : Milestone]
    \cup [do : {"via invoice"}, on : UNION {[A -> Payment] : A \in SUBSET Allocation}]
    \cup [do : {"via payment"}, on : UNION {[A -> Invoice] : A \in SUBSET Allocation}]
Req ==
  {Idle} \cup [pc : {"Milestone"}, amount : Amount]
    \cup [pc : {"PatchMilestone"}, milestone : Milestone, row : MilestoneRow]
    \cup [pc : {"Bill"}, milestone : Milestone, amount : Amount \cup {0}]
    \cup [pc : {"Billed"}, milestone : Milestone, paid : {{}}]
    \cup [pc : {"Invoice"}, amount : Amount, milestone : Milestone \cup {None}]
    \cup [pc : {"PatchInvoice"}, invoice : Invoice, row : InvoiceRow]
    \cup [pc : {"Cancel"}, invoice : Invoice]
    \cup [pc : {"Allocate"}, row : AllocationRow, checked : Payment, bill : InvoiceRow, settles : BOOLEAN]
    \cup [pc : {"Settle"}, invoice : Invoice, bill : InvoiceRow]
    \cup [pc : {"MarkPaid"}, milestone : Milestone, paid : {{i, <<"received", i>>} : i \in Invoice}]
    \cup [pc : {"PatchAllocation"}, allocation : Allocation, row : AllocationRow]
    \cup [pc : {"Pay"}, amount : Amount, new : Entries, entries : SUBSET Entry]
    \cup [pc : {"Entered"}, amount : Amount, new : Entries, entries : SUBSET Entry,
          paid : SUBSET Milestone]
    \cup [pc : {"PatchPayment"}, payment : Payment, row : PaymentRow]
    \cup [pc : {"Destroy"}, todo : Seq(Frames), seen : SUBSET (Invoice \cup Payment),
          free : SUBSET Milestone]

RowsTyped ==
  /\ milestone \in [Milestone -> MilestoneRow]
  /\ invoice \in [Invoice -> InvoiceRow]
  /\ payment \in [Payment -> PaymentRow]
  /\ allocation \in [Allocation -> {NoAllocation} \cup AllocationRow]

\* Rows hold what their columns allow, requests what they read from them.
TypeOK == RowsTyped /\ req \in [Request -> Req] /\ late \subseteq Request

\* What is still to be done of a deletion.
Pending(r) == Range(r.todo)

\* A frame of a deletion leads to rows that exist.
Leads(f) ==
  /\ f.do = "invoice" => Exists(invoice[f.on])
  /\ f.do = "payment" => Exists(payment[f.on])
  /\ f.do \in {"via invoice", "via payment"} => \A a \in DOMAIN f.on : Exists(allocation[a])

\* The keys a request holds, overtaken or not, are of rows that exist.
Linked(r) ==
  /\ r.pc \in {"PatchInvoice", "Cancel"} => Exists(invoice[r.invoice])
  /\ r.pc \in {"PatchInvoice", "PatchPayment"} => r.row.state = "LIVE"
  /\ r.pc = "PatchAllocation" => Exists(allocation[r.allocation])
  /\ r.pc \in {"Allocate", "PatchAllocation"} =>
       Exists(payment[r.row.payment]) /\ Exists(invoice[r.row.invoice])
  /\ r.pc = "Allocate" => Exists(payment[r.checked])
  /\ r.pc \in {"Pay", "Entered"} =>
       /\ r.entries = {r.new[a] : a \in DOMAIN r.new}
       /\ \A e \in r.entries : Exists(invoice[e.invoice])
  /\ r.pc = "Destroy" => \A f \in Pending(r) : Leads(f)

\* Wherever PATCHes send it, an allocation is of a payment and an invoice that
\* exist, and no request is about to send it elsewhere.
KeysHold ==
  /\ \A a \in Allocation : Exists(allocation[a]) =>
       Exists(payment[allocation[a].payment]) /\ Exists(invoice[allocation[a].invoice])
  /\ \A w \in Request : Linked(req[w])

\* One of the frames deletes allocation a.
Takes(frames, a) ==
  \/ Frame("of invoice", allocation[a].invoice) \in frames
  \/ Frame("of payment", allocation[a].payment) \in frames
  \/ \E f \in frames : f.do \in {"via invoice", "via payment"} /\ a \in DOMAIN f.on

\* Allocation a is of an invoice or a payment that deletion r has deleted.
Orphaned(r, a) ==
  Live(allocation[a]) /\ {allocation[a].payment, allocation[a].invoice} \cap r.seen # {}

\* Deletion r is on its way: what it is to release is not billed, and what it
\* has orphaned is still to be deleted.
OnItsWay(r) ==
  /\ \A f \in Pending(r) :
       /\ f.do = "release" => f.on \in r.seen /\ ~ Live(invoice[f.on])
       /\ f.do = "reset" => f.on \in r.free /\ Active(f.on) = {}
  /\ \A a \in Allocation : Orphaned(r, a) => Takes(Pending(r), a)

\* What request r has read is still so.
Current(r) ==
  /\ r.pc = "PatchMilestone" => r.row.status = milestone[r.milestone].status
  /\ r.pc \in {"Bill", "Billed"} => milestone[r.milestone].status # "PAID"
  /\ r.pc = "Allocate" => r.bill = invoice[r.row.invoice]
  /\ r.pc = "Settle" => r.bill = invoice[r.invoice]
  /\ r.pc = "MarkPaid" =>
       \E i \in Invoice : /\ r.paid = {i, <<"received", i>>}
                          /\ invoice[i].milestone = r.milestone /\ PaidUp(i, invoice[i])
  /\ r.pc = "Entered" => r.paid = SettledBy(r.new)
  /\ r.pc = "Destroy" => OnItsWay(r)

\* Every request that is not late sees the rows as they are.
ReadsAreCurrent == \A w \in Request \ late : Current(req[w])

\* The step is one of a request that something it has read was changed under.
ActsLate == \E w \in late : req'[w] # req[w]

\* A sum of amounts grows by what is left of the budget, or by the tolerance.
WithinBudget(before, after) ==
  after <= (IF before > Budget THEN before ELSE Budget) + Tolerance

\* No request bills or plans more than what is left of the budget, give or take
\* the paisa each may be over, unless the sum it checked was overtaken
\* (validate_invoice_amount, validate_milestone_amount).
BudgetKept ==
  [][<<milestone, invoice>>' # <<milestone, invoice>> /\ ~ ActsLate =>
       /\ WithinBudget(Billed({}), Billed({})')
       /\ WithinBudget(Planned({}), Planned({})')]_vars

\* An invoice is entered twice with the payment being created.
EntersTwice(i) ==
  \E w \in Request :
    /\ At(w, "Entered") /\ req'[w] # req[w]
    /\ \E a, b \in DOMAIN req[w].new : a # b /\ {req[w].new[a].invoice, req[w].new[b].invoice} = {i}

\* What an invoice receives never passes its total by more than the tolerance,
\* by whichever way a payment is allocated, unless the request was overtaken or
\* enters the invoice twice (PaymentAllocationCreateSerializer.validate).
ReceiptsWithinTotal ==
  [][<<allocation, payment>>' # <<allocation, payment>> => \A i \in Invoice :
       Received(i, {})' > Received(i, {}) =>
         Received(i, {})' <= Total(invoice[i])' + Tolerance \/ ActsLate \/ EntersTwice(i)]_vars

\* An allocation is entered to payment p that was checked against another one.
ChecksAnother(p) ==
  \E w \in Request :
    At(w, "Allocate") /\ req'[w] # req[w] /\ req[w].row.payment = p /\ req[w].checked # p

\* No more of a payment is allocated than was paid, unless the request was
\* overtaken or names another payment than the one it allocates.
AllocationsWithinPayment ==
  [][allocation' # allocation => \A p \in Payment :
       Allocated(p, {})' > Allocated(p, {}) =>
         Allocated(p, {})' <= payment'[p].amount + Tolerance \/ ActsLate \/ ChecksAnother(p)]_vars

\* A milestone becomes PAID only when an invoice of it has been received in
\* full, at that moment, unless the request was overtaken.
PaidWhenReceived ==
  [][\A m \in Milestone :
       milestone[m].status # "PAID" /\ milestone'[m].status = "PAID" =>
         \/ ActsLate
         \/ \E i \in Invoice : invoice[i].milestone = m /\ PaidUp(i, invoice[i])']_vars

\* A paid milestone is not billed again: it leaves PAID only when its last
\* active invoice is deleted, unless the request was overtaken.
PaidIsFinal ==
  [][\A m \in Milestone :
       milestone[m].status = "PAID" /\ milestone'[m].status # "PAID" =>
         ActsLate \/ milestone'[m].status = "PENDING"]_vars

\* A deletion sends a milestone back to PENDING only when no active invoice of
\* it is left, unless one was made meanwhile (Invoice.soft_delete).
ReleasedWhenUnbilled ==
  [][\A m \in Milestone :
       milestone[m].status # "PENDING" /\ milestone'[m].status = "PENDING" =>
         ActsLate \/ Active(m) = {}]_vars

\* The cascade is complete: when it ends, no live allocation has a payment or
\* an invoice it deleted, however payments and invoices share allocations,
\* unless another request allocated to one of them meanwhile.
CascadeIsComplete ==
  \A w \in Request \ late :
    At(w, "Destroy") /\ req[w].todo = <<>> =>
      \A a \in Allocation : Live(allocation[a]) =>
        {allocation[a].payment, allocation[a].invoice} \cap req[w].seen = {}

\* The rows agree after every step: allocations lead to rows that exist, what
\* requests hold that were not overtaken is so, and a cascade leaves nothing behind.
RowsAgree == TypeOK /\ KeysHold /\ ReadsAreCurrent /\ CascadeIsComplete

\* A milestone leaves PENDING and PAID as it should: PaidIsFinal and
\* ReleasedWhenUnbilled.
MilestoneReleases == PaidIsFinal /\ ReleasedWhenUnbilled

\* "Check allocation does not exceed invoice pending amount"
\* (payment/serializers.py:381): no new payment brings an invoice more than it
\* was still waiting for.
EntriesWithinPending ==
  [][\A w \in Request, p \in Payment, i \in Invoice :
       PayInsert(w, p) /\ Received(i, {})' > Received(i, {})
         => Received(i, {})' <= Total(invoice[i]) + Tolerance]_vars
=============================================================================
