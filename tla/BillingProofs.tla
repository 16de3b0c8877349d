--------------------------- MODULE BillingProofs ---------------------------
(***************************************************************************)
(* Theorems about Billing for every set of requests, rows, amounts and     *)
(* taxes: RowsAgree is inductive, and the status of a milestone changes as *)
(* it should.  The section order is: what a step that changed X leaves as  *)
(* it was, and so what the other requests still know; what the writes of   *)
(* each table are; one lemma per kind of request; the theorems.  A second  *)
(* round, of the same shape, is about sums of money in tables of any       *)
(* finite size: SumsInv is inductive, given RowsAgree, and the budget, the *)
(* totals of invoices and the amounts of payments are kept.                *)
(***************************************************************************)
EXTENDS Billing, Sums, TLAPS

(***************************************************************************)
(* What a step leaves                                                      *)
(***************************************************************************)
\* Rows that exist go on existing.
KeysStay ==
  /\ \A a \in Allocation : Exists(allocation[a]) => Exists(allocation'[a])
  /\ \A p \in Payment : Exists(payment[p]) => Exists(payment'[p])
  /\ \A i \in Invoice : Exists(invoice[i]) => Exists(invoice'[i])

\* What an allocation is of.
Keys(row) == {row.payment, row.invoice}

\* A step that says it changed X has changed nothing else that requests rely on.
Footprint(X) ==
  /\ KeysStay
  /\ \A m \in Milestone \ X : milestone'[m] = milestone[m] /\ Active(m)' \subseteq Active(m)
  /\ \A i \in Invoice \ X : invoice'[i] = invoice[i]
  /\ \A i \in Invoice : <<"received", i>> \notin X => Incoming(i, {})' = Incoming(i, {})
  /\ \A a \in Allocation : Live(allocation'[a]) /\ ~ Live(allocation[a]) =>
       allocation'[a].payment \in X /\ allocation'[a].invoice \in X
  /\ \A a \in Allocation : Exists(allocation[a]) =>
       \/ /\ allocation'[a].payment = allocation[a].payment
          /\ allocation'[a].invoice = allocation[a].invoice
       \/ Keys(allocation[a]) \cup Keys(allocation'[a]) \subseteq X

\* Allocations have a payment and an invoice.
KeysExist ==
  \A a \in Allocation : Exists(allocation[a]) =>
    Exists(payment[allocation[a].payment]) /\ Exists(invoice[allocation[a].invoice])

\* The rows after a step that changed X.
Lands(X) == Footprint(X) /\ RowsTyped' /\ KeysExist'

\* Request w has changed X and goes on as r, knowing what it should.
Goes(w, r, X) ==
  /\ Step(w, r, X) /\ Lands(X)
  /\ r \in Req /\ Linked(r)' /\ (w \notin late => Current(r)')
Proceeds(w) == \E r, X : Goes(w, r, X)

\* The fields a request has by what it is doing.
LEMMA Shape ==
  ASSUME NEW r \in Req
  PROVE  /\ r.pc = "Milestone" => r.amount \in Amount
         /\ r.pc = "PatchMilestone" => r.milestone \in Milestone /\ r.row \in MilestoneRow
         /\ r.pc = "Bill" => r.milestone \in Milestone /\ r.amount \in Amount \cup {0}
         /\ r.pc = "Billed" => r.milestone \in Milestone /\ r.paid = {}
         /\ r.pc = "Invoice" => r.amount \in Amount /\ r.milestone \in Milestone \cup {None}
         /\ r.pc = "PatchInvoice" => r.invoice \in Invoice /\ r.row \in InvoiceRow
         /\ r.pc = "Cancel" => r.invoice \in Invoice
         /\ r.pc = "Allocate" =>
              /\ r.row \in AllocationRow /\ r.checked \in Payment
              /\ r.bill \in InvoiceRow /\ r.settles \in BOOLEAN
         /\ r.pc = "Settle" => r.invoice \in Invoice /\ r.bill \in InvoiceRow
         /\ r.pc = "MarkPaid" => r.milestone \in Milestone
         /\ r.pc = "PatchAllocation" => r.allocation \in Allocation /\ r.row \in AllocationRow
         /\ r.pc \in {"Pay", "Entered"} =>
              r.amount \in Amount /\ r.new \in Entries /\ r.entries \in SUBSET Entry
         /\ r.pc = "Entered" => r.paid \in SUBSET Milestone
         /\ r.pc = "PatchPayment" => r.payment \in Payment /\ r.row \in PaymentRow
         /\ r.pc = "Destroy" =>
              /\ r.todo \in Seq(Frames) /\ r.seen \in SUBSET (Invoice \cup Payment)
              /\ r.free \in SUBSET Milestone
              /\ r = [pc |-> "Destroy", todo |-> r.todo, seen |-> r.seen, free |-> r.free]
  BY DEF Req, Idle

\* What is still to be done of a deletion are frames.
LEMMA PendingAre == ASSUME NEW r \in Req, r.pc = "Destroy" PROVE Pending(r) \subseteq Frames
<1>1. r.todo \in Seq(Frames)
  BY Shape
<1> QED
  BY <1>1 DEF Pending, Range

\* What a request relies on, by what it is doing.
LEMMA HeldIs ==
  ASSUME NEW r
  PROVE  /\ r.pc = "PatchMilestone" => r.milestone \in Held(r)
         /\ r.pc \in {"Bill", "Billed", "MarkPaid"} => r.milestone \in Held(r)
         /\ r.pc = "MarkPaid" => r.paid \subseteq Held(r)
         /\ r.pc = "Allocate" => r.row.invoice \in Held(r)
         /\ r.pc = "Settle" => r.invoice \in Held(r)
         /\ r.pc = "Entered" =>
              \A e \in r.entries : e.invoice \in Held(r) /\ <<"received", e.invoice>> \in Held(r)
         /\ r.pc = "Destroy" => r.seen \subseteq Held(r) /\ r.free \subseteq Held(r)
<1>1. r.pc = "PatchMilestone" => r.milestone \in Held(r)
  BY DEF Held
<1>2. r.pc \in {"Bill", "Billed", "MarkPaid"} => r.milestone \in Held(r)
  BY DEF Held
<1>3. r.pc = "MarkPaid" => r.paid \subseteq Held(r)
  BY DEF Held
<1>4. r.pc = "Allocate" => r.row.invoice \in Held(r)
  BY DEF Held, Books
<1>5. r.pc = "Settle" => r.invoice \in Held(r)
  BY DEF Held
<1>6. r.pc = "Destroy" => r.seen \subseteq Held(r) /\ r.free \subseteq Held(r)
  BY DEF Held, Account
<1>7. ASSUME r.pc = "Entered", NEW e \in r.entries
      PROVE  e.invoice \in Held(r) /\ <<"received", e.invoice>> \in Held(r)
  <2>1. Held(r) = UNION {{d.invoice, <<"received", d.invoice>>} : d \in r.entries}
    BY <1>7 DEF Held
  <2> QED
    BY <2>1
<1> QED
  BY <1>1, <1>2, <1>3, <1>4, <1>5, <1>6, <1>7

\* A request that is idle knows nothing.
LEMMA IdleKnows ==
  /\ Idle \in Req /\ Linked(Idle) /\ Linked(Idle)' /\ Current(Idle) /\ Current(Idle)'
  /\ Held(Idle) = {}
<1>1. Idle.pc = "Idle"
  BY DEF Idle
<1> QED
  BY <1>1 DEF Req, Linked, Current, Held

\* Whether an invoice is paid depends on what it has received.
LEMMA PaidUpStays ==
  ASSUME NEW i, Incoming(i, {})' = Incoming(i, {}), NEW row
  PROVE  PaidUp(i, row)' <=> PaidUp(i, row)
<1>1. Received(i, {})' = Received(i, {})
  BY DEF Received
<1> QED
  BY <1>1 DEF PaidUp, Total

\* Frames go on leading to rows.
LEMMA LeadsStay ==
  ASSUME NEW f \in Frames, Leads(f), KeysStay
  PROVE  Leads(f)'
<1>1. f.do = "invoice" => f.on \in Invoice
  BY DEF Frames
<1>2. f.do = "payment" => f.on \in Payment
  BY DEF Frames
<1>3. f.do \in {"via invoice", "via payment"} => DOMAIN f.on \subseteq Allocation
  BY DEF Frames
<1> QED
  BY <1>1, <1>2, <1>3 DEF Leads, KeysStay, Exists

\* What is read of keys stays true.
LEMMA LinkedStays ==
  ASSUME NEW r \in Req, Linked(r), KeysStay
  PROVE  Linked(r)'
<1>1. /\ r.pc \in {"PatchInvoice", "Cancel"} => Exists(invoice'[r.invoice])
      /\ r.pc \in {"PatchInvoice", "PatchPayment"} => r.row.state = "LIVE"
  BY Shape DEF Linked, KeysStay
<1>2. r.pc \in {"Allocate", "PatchAllocation"} =>
        Exists(payment'[r.row.payment]) /\ Exists(invoice'[r.row.invoice])
  BY Shape DEF Linked, KeysStay, AllocationRow
<1>3. /\ r.pc = "PatchAllocation" => Exists(allocation'[r.allocation])
      /\ r.pc = "Allocate" => Exists(payment'[r.checked])
  BY Shape DEF Linked, KeysStay
<1>4. r.pc \in {"Pay", "Entered"} => /\ r.entries = {r.new[a] : a \in DOMAIN r.new}
                                    /\ \A e \in r.entries : Exists(invoice'[e.invoice])
  BY Shape DEF Linked, KeysStay, Entry
<1>5. ASSUME r.pc = "Destroy", NEW f \in Pending(r)
      PROVE  Leads(f)'
  <2>1. f \in Frames /\ Leads(f)
    BY <1>5, PendingAre DEF Linked
  <2> QED
    BY <2>1, LeadsStay
<1> QED
  BY <1>1, <1>2, <1>3, <1>4, <1>5 DEF Linked, Exists, Pending

\* The frames of a deletion are what Frames says.
LEMMA FramesAre ==
  ASSUME NEW f \in Frames
  PROVE  /\ f.do \in {"invoice", "release", "of invoice"} => f.on \in Invoice
         /\ f.do \in {"payment", "of payment"} => f.on \in Payment
         /\ f.do = "reset" => f.on \in Milestone
         /\ f.do \in {"invoice", "release"} => f.of \in Milestone \cup {None}
         /\ f.do = "via invoice" => \E A \in SUBSET Allocation : f.on \in [A -> Payment]
         /\ f.do = "via payment" => \E A \in SUBSET Allocation : f.on \in [A -> Invoice]
  BY DEF Frames

\* A deletion that nobody overtakes stays on its way.
LEMMA OnItsWayStays ==
  ASSUME RowsTyped, RowsTyped', NEW r \in Req, r.pc = "Destroy", OnItsWay(r), NEW X, Footprint(X),
         Held(r) \cap X = {}
  PROVE  OnItsWay(r)'
<1>1. /\ \A x \in r.seen : x \notin X
      /\ \A m \in r.free : m \notin X
  BY HeldIs
<1>2. Pending(r) \subseteq Frames
  BY PendingAre
<1>3. ASSUME NEW f \in Pending(r), f.do = "release"
      PROVE  f.on \in r.seen /\ ~ Live(invoice'[f.on])
  <2>1. f.on \in Invoice /\ f.on \in r.seen /\ ~ Live(invoice[f.on])
    BY <1>2, <1>3, FramesAre DEF OnItsWay
  <2> QED
    BY <1>1, <2>1 DEF Footprint
<1>4. ASSUME NEW f \in Pending(r), f.do = "reset"
      PROVE  f.on \in r.free /\ Active(f.on)' = {}
  <2>1. f.on \in Milestone /\ f.on \in r.free /\ Active(f.on) = {}
    BY <1>2, <1>4, FramesAre DEF OnItsWay
  <2> QED
    BY <1>1, <2>1 DEF Footprint
<1>5. ASSUME NEW a \in Allocation, Orphaned(r, a)'
      PROVE  Takes(Pending(r), a)'
  <2>1. Live(allocation'[a]) /\ {allocation'[a].payment, allocation'[a].invoice} \cap r.seen # {}
    BY <1>5 DEF Orphaned, Live
  <2>2. Live(allocation[a])
    BY <1>1, <2>1 DEF Footprint
  <2>3. Exists(allocation[a])
    BY <2>2 DEF Live, Exists
  <2>4. /\ allocation'[a].payment = allocation[a].payment
        /\ allocation'[a].invoice = allocation[a].invoice
    BY <1>1, <2>1, <2>3 DEF Footprint, Keys
  <2>5. Takes(Pending(r), a)
    BY <2>1, <2>2, <2>4 DEF OnItsWay, Orphaned
  <2> QED
    BY <2>4, <2>5 DEF Takes, Pending, Range
<1> QED
  BY <1>3, <1>4, <1>5 DEF OnItsWay, Pending, Live

\* Entries are allocation rows to be.
LEMMA EntriesAre ==
  ASSUME NEW new \in Entries
  PROVE  DOMAIN new \subseteq Allocation /\ \A a \in DOMAIN new : new[a] \in Entry
<1>1. PICK A \in {S \in SUBSET Allocation : Cardinality(S) <= MaxEntries} : new \in [A -> Entry]
  BY DEF Entries
<1> QED
  BY <1>1

\* What entries settle depends on their invoices and on what those receive.
LEMMA SettledByStays ==
  ASSUME NEW new,
         \A a \in DOMAIN new : /\ invoice'[new[a].invoice] = invoice[new[a].invoice]
                              /\ Incoming(new[a].invoice, {})' = Incoming(new[a].invoice, {})
  PROVE  SettledBy(new)' = SettledBy(new)
<1>1. ASSUME NEW a \in DOMAIN new, NEW i, i = new[a].invoice
      PROVE  PaidUpWith(i, new)' <=> PaidUpWith(i, new)
  <2>1. Incoming(i, {})' = Incoming(i, {}) /\ invoice'[i] = invoice[i]
    BY <1>1
  <2>2. IncomingWith(i, new)' = IncomingWith(i, new)
    BY <2>1 DEF IncomingWith
  <2>3. Total(invoice[i])' = Total(invoice[i])
    BY <2>1 DEF Total
  <2> QED
    BY <2>1, <2>2, <2>3 DEF PaidUpWith
<1>2. \A a \in DOMAIN new : PaidUpWith(new[a].invoice, new)' <=> PaidUpWith(new[a].invoice, new)
  BY <1>1
<1> QED
  BY <1>2 DEF SettledBy

\* A request that is not overtaken still knows what it knew.
LEMMA CurrentStays ==
  ASSUME RowsTyped, RowsTyped', NEW r \in Req, Linked(r), Current(r), NEW X, Footprint(X),
         Held(r) \cap X = {}
  PROVE  Current(r)'
<1>1. r.pc = "PatchMilestone" => r.row.status = milestone'[r.milestone].status
  BY Shape, HeldIs DEF Current, Footprint
<1>2. r.pc \in {"Bill", "Billed"} => milestone'[r.milestone].status # "PAID"
  BY Shape, HeldIs DEF Current, Footprint
<1>3. r.pc = "Allocate" => r.bill = invoice'[r.row.invoice]
  BY Shape, HeldIs DEF Current, Footprint, AllocationRow
<1>4. r.pc = "Settle" => r.bill = invoice'[r.invoice]
  BY Shape, HeldIs DEF Current, Footprint
<1>5. ASSUME r.pc = "MarkPaid"
      PROVE  \E i \in Invoice : /\ r.paid = {i, <<"received", i>>}
                                /\ invoice'[i].milestone = r.milestone
                                /\ PaidUp(i, invoice[i])'
  <2>1. PICK i \in Invoice : /\ r.paid = {i, <<"received", i>>}
                             /\ invoice[i].milestone = r.milestone /\ PaidUp(i, invoice[i])
    BY <1>5 DEF Current
  <2>2. i \notin X /\ <<"received", i>> \notin X
    BY <1>5, <2>1, HeldIs
  <2>3. invoice'[i] = invoice[i] /\ Incoming(i, {})' = Incoming(i, {})
    BY <2>2 DEF Footprint
  <2>4. PICK row : row = invoice[i]
    OBVIOUS
  <2>5. PaidUp(i, row)'
    BY <2>1, <2>3, <2>4, PaidUpStays
  <2>6. PaidUp(i, invoice[i])'
    BY <2>3, <2>4, <2>5 DEF PaidUp, Total
  <2> QED
    BY <2>1, <2>3, <2>6
<1>6. r.pc = "Destroy" => OnItsWay(r)'
  BY OnItsWayStays DEF Current
<1>7. ASSUME r.pc = "Entered"
      PROVE  r.paid = SettledBy(r.new)'
  <2>1. r.paid = SettledBy(r.new) /\ r.new \in Entries /\ r.entries = {r.new[a] : a \in DOMAIN r.new}
    BY <1>7, Shape DEF Current, Linked
  <2>2. PICK new \in Entries : new = r.new
    BY <2>1
  <2>3. ASSUME NEW a \in DOMAIN new
        PROVE  /\ invoice'[new[a].invoice] = invoice[new[a].invoice]
               /\ Incoming(new[a].invoice, {})' = Incoming(new[a].invoice, {})
    <3>1. new[a] \in r.entries
      BY <2>1, <2>2
    <3>2. new[a].invoice \notin X /\ <<"received", new[a].invoice>> \notin X
      BY <1>7, <3>1, HeldIs
    <3>3. new[a].invoice \in Invoice
      BY EntriesAre DEF Entry
    <3> QED
      BY <3>2, <3>3 DEF Footprint
  <2>4. SettledBy(new)' = SettledBy(new)
    BY <2>3, SettledByStays
  <2> QED
    BY <2>1, <2>2, <2>4
<1> QED
  BY <1>1, <1>2, <1>3, <1>4, <1>5, <1>6, <1>7 DEF Current

\* A deletion that is over has taken all it orphaned.
LEMMA WaysEnd == TypeOK /\ ReadsAreCurrent => CascadeIsComplete
<1> SUFFICES ASSUME TypeOK, ReadsAreCurrent, NEW w \in Request \ late, At(w, "Destroy"),
                    req[w].todo = <<>>, NEW a \in Allocation, Live(allocation[a])
             PROVE  {allocation[a].payment, allocation[a].invoice} \cap req[w].seen = {}
  BY DEF CascadeIsComplete
<1>1. OnItsWay(req[w])
  BY DEF ReadsAreCurrent, Current, At
<1>2. Pending(req[w]) = {}
  BY DEF Pending, Range
<1> QED
  BY <1>1, <1>2 DEF OnItsWay, Orphaned, Takes

\* Where every step leads: the rows agree again.
LEMMA GoesOn ==
  ASSUME RowsAgree, NEW w \in Request, Proceeds(w)
  PROVE  RowsAgree'
<1>1. PICK r, X : Goes(w, r, X)
  BY DEF Proceeds
<1>2. /\ req' = [req EXCEPT ![w] = r]
      /\ late' = (late \cup {v \in Request \ {w} : Held(req[v]) \cap X # {}})
                   \ (IF r = Idle THEN {w} ELSE {})
  BY <1>1 DEF Goes, Step, Becomes
<1>3. r \in Req /\ Linked(r)' /\ (w \notin late => Current(r)')
  BY <1>1 DEF Goes
<1>4. RowsTyped /\ RowsTyped' /\ KeysExist' /\ Footprint(X) /\ KeysStay
  BY <1>1 DEF Goes, Lands, Footprint, RowsAgree, TypeOK
<1>5. req \in [Request -> Req] /\ late \subseteq Request
  BY DEF RowsAgree, TypeOK
<1>6. req' \in [Request -> Req] /\ req'[w] = r /\ \A v \in Request \ {w} : req'[v] = req[v]
  BY <1>2, <1>3, <1>5
<1>7. TypeOK'
  BY <1>2, <1>4, <1>5, <1>6 DEF TypeOK
<1>8. ASSUME NEW v \in Request
      PROVE  Linked(req[v])'
  <2>1. CASE v = w
    BY <1>3, <1>6, <2>1 DEF Linked, Pending
  <2>2. CASE v # w
    <3>1. PICK q \in Req : q = req[v]
      BY <1>5
    <3>2. Linked(q)
      BY <3>1 DEF RowsAgree, KeysHold
    <3>3. Linked(q)'
      BY <1>4, <3>2, LinkedStays
    <3>4. req'[v] = q
      BY <1>6, <2>2, <3>1
    <3> QED
      BY <3>3, <3>4 DEF Linked, Pending
  <2> QED
    BY <2>1, <2>2
<1>9. KeysHold'
  BY <1>4, <1>8 DEF KeysHold, KeysExist
<1>10. ASSUME NEW v \in Request, v \notin late'
       PROVE  Current(req[v])'
  <2>1. CASE v = w
    <3>1. Current(r)'
      <4>1. CASE w \notin late
        BY <1>3, <4>1
      <4>2. CASE w \in late
        <5>1. r = Idle
          BY <1>2, <1>10, <2>1, <4>2
        <5> QED
          BY <5>1, IdleKnows
      <4> QED
        BY <4>1, <4>2
    <3> QED
      BY <1>6, <2>1, <3>1
  <2>2. CASE v # w
    <3>1. PICK q \in Req : q = req[v]
      BY <1>5
    <3>2. v \notin late /\ Held(q) \cap X = {}
      BY <1>2, <1>10, <2>2, <3>1
    <3>3. Linked(q) /\ Current(q)
      BY <3>1, <3>2 DEF RowsAgree, ReadsAreCurrent, KeysHold
    <3>4. Current(q)'
      BY <1>4, <3>2, <3>3, CurrentStays
    <3>5. req'[v] = q
      BY <1>6, <2>2, <3>1
    <3> QED
      BY <3>4, <3>5
  <2> QED
    BY <2>1, <2>2
<1>11. ReadsAreCurrent'
  BY <1>10 DEF ReadsAreCurrent
<1>12. CascadeIsComplete'
  <2>1. (TypeOK /\ ReadsAreCurrent => CascadeIsComplete)'
    BY WaysEnd, PTL
  <2> QED
    BY <1>7, <1>11, <2>1
<1> QED
  BY <1>7, <1>9, <1>11, <1>12 DEF RowsAgree

(***************************************************************************)
(* The writes of each table                                                *)
(***************************************************************************)
\* What an invoice receives is not changed by a write of other tables.
LEMMA IncomingStays ==
  ASSUME UNCHANGED <<payment, allocation>>
  PROVE  \A i : Incoming(i, {})' = Incoming(i, {})
  BY DEF Incoming, AllocationsTo, Exists, Live

\* Nor are a milestone's active invoices.
LEMMA ActiveStays == ASSUME UNCHANGED invoice PROVE \A m : Active(m)' = Active(m)
  BY DEF Active, Live

\* A write of milestones.
LEMMA MilestoneWrite ==
  ASSUME RowsTyped, KeysExist, NEW X, UNCHANGED <<invoice, payment, allocation>>,
         milestone' \in [Milestone -> MilestoneRow],
         \A m \in Milestone \ X : milestone'[m] = milestone[m]
  PROVE  Lands(X)
<1>1. RowsTyped'
  BY DEF RowsTyped
<1>2. KeysExist'
  BY DEF KeysExist, Exists
<1>3. KeysStay
  BY DEF KeysStay
<1>4. \A i : Incoming(i, {})' = Incoming(i, {})
  BY IncomingStays
<1>5. \A m : Active(m)' \subseteq Active(m)
  BY ActiveStays
<1> QED
  BY <1>1, <1>2, <1>3, <1>4, <1>5 DEF Lands, Footprint

\* A write of an invoice, which may become active for its milestone.
LEMMA InvoiceWrite ==
  ASSUME RowsTyped, KeysExist, NEW X, UNCHANGED <<milestone, payment, allocation>>,
         NEW i \in Invoice, NEW row \in InvoiceRow, invoice' = [invoice EXCEPT ![i] = row],
         i \in X, row.milestone \in X, Exists(row)
  PROVE  Lands(X)
<1>1. /\ invoice \in [Invoice -> InvoiceRow] /\ invoice' \in [Invoice -> InvoiceRow]
      /\ invoice'[i] = row /\ \A j \in Invoice \ {i} : invoice'[j] = invoice[j]
  BY DEF RowsTyped
<1>2. RowsTyped'
  BY <1>1 DEF RowsTyped
<1>3. \A j \in Invoice : Exists(invoice[j]) => Exists(invoice'[j])
  BY <1>1
<1>4. KeysStay
  BY <1>3 DEF KeysStay
<1>5. KeysExist'
  <2>1. \A a \in Allocation : Exists(allocation[a]) => allocation[a].invoice \in Invoice
    BY DEF RowsTyped, AllocationRow, NoAllocation, Exists
  <2> QED
    BY <1>3, <2>1 DEF KeysExist, Exists
<1>6. \A j : Incoming(j, {})' = Incoming(j, {})
  BY IncomingStays
<1>7. ASSUME NEW m \in Milestone \ X, NEW j \in Active(m)'
      PROVE  j \in Active(m)
  <2>1. j \in Invoice /\ Live(invoice'[j]) /\ ~ invoice'[j].cancelled /\ invoice'[j].milestone = m
    BY <1>7 DEF Active, Live
  <2>2. j # i
    BY <1>1, <1>7, <2>1
  <2> QED
    BY <1>1, <2>1, <2>2 DEF Active
<1>8. \A m \in Milestone \ X : Active(m)' \subseteq Active(m)
  BY <1>7
<1> QED
  BY <1>1, <1>2, <1>4, <1>5, <1>6, <1>8 DEF Lands, Footprint

\* A write of a payment, which changes what the invoices it is allocated to
\* receive.
LEMMA PaymentWrite ==
  ASSUME RowsTyped, KeysExist, NEW X, UNCHANGED <<milestone, invoice, allocation>>,
         NEW p \in Payment, NEW row \in PaymentRow, payment' = [payment EXCEPT ![p] = row],
         Exists(row), \A a \in AllocationsOf(p) : <<"received", allocation[a].invoice>> \in X
  PROVE  Lands(X)
<1>1. /\ payment \in [Payment -> PaymentRow] /\ payment' \in [Payment -> PaymentRow]
      /\ payment'[p] = row /\ \A q \in Payment \ {p} : payment'[q] = payment[q]
  BY DEF RowsTyped
<1>2. RowsTyped'
  BY <1>1 DEF RowsTyped
<1>3. \A q \in Payment : Exists(payment[q]) => Exists(payment'[q])
  BY <1>1
<1>4. KeysStay
  BY <1>3 DEF KeysStay
<1>5. \A a \in Allocation : Exists(allocation[a]) => allocation[a].payment \in Payment
  BY DEF RowsTyped, AllocationRow, NoAllocation, Exists
<1>6. KeysExist'
  BY <1>3, <1>5 DEF KeysExist, Exists
<1>7. ASSUME NEW i \in Invoice, <<"received", i>> \notin X
      PROVE  Incoming(i, {})' = Incoming(i, {})
  <2>1. ASSUME NEW a \in AllocationsTo(i)
        PROVE  payment'[allocation[a].payment] = payment[allocation[a].payment]
    <3>1. a \in Allocation /\ Exists(allocation[a]) /\ allocation[a].invoice = i
      BY DEF AllocationsTo
    <3>2. a \notin AllocationsOf(p)
      BY <1>7, <3>1
    <3>3. allocation[a].payment # p
      BY <3>1, <3>2 DEF AllocationsOf
    <3> QED
      BY <1>1, <1>5, <3>1, <3>3
  <2>2. AllocationsTo(i)' = AllocationsTo(i)
    BY DEF AllocationsTo, Exists
  <2>3. {b \in AllocationsTo(i) \ {} : Live(payment[allocation[b].payment])}'
          = {b \in AllocationsTo(i) \ {} : Live(payment[allocation[b].payment])}
    BY <2>1, <2>2 DEF Live
  <2> QED
    BY <2>3 DEF Incoming
<1>8. \A m : Active(m)' \subseteq Active(m)
  BY ActiveStays
<1> QED
  BY <1>2, <1>4, <1>6, <1>7, <1>8 DEF Lands, Footprint

\* A write of an allocation: it is made, changed, or deleted with its amount.
LEMMA AllocationWrite ==
  ASSUME RowsTyped, KeysExist, NEW X, UNCHANGED <<milestone, invoice, payment>>,
         NEW a \in Allocation, NEW row \in AllocationRow,
         allocation' = [allocation EXCEPT ![a] = row],
         Exists(payment[row.payment]), Exists(invoice[row.invoice]),
         \/ /\ <<"received", row.invoice>> \in X /\ Keys(row) \subseteq X
            /\ Exists(allocation[a]) => /\ <<"received", allocation[a].invoice>> \in X
                                        /\ Keys(allocation[a]) \subseteq X
         \/ Exists(allocation[a]) /\ row = [allocation[a] EXCEPT !.state = "DELETED"]
  PROVE  Lands(X)
<1>1. /\ allocation \in [Allocation -> {NoAllocation} \cup AllocationRow]
      /\ allocation' \in [Allocation -> {NoAllocation} \cup AllocationRow]
      /\ allocation'[a] = row /\ \A b \in Allocation \ {a} : allocation'[b] = allocation[b]
  BY DEF RowsTyped
<1>2. /\ Exists(row) /\ row.payment \in Payment /\ row.invoice \in Invoice
      /\ ~ Exists(NoAllocation)
  BY DEF AllocationRow, Exists, NoAllocation
<1>3. RowsTyped'
  BY <1>1 DEF RowsTyped
<1>4. KeysStay
  BY <1>1, <1>2 DEF KeysStay
<1>5. KeysExist'
  BY <1>1, <1>2 DEF KeysExist, Exists
<1>6. ASSUME NEW i \in Invoice, <<"received", i>> \notin X
      PROVE  Incoming(i, {})' = Incoming(i, {})
  <2>1. ASSUME NEW b \in Allocation
        PROVE  \/ allocation'[b] = allocation[b]
               \/ /\ Exists(allocation[b]) /\ Exists(allocation'[b])
                  /\ allocation'[b].amount = allocation[b].amount
                  /\ allocation'[b].payment = allocation[b].payment
                  /\ allocation'[b].invoice = allocation[b].invoice
               \/ /\ allocation'[b].invoice # i
                  /\ Exists(allocation[b]) => allocation[b].invoice # i
    <3>1. CASE b # a
      BY <1>1, <3>1
    <3>2. CASE /\ b = a /\ <<"received", row.invoice>> \in X
               /\ Exists(allocation[a]) => <<"received", allocation[a].invoice>> \in X
      BY <1>1, <1>6, <3>2
    <3>3. CASE b = a /\ Exists(allocation[a]) /\ row = [allocation[a] EXCEPT !.state = "DELETED"]
      <4>1. allocation[a] \in AllocationRow
        BY <1>1, <1>2, <3>3
      <4> QED
        BY <1>1, <1>2, <3>3, <4>1 DEF AllocationRow
    <3> QED
      BY <3>1, <3>2, <3>3
  <2>2. AllocationsTo(i)' = AllocationsTo(i)
    BY <2>1 DEF AllocationsTo, Exists
  <2>3. \A b \in AllocationsTo(i) : /\ allocation'[b].amount = allocation[b].amount
                                    /\ allocation'[b].payment = allocation[b].payment
    BY <2>1 DEF AllocationsTo
  <2>4. {b \in AllocationsTo(i) \ {} : Live(payment[allocation[b].payment])}'
          = {b \in AllocationsTo(i) \ {} : Live(payment[allocation[b].payment])}
    BY <2>2, <2>3 DEF Live
  <2> QED
    BY <2>3, <2>4 DEF Incoming
<1>7. \A m : Active(m)' \subseteq Active(m)
  BY ActiveStays
<1>8. \A b \in Allocation : Live(allocation'[b]) /\ ~ Live(allocation[b]) =>
        allocation'[b].payment \in X /\ allocation'[b].invoice \in X
  <2>1. Live(row) => row.payment \in X /\ row.invoice \in X
    <3>1. CASE Exists(allocation[a]) /\ row = [allocation[a] EXCEPT !.state = "DELETED"]
      <4>1. allocation[a] \in AllocationRow
        BY <1>1, <1>2, <3>1
      <4> QED
        BY <3>1, <4>1 DEF Live, AllocationRow
    <3> QED
      BY <3>1 DEF Keys
  <2> QED
    BY <1>1, <2>1
<1>9. \A b \in Allocation : Exists(allocation[b]) =>
        \/ /\ allocation'[b].payment = allocation[b].payment
           /\ allocation'[b].invoice = allocation[b].invoice
        \/ Keys(allocation[b]) \cup Keys(allocation'[b]) \subseteq X
  <2>1. Exists(allocation[a]) =>
          \/ row.payment = allocation[a].payment /\ row.invoice = allocation[a].invoice
          \/ Keys(allocation[a]) \cup Keys(row) \subseteq X
    <3>1. CASE Exists(allocation[a]) /\ row = [allocation[a] EXCEPT !.state = "DELETED"]
      <4>1. allocation[a] \in AllocationRow
        BY <1>1, <1>2, <3>1
      <4> QED
        BY <3>1, <4>1 DEF AllocationRow
    <3> QED
      BY <3>1
  <2> QED
    BY <1>1, <2>1
<1> QED
  BY <1>3, <1>4, <1>5, <1>6, <1>7, <1>8, <1>9 DEF Lands, Footprint

\* Nothing is written.
LEMMA NoWrite == ASSUME RowsTyped, KeysExist, UNCHANGED rows PROVE Lands({})
<1>1. UNCHANGED <<milestone, invoice, payment, allocation>>
  BY DEF rows
<1>2. milestone' \in [Milestone -> MilestoneRow]
  BY <1>1 DEF RowsTyped
<1> QED
  BY <1>1, <1>2, MilestoneWrite

\* A request that ends with its write.
LEMMA Ends ==
  ASSUME NEW w \in Request, NEW X, Step(w, Idle, X), Lands(X)
  PROVE  Proceeds(w)
  BY IdleKnows DEF Proceeds, Goes

\* A request that has only read, and knows what it has read.
LEMMA Reads ==
  ASSUME RowsTyped, KeysExist, UNCHANGED rows, NEW w \in Request, NEW r \in Req, Step(w, r, {}),
         Linked(r), w \notin late => Current(r)
  PROVE  Proceeds(w)
<1>1. Lands({})
  BY NoWrite
<1>2. Footprint({}) /\ RowsTyped' /\ KeysStay
  BY <1>1 DEF Lands, Footprint
<1>3. Linked(r)'
  BY <1>2, LinkedStays
<1>4. w \notin late => Current(r)'
  BY <1>2, CurrentStays
<1> QED
  BY <1>1, <1>3, <1>4 DEF Proceeds, Goes

(***************************************************************************)
(* Milestones                                                              *)
(***************************************************************************)
\* What a request may count on before its step.
LEMMA Before ==
  ASSUME RowsAgree, NEW w \in Request
  PROVE  /\ RowsTyped /\ KeysExist /\ req[w] \in Req /\ Linked(req[w])
         /\ w \notin late => Current(req[w])
  BY DEF RowsAgree, TypeOK, KeysHold, KeysExist, ReadsAreCurrent

\* A write of one milestone.
LEMMA OneMilestone ==
  ASSUME RowsTyped, KeysExist, NEW X, UNCHANGED <<invoice, payment, allocation>>,
         NEW m \in Milestone, m \in X, NEW row \in MilestoneRow,
         milestone' = [milestone EXCEPT ![m] = row]
  PROVE  Lands(X)
<1>1. milestone' \in [Milestone -> MilestoneRow]
  BY DEF RowsTyped
<1>2. \A n \in Milestone \ X : milestone'[n] = milestone[n]
  BY DEF RowsTyped
<1> QED
  BY <1>1, <1>2, MilestoneWrite

\* Planning, changing and billing a milestone begin with reading it.
LEMMA MilestoneReads ==
  ASSUME RowsAgree, NEW w \in Request,
         \/ \E amount \in Amount : MilestoneCheck(w, amount)
         \/ \E m \in Milestone, amount \in Amount : MilestonePatchLoad(w, m, amount)
         \/ \E m \in Milestone : GenerateLoad(w, m)
  PROVE  Proceeds(w)
<1>1. RowsTyped /\ KeysExist
  BY Before
<1>2. \A m \in Milestone : milestone[m] \in MilestoneRow
  BY <1>1 DEF RowsTyped
<1>3. ASSUME NEW amount \in Amount, MilestoneCheck(w, amount) PROVE Proceeds(w)
  <2>1. PICK r : r = [pc |-> "Milestone", amount |-> amount]
    OBVIOUS
  <2>2. r \in Req /\ Linked(r) /\ Current(r)
    BY <2>1 DEF Req, Linked, Current
  <2>3. Step(w, r, {}) /\ UNCHANGED rows
    BY <1>3, <2>1 DEF MilestoneCheck
  <2> QED
    BY <1>1, <2>2, <2>3, Reads
<1>4. ASSUME NEW m \in Milestone, NEW amount \in Amount, MilestonePatchLoad(w, m, amount)
      PROVE  Proceeds(w)
  <2>1. PICK r : r = [pc |-> "PatchMilestone", milestone |-> m,
                      row |-> [milestone[m] EXCEPT !.amount = amount]]
    OBVIOUS
  <2>2. r.row \in MilestoneRow /\ r.row.status = milestone[m].status
    BY <1>2, <2>1 DEF MilestoneRow
  <2>3. r \in Req /\ Linked(r) /\ Current(r)
    BY <2>1, <2>2 DEF Req, Linked, Current
  <2>4. Step(w, r, {}) /\ UNCHANGED rows
    BY <1>4, <2>1 DEF MilestonePatchLoad
  <2> QED
    BY <1>1, <2>3, <2>4, Reads
<1>5. ASSUME NEW m \in Milestone, GenerateLoad(w, m) PROVE Proceeds(w)
  <2>1. PICK r : r = [pc |-> "Bill", milestone |-> m, amount |-> milestone[m].amount]
    OBVIOUS
  <2>2. milestone[m].amount \in Amount \cup {0} /\ milestone[m].status # "PAID"
    BY <1>2, <1>5 DEF MilestoneRow, GenerateLoad
  <2>3. r \in Req /\ Linked(r) /\ Current(r)
    BY <2>1, <2>2 DEF Req, Linked, Current
  <2>4. Step(w, r, {}) /\ UNCHANGED rows
    BY <1>5, <2>1 DEF GenerateLoad
  <2> QED
    BY <1>1, <2>3, <2>4, Reads
<1> QED
  BY <1>3, <1>4, <1>5

\* A milestone is written by whoever plans, changes, deletes or bills it.
LEMMA MilestoneWrites ==
  ASSUME RowsAgree, NEW w \in Request,
         \/ \E m \in Milestone : MilestoneInsert(w, m) \/ MilestoneDelete(w, m)
         \/ MilestonePatchSave(w) \/ GenerateMark(w) \/ MarkPaid(w)
  PROVE  Proceeds(w)
<1>1. RowsTyped /\ KeysExist /\ req[w] \in Req
  BY Before
<1>2. \A n \in Milestone : milestone[n] \in MilestoneRow
  BY <1>1 DEF RowsTyped
<1>3. ASSUME NEW m \in Milestone, MilestoneInsert(w, m) PROVE Proceeds(w)
  <2>1. req[w].amount \in Amount
    BY <1>1, <1>3, Shape DEF MilestoneInsert, At
  <2>2. PICK row : row = [NoMilestone EXCEPT !.state = "LIVE", !.amount = req[w].amount]
    OBVIOUS
  <2>3. row \in MilestoneRow
    BY <2>1, <2>2 DEF NoMilestone, MilestoneRow, State
  <2>4. PICK X : X = {m, <<"planned">>}
    OBVIOUS
  <2>5. Lands(X)
    BY <1>1, <1>3, <2>2, <2>3, <2>4, OneMilestone DEF MilestoneInsert
  <2> QED
    BY <1>3, <2>4, <2>5, Ends DEF MilestoneInsert
<1>4. CASE MilestonePatchSave(w)
  <2>1. req[w].milestone \in Milestone /\ req[w].row \in MilestoneRow
    BY <1>1, <1>4, Shape DEF MilestonePatchSave, At
  <2>2. PICK X : X = {req[w].milestone, <<"planned">>}
    OBVIOUS
  <2>3. Lands(X)
    BY <1>1, <1>4, <2>1, <2>2, OneMilestone DEF MilestonePatchSave
  <2> QED
    BY <1>4, <2>2, <2>3, Ends DEF MilestonePatchSave
<1>5. ASSUME NEW m \in Milestone, MilestoneDelete(w, m) PROVE Proceeds(w)
  <2>1. PICK row : row = [milestone[m] EXCEPT !.state = "DELETED"]
    OBVIOUS
  <2>2. row \in MilestoneRow
    BY <1>2, <2>1 DEF MilestoneRow, State
  <2>3. PICK X : X = {m, <<"planned">>}
    OBVIOUS
  <2>4. Lands(X)
    BY <1>1, <1>5, <2>1, <2>2, <2>3, OneMilestone DEF MilestoneDelete
  <2> QED
    BY <1>5, <2>3, <2>4, Ends DEF MilestoneDelete
<1>6. CASE GenerateMark(w)
  <2>1. PICK n \in Milestone : n = req[w].milestone
    BY <1>1, <1>6, Shape DEF GenerateMark, At
  <2>2. PICK row : row = [milestone[n] EXCEPT !.status = "INVOICED"]
    OBVIOUS
  <2>3. row \in MilestoneRow
    BY <1>2, <2>2 DEF MilestoneRow
  <2>4. Lands({n})
    BY <1>1, <1>6, <2>1, <2>2, <2>3, OneMilestone DEF GenerateMark
  <2> QED
    BY <1>6, <2>1, <2>4, Ends DEF GenerateMark
<1>7. CASE MarkPaid(w)
  <2>1. PICK n \in Milestone : n = req[w].milestone
    BY <1>1, <1>7, Shape DEF MarkPaid, At
  <2>2. PICK row : row = [milestone[n] EXCEPT !.status = "PAID"]
    OBVIOUS
  <2>3. row \in MilestoneRow
    BY <1>2, <2>2 DEF MilestoneRow
  <2>4. Lands({n})
    BY <1>1, <1>7, <2>1, <2>2, <2>3, OneMilestone DEF MarkPaid
  <2> QED
    BY <1>7, <2>1, <2>4, Ends DEF MarkPaid
<1> QED
  BY <1>3, <1>4, <1>5, <1>6, <1>7

(***************************************************************************)
(* Invoices                                                                *)
(***************************************************************************)
\* The invoice of a milestone, which its request goes on to mark.
LEMMA InvoiceGenerated ==
  ASSUME RowsAgree, NEW w \in Request, NEW i \in Invoice, GenerateInvoice(w, i)
  PROVE  Proceeds(w)
<1>1. RowsTyped /\ KeysExist /\ req[w] \in Req /\ (w \notin late => Current(req[w]))
  BY Before
<1>2. At(w, "Bill") /\ invoice[i] = NoInvoice
  BY DEF GenerateInvoice
<1>3. PICK m \in Milestone : m = req[w].milestone
  BY <1>1, <1>2, Shape DEF At
<1>4. req[w].amount \in Amount \cup {0}
  BY <1>1, <1>2, Shape DEF At
<1>5. PICK row : row = [NoInvoice EXCEPT !.state = "LIVE", !.amount = req[w].amount,
                                         !.milestone = m]
  OBVIOUS
<1>6. row \in InvoiceRow /\ Exists(row) /\ row.milestone = m /\ ~ Exists(NoInvoice)
  BY <1>4, <1>5 DEF NoInvoice, InvoiceRow, State, Exists
<1>7. PICK X : X = {i, m, <<"billed">>}
  OBVIOUS
<1>8. Lands(X)
  BY <1>1, <1>2, <1>3, <1>5, <1>6, <1>7, InvoiceWrite DEF GenerateInvoice
<1>9. PICK r : r = [pc |-> "Billed", milestone |-> m, paid |-> {}]
  OBVIOUS
<1>10. r \in Req /\ Linked(r)'
  BY <1>9 DEF Req, Linked
<1>11. w \notin late => milestone'[m].status # "PAID"
  BY <1>1, <1>2, <1>3 DEF Current, At, GenerateInvoice
<1>12. w \notin late => Current(r)'
  BY <1>9, <1>11 DEF Current
<1>13. Step(w, r, X)
  BY <1>3, <1>7, <1>9 DEF GenerateInvoice
<1> QED
  BY <1>8, <1>10, <1>12, <1>13 DEF Proceeds, Goes

\* Entering, changing and cancelling an invoice begin with reading.
LEMMA InvoiceReads ==
  ASSUME RowsAgree, NEW w \in Request,
         \/ \E amount \in Amount, m \in Milestone \cup {None} : InvoiceCheck(w, amount, m)
         \/ \E i \in Invoice, amount \in Amount, m \in Milestone \cup {None} :
              InvoicePatchLoad(w, i, amount, m)
         \/ \E i \in Invoice : CancelLoad(w, i)
  PROVE  Proceeds(w)
<1>1. RowsTyped /\ KeysExist
  BY Before
<1>2. \A i \in Invoice : invoice[i] \in InvoiceRow
  BY <1>1 DEF RowsTyped
<1>3. ASSUME NEW amount \in Amount, NEW m \in Milestone \cup {None}, InvoiceCheck(w, amount, m)
      PROVE  Proceeds(w)
  <2>1. PICK r : r = [pc |-> "Invoice", amount |-> amount, milestone |-> m]
    OBVIOUS
  <2>2. r \in Req /\ Linked(r) /\ Current(r)
    BY <2>1 DEF Req, Linked, Current
  <2>3. Step(w, r, {}) /\ UNCHANGED rows
    BY <1>3, <2>1 DEF InvoiceCheck
  <2> QED
    BY <1>1, <2>2, <2>3, Reads
<1>4. ASSUME NEW i \in Invoice, NEW amount \in Amount, NEW m \in Milestone \cup {None},
             InvoicePatchLoad(w, i, amount, m)
      PROVE  Proceeds(w)
  <2>1. PICK r : r = [pc |-> "PatchInvoice", invoice |-> i,
                      row |-> [invoice[i] EXCEPT !.amount = amount, !.milestone = m]]
    OBVIOUS
  <2>2. r.row \in InvoiceRow /\ r.row.state = "LIVE" /\ Exists(invoice[i])
    BY <1>2, <1>4, <2>1 DEF InvoiceRow, InvoicePatchLoad, Live, Exists
  <2>3. r \in Req /\ Linked(r) /\ Current(r)
    BY <2>1, <2>2 DEF Req, Linked, Current
  <2>4. Step(w, r, {}) /\ UNCHANGED rows
    BY <1>4, <2>1 DEF InvoicePatchLoad
  <2> QED
    BY <1>1, <2>3, <2>4, Reads
<1>5. ASSUME NEW i \in Invoice, CancelLoad(w, i) PROVE Proceeds(w)
  <2>1. PICK r : r = [pc |-> "Cancel", invoice |-> i]
    OBVIOUS
  <2>2. r \in Req /\ Linked(r) /\ Current(r)
    BY <1>5, <2>1 DEF Req, Linked, Current, CancelLoad, Live, Exists
  <2>3. Step(w, r, {}) /\ UNCHANGED rows
    BY <1>5, <2>1 DEF CancelLoad
  <2> QED
    BY <1>1, <2>2, <2>3, Reads
<1> QED
  BY <1>3, <1>4, <1>5

\* An invoice is written by whoever enters, changes or cancels it.
LEMMA InvoiceWrites ==
  ASSUME RowsAgree, NEW w \in Request,
         (\E i \in Invoice : InvoiceInsert(w, i)) \/ InvoicePatchSave(w) \/ CancelSave(w)
  PROVE  Proceeds(w)
<1>1. RowsTyped /\ KeysExist /\ req[w] \in Req /\ Linked(req[w])
  BY Before
<1>2. \A j \in Invoice : invoice[j] \in InvoiceRow
  BY <1>1 DEF RowsTyped
<1>3. ASSUME NEW i \in Invoice, InvoiceInsert(w, i) PROVE Proceeds(w)
  <2>1. req[w].amount \in Amount /\ req[w].milestone \in Milestone \cup {None}
    BY <1>1, <1>3, Shape DEF InvoiceInsert, At
  <2>2. PICK row : row = [NoInvoice EXCEPT !.state = "LIVE", !.amount = req[w].amount,
                                           !.milestone = req[w].milestone]
    OBVIOUS
  <2>3. /\ row \in InvoiceRow /\ Exists(row) /\ row.milestone = req[w].milestone
        /\ ~ Exists(NoInvoice)
    BY <2>1, <2>2 DEF NoInvoice, InvoiceRow, State, Exists
  <2>4. PICK X : X = {i, req[w].milestone, <<"billed">>}
    OBVIOUS
  <2>5. Lands(X)
    BY <1>1, <1>3, <2>2, <2>3, <2>4, InvoiceWrite DEF InvoiceInsert
  <2> QED
    BY <1>3, <2>4, <2>5, Ends DEF InvoiceInsert
<1>4. CASE InvoicePatchSave(w)
  <2>1. PICK j \in Invoice : j = req[w].invoice
    BY <1>1, <1>4, Shape DEF InvoicePatchSave, At
  <2>2. PICK row \in InvoiceRow : row = req[w].row
    BY <1>1, <1>4, Shape DEF InvoicePatchSave, At
  <2>3. row.state = "LIVE"
    BY <1>1, <1>4, <2>2 DEF Linked, InvoicePatchSave, At
  <2>4. PICK X : X = {j, invoice[j].milestone, row.milestone, <<"billed">>}
    OBVIOUS
  <2>5. Lands(X)
    BY <1>1, <1>4, <2>1, <2>2, <2>3, <2>4, InvoiceWrite DEF InvoicePatchSave, Exists
  <2> QED
    BY <1>4, <2>1, <2>2, <2>4, <2>5, Ends DEF InvoicePatchSave
<1>5. CASE CancelSave(w)
  <2>1. PICK j \in Invoice : j = req[w].invoice
    BY <1>1, <1>5, Shape DEF CancelSave, At
  <2>2. Exists(invoice[j])
    BY <1>1, <1>5, <2>1 DEF Linked, CancelSave, At
  <2>3. PICK row : row = [invoice[j] EXCEPT !.cancelled = TRUE]
    OBVIOUS
  <2>4. row \in InvoiceRow /\ Exists(row) /\ row.milestone = invoice[j].milestone
    BY <1>2, <2>2, <2>3 DEF InvoiceRow, Exists
  <2>5. PICK X : X = {j, invoice[j].milestone, <<"billed">>}
    OBVIOUS
  <2>6. Lands(X)
    BY <1>1, <1>5, <2>1, <2>3, <2>4, <2>5, InvoiceWrite DEF CancelSave
  <2> QED
    BY <1>5, <2>1, <2>5, <2>6, Ends DEF CancelSave
<1> QED
  BY <1>3, <1>4, <1>5

(***************************************************************************)
(* Allocations                                                             *)
(***************************************************************************)
\* Rows that exist are whole.
LEMMA AllocationIs ==
  ASSUME RowsTyped, NEW a \in Allocation, Exists(allocation[a])
  PROVE  allocation[a] \in AllocationRow
  BY DEF RowsTyped, Exists, NoAllocation

\* Allocating a payment begins with reading it and the invoice, and changing an
\* allocation with reading the row.
LEMMA AllocationReads ==
  ASSUME RowsAgree, NEW w \in Request,
         \/ \E p, q \in Payment, i \in Invoice, amount \in Amount, settles \in BOOLEAN :
              AllocateLoad(w, p, q, i, amount, settles)
         \/ \E a \in Allocation, p \in Payment, i \in Invoice, amount \in Amount :
              AllocationPatchLoad(w, a, p, i, amount)
  PROVE  Proceeds(w)
<1>1. RowsTyped /\ KeysExist
  BY Before
<1>2. ASSUME NEW p \in Payment, NEW q \in Payment, NEW i \in Invoice, NEW amount \in Amount,
             NEW settles \in BOOLEAN, AllocateLoad(w, p, q, i, amount, settles)
      PROVE  Proceeds(w)
  <2>1. PICK row : row = [state |-> "LIVE", payment |-> p, invoice |-> i, amount |-> amount]
    OBVIOUS
  <2>2. row \in AllocationRow /\ row.payment = p /\ row.invoice = i
    BY <2>1 DEF AllocationRow
  <2>3. PICK r : r = [pc |-> "Allocate", row |-> row, checked |-> q, bill |-> invoice[i],
                      settles |-> settles]
    OBVIOUS
  <2>4. /\ invoice[i] \in InvoiceRow /\ Exists(invoice[i])
        /\ Exists(payment[p]) /\ Exists(payment[q])
    BY <1>1, <1>2 DEF RowsTyped, AllocateLoad, Live, Exists
  <2>5. r \in Req /\ Linked(r) /\ Current(r)
    BY <2>2, <2>3, <2>4 DEF Req, Linked, Current
  <2>6. Step(w, r, {}) /\ UNCHANGED rows
    BY <1>2, <2>1, <2>3 DEF AllocateLoad
  <2> QED
    BY <1>1, <2>5, <2>6, Reads
<1>3. ASSUME NEW a \in Allocation, NEW p \in Payment, NEW i \in Invoice, NEW amount \in Amount,
             AllocationPatchLoad(w, a, p, i, amount)
      PROVE  Proceeds(w)
  <2>1. Exists(allocation[a]) /\ Exists(payment[p]) /\ Exists(invoice[i])
    BY <1>3 DEF AllocationPatchLoad, Live, Exists
  <2>2. allocation[a] \in AllocationRow
    BY <1>1, <2>1, AllocationIs
  <2>3. PICK row : row = [allocation[a] EXCEPT !.payment = p, !.invoice = i, !.amount = amount]
    OBVIOUS
  <2>4. row \in AllocationRow /\ row.payment = p /\ row.invoice = i
    BY <2>2, <2>3 DEF AllocationRow
  <2>5. PICK r : r = [pc |-> "PatchAllocation", allocation |-> a, row |-> row]
    OBVIOUS
  <2>6. r \in Req /\ Linked(r) /\ Current(r)
    BY <2>1, <2>4, <2>5 DEF Req, Linked, Current
  <2>7. Step(w, r, {}) /\ UNCHANGED rows
    BY <1>3, <2>3, <2>5 DEF AllocationPatchLoad
  <2> QED
    BY <1>1, <2>6, <2>7, Reads
<1> QED
  BY <1>2, <1>3

\* The new allocation is of a payment and an invoice that exist; its request
\* goes on with the invoice it has read, if it is to settle.
LEMMA AllocationInserted ==
  ASSUME RowsAgree, NEW w \in Request, NEW a \in Allocation, AllocateInsert(w, a)
  PROVE  Proceeds(w)
<1>1. /\ RowsTyped /\ KeysExist /\ req[w] \in Req /\ Linked(req[w])
      /\ w \notin late => Current(req[w])
  BY Before
<1>2. At(w, "Allocate") /\ allocation[a] = NoAllocation
  BY DEF AllocateInsert
<1>3. PICK row \in AllocationRow : row = req[w].row
  BY <1>1, <1>2, Shape DEF At
<1>4. PICK bill \in InvoiceRow : bill = req[w].bill
  BY <1>1, <1>2, Shape DEF At
<1>5. PICK X : X = Books(row.payment, row.invoice)
  OBVIOUS
<1>6. <<"received", row.invoice>> \in X /\ Keys(row) \subseteq X
  BY <1>5 DEF Books, Keys
<1>7. Exists(payment[row.payment]) /\ Exists(invoice[row.invoice])
  BY <1>1, <1>2, <1>3 DEF Linked, At
<1>8. ~ Exists(allocation[a]) /\ row.invoice \in Invoice
  BY <1>2 DEF Exists, NoAllocation, AllocationRow
<1>9. Lands(X)
  BY <1>1, <1>3, <1>6, <1>7, <1>8, AllocationWrite DEF AllocateInsert
<1>10. CASE ~ req[w].settles
  <2>1. Step(w, Idle, X)
    BY <1>3, <1>5, <1>10 DEF AllocateInsert
  <2> QED
    BY <1>9, <2>1, Ends
<1>11. CASE req[w].settles
  <2>1. PICK r : r = [pc |-> "Settle", invoice |-> row.invoice, bill |-> bill]
    OBVIOUS
  <2>2. Step(w, r, X)
    BY <1>3, <1>4, <1>5, <1>11, <2>1 DEF AllocateInsert
  <2>3. r \in Req /\ Linked(r)'
    BY <1>8, <2>1 DEF Req, Linked
  <2>4. w \notin late => bill = invoice'[row.invoice]
    BY <1>1, <1>2, <1>3, <1>4 DEF Current, At, AllocateInsert
  <2>5. w \notin late => Current(r)'
    BY <2>1, <2>4 DEF Current
  <2> QED
    BY <1>9, <2>2, <2>3, <2>5 DEF Proceeds, Goes
<1> QED
  BY <1>10, <1>11

\* An allocation is also written by whoever changes or deletes it.
LEMMA AllocationWrites ==
  ASSUME RowsAgree, NEW w \in Request,
         AllocationPatchSave(w) \/ \E a \in Allocation : AllocationDelete(w, a)
  PROVE  Proceeds(w)
<1>1. RowsTyped /\ KeysExist /\ req[w] \in Req /\ Linked(req[w])
  BY Before
<1>2. CASE AllocationPatchSave(w)
  <2>1. PICK b \in Allocation : b = req[w].allocation
    BY <1>1, <1>2, Shape DEF AllocationPatchSave, At
  <2>2. PICK row \in AllocationRow : row = req[w].row
    BY <1>1, <1>2, Shape DEF AllocationPatchSave, At
  <2>4. Exists(payment[row.payment]) /\ Exists(invoice[row.invoice])
    BY <1>1, <1>2, <2>2 DEF Linked, AllocationPatchSave, At
  <2>5. PICK X : X = Books(row.payment, row.invoice)
                       \cup Books(allocation[b].payment, allocation[b].invoice) \cup {b}
    OBVIOUS
  <2>6. /\ <<"received", row.invoice>> \in X /\ Keys(row) \subseteq X
        /\ <<"received", allocation[b].invoice>> \in X /\ Keys(allocation[b]) \subseteq X
    BY <2>5 DEF Books, Keys
  <2>7. Lands(X)
    BY <1>1, <1>2, <2>1, <2>2, <2>4, <2>6, AllocationWrite DEF AllocationPatchSave
  <2> QED
    BY <1>2, <2>1, <2>2, <2>5, <2>7, Ends DEF AllocationPatchSave
<1>3. ASSUME NEW a \in Allocation, AllocationDelete(w, a) PROVE Proceeds(w)
  <2>1. Exists(allocation[a])
    BY <1>3 DEF AllocationDelete, Live, Exists
  <2>2. allocation[a] \in AllocationRow
    BY <1>1, <2>1, AllocationIs
  <2>3. PICK row : row = [allocation[a] EXCEPT !.state = "DELETED"]
    OBVIOUS
  <2>4. /\ row \in AllocationRow /\ row.payment = allocation[a].payment
        /\ row.invoice = allocation[a].invoice
    BY <2>2, <2>3 DEF AllocationRow
  <2>5. Exists(payment[row.payment]) /\ Exists(invoice[row.invoice])
    BY <1>1, <2>1, <2>4 DEF KeysExist
  <2>6. allocation' = [allocation EXCEPT ![a] = row] /\ UNCHANGED <<milestone, invoice, payment>>
    BY <1>3, <2>3 DEF AllocationDelete
  <2>7. Lands({a})
    BY <1>1, <2>1, <2>3, <2>4, <2>5, <2>6, AllocationWrite
  <2> QED
    BY <1>3, <2>7, Ends DEF AllocationDelete
<1> QED
  BY <1>2, <1>3

\* A request settles by what it has read of the invoice: when that is still so
\* the invoice is paid.
LEMMA Settled ==
  ASSUME RowsAgree, NEW w \in Request, Settle(w)
  PROVE  Proceeds(w)
<1>1. /\ RowsTyped /\ KeysExist /\ req[w] \in Req
      /\ w \notin late => Current(req[w])
  BY Before
<1>2. At(w, "Settle") /\ UNCHANGED rows
  BY DEF Settle
<1>3. PICK i \in Invoice : i = req[w].invoice
  BY <1>1, <1>2, Shape DEF At
<1>4. PICK bill \in InvoiceRow : bill = req[w].bill
  BY <1>1, <1>2, Shape DEF At
<1>5. CASE Settles(i, bill)
  <2>1. PICK r : r = [pc |-> "MarkPaid", milestone |-> bill.milestone,
                      paid |-> {i, <<"received", i>>}]
    OBVIOUS
  <2>2. Step(w, r, {})
    BY <1>3, <1>4, <1>5, <2>1 DEF Settle
  <2>3. bill.milestone \in Milestone /\ PaidUp(i, bill)
    BY <1>5 DEF Settles, InvoiceRow
  <2>4. r \in Req /\ Linked(r)
    BY <2>1, <2>3 DEF Req, Linked
  <2>5. w \notin late => bill = invoice[i]
    BY <1>1, <1>2, <1>3, <1>4 DEF Current, At
  <2>6. w \notin late => Current(r)
    BY <2>1, <2>3, <2>5 DEF Current
  <2> QED
    BY <1>1, <1>2, <2>2, <2>4, <2>6, Reads
<1>6. CASE ~ Settles(i, bill)
  <2>1. Step(w, Idle, {})
    BY <1>3, <1>4, <1>6 DEF Settle
  <2> QED
    BY <1>1, <1>2, <2>1, IdleKnows, Reads
<1> QED
  BY <1>5, <1>6

(***************************************************************************)
(* Payments                                                                *)
(***************************************************************************)
\* Entering and changing a payment begin with reading, and so does what a new
\* payment settles.
LEMMA PaymentReads ==
  ASSUME RowsAgree, NEW w \in Request,
         \/ \E amount \in Amount, entries \in Entries : PayCheck(w, amount, entries)
         \/ PayRead(w)
         \/ \E p \in Payment, amount \in Amount : PaymentPatchLoad(w, p, amount)
  PROVE  Proceeds(w)
<1>1. RowsTyped /\ KeysExist
  BY Before
<1>2. ASSUME NEW amount \in Amount, NEW entries \in Entries, PayCheck(w, amount, entries)
      PROVE  Proceeds(w)
  <2>1. PICK E : E = {entries[a] : a \in DOMAIN entries}
    OBVIOUS
  <2>2. PICK r : r = [pc |-> "Pay", amount |-> amount, new |-> entries, entries |-> E]
    OBVIOUS
  <2>3. E \in SUBSET Entry
    BY <2>1, EntriesAre
  <2>4. \A e \in E : Exists(invoice[e.invoice])
    BY <1>2, <2>1 DEF PayCheck, EntryFits
  <2>5. r \in Req
    BY <2>2, <2>3 DEF Req
  <2>6. Linked(r) /\ Current(r)
    BY <2>1, <2>2, <2>4 DEF Linked, Current
  <2>7. Step(w, r, {}) /\ UNCHANGED rows
    BY <1>2, <2>1, <2>2 DEF PayCheck
  <2> QED
    BY <1>1, <2>5, <2>6, <2>7, Reads
<1>3. ASSUME NEW p \in Payment, NEW amount \in Amount, PaymentPatchLoad(w, p, amount)
      PROVE  Proceeds(w)
  <2>1. PICK row : row = [payment[p] EXCEPT !.amount = amount]
    OBVIOUS
  <2>2. payment[p] \in PaymentRow
    BY <1>1 DEF RowsTyped
  <2>3. row \in PaymentRow /\ row.state = "LIVE"
    BY <1>3, <2>1, <2>2 DEF PaymentRow, PaymentPatchLoad, Live
  <2>4. PICK r : r = [pc |-> "PatchPayment", payment |-> p, row |-> row]
    OBVIOUS
  <2>5. r \in Req /\ Linked(r) /\ Current(r)
    BY <2>3, <2>4 DEF Req, Linked, Current
  <2>6. Step(w, r, {}) /\ UNCHANGED rows
    BY <1>3, <2>1, <2>4 DEF PaymentPatchLoad
  <2> QED
    BY <1>1, <2>5, <2>6, Reads
<1>4. CASE PayRead(w)
  <2>1. req[w] \in Req /\ Linked(req[w]) /\ At(w, "Pay")
    BY <1>4, Before DEF PayRead
  <2>2. PICK old \in Req : old = req[w]
    BY <2>1
  <2>3. /\ old.amount \in Amount /\ old.new \in Entries /\ old.entries \in SUBSET Entry
        /\ old.entries = {old.new[a] : a \in DOMAIN old.new}
        /\ \A e \in old.entries : Exists(invoice[e.invoice])
    BY <2>1, <2>2, Shape DEF Linked, At
  <2>4. PICK r : r = [pc |-> "Entered", amount |-> old.amount, new |-> old.new,
                      entries |-> old.entries, paid |-> SettledBy(old.new)]
    OBVIOUS
  <2>5. SettledBy(old.new) \in SUBSET Milestone
    BY DEF SettledBy
  <2>6. r \in Req
    BY <2>3, <2>4, <2>5 DEF Req
  <2>7. r.pc = "Entered" /\ r.entries = old.entries /\ r.new = old.new /\ r.paid = SettledBy(r.new)
    BY <2>4
  <2>8. Linked(r)
    BY <2>3, <2>7 DEF Linked
  <2>9. Current(r)
    BY <2>7 DEF Current
  <2>10. Step(w, r, {}) /\ UNCHANGED rows
    BY <1>4, <2>2, <2>4 DEF PayRead
  <2> QED
    BY <1>1, <2>6, <2>8, <2>9, <2>10, Reads
<1> QED
  BY <1>2, <1>3, <1>4

\* A change of a payment changes what its invoices receive.
LEMMA PaymentPatched ==
  ASSUME RowsAgree, NEW w \in Request, PaymentPatchSave(w)
  PROVE  Proceeds(w)
<1>1. RowsTyped /\ KeysExist /\ req[w] \in Req /\ Linked(req[w])
  BY Before
<1>2. At(w, "PatchPayment")
  BY DEF PaymentPatchSave
<1>3. PICK p \in Payment : p = req[w].payment
  BY <1>1, <1>2, Shape DEF At
<1>4. PICK row \in PaymentRow : row = req[w].row
  BY <1>1, <1>2, Shape DEF At
<1>5. Exists(row)
  BY <1>1, <1>2, <1>4 DEF Linked, At, Exists
<1>6. PICK X : X = {p} \cup {<<"received", allocation[a].invoice>> : a \in AllocationsOf(p)}
  OBVIOUS
<1>7. Lands(X)
  BY <1>1, <1>3, <1>4, <1>5, <1>6, PaymentWrite DEF PaymentPatchSave
<1> QED
  BY <1>3, <1>6, <1>7, Ends DEF PaymentPatchSave

\* A payment comes with its allocations, and settles milestones.
LEMMA PaymentEntered ==
  ASSUME RowsAgree, NEW w \in Request, NEW p \in Payment, PayInsert(w, p)
  PROVE  Proceeds(w)
<1>1. RowsTyped /\ KeysExist /\ req[w] \in Req /\ Linked(req[w])
  BY Before
<1>2. At(w, "Entered") /\ payment[p] = NoPayment /\ invoice' = invoice
  BY DEF PayInsert
<1>3. PICK new \in Entries : new = req[w].new
  BY <1>1, <1>2, Shape DEF At
<1>4. PICK entries \in SUBSET Entry : entries = req[w].entries
  BY <1>1, <1>2, Shape DEF At
<1>5. entries = {new[a] : a \in DOMAIN new} /\ \A e \in entries : Exists(invoice[e.invoice])
  BY <1>1, <1>2, <1>3, <1>4 DEF Linked, At
<1>6. DOMAIN new \subseteq Allocation /\ \A a \in DOMAIN new : new[a] \in Entry
  BY EntriesAre
<1>7. PICK X : X = req[w].paid \cup UNION {Books(p, e.invoice) : e \in entries}
  OBVIOUS
<1>8. Step(w, Idle, X)
  BY <1>3, <1>4, <1>7 DEF PayInsert
<1>9. ASSUME NEW a \in DOMAIN new
      PROVE  /\ allocation[a] = NoAllocation /\ allocation'[a].state = "LIVE"
             /\ allocation'[a].payment = p /\ allocation'[a].invoice = new[a].invoice
             /\ allocation'[a] \in AllocationRow /\ Exists(invoice[new[a].invoice])
             /\ p \in X /\ new[a].invoice \in X /\ <<"received", new[a].invoice>> \in X
  <2>1. allocation[a] = NoAllocation
    BY <1>3 DEF PayInsert
  <2>2. allocation'[a] = [state |-> "LIVE", payment |-> p, invoice |-> new[a].invoice,
                          amount |-> new[a].amount]
    BY <1>3, <1>6 DEF PayInsert
  <2>3. new[a].invoice \in Invoice /\ new[a].amount \in Amount
    BY <1>6 DEF Entry
  <2>4. allocation'[a] \in AllocationRow
    BY <2>2, <2>3 DEF AllocationRow
  <2>5. new[a] \in entries
    BY <1>5
  <2>6. Books(p, new[a].invoice) \subseteq X
    BY <1>7, <2>5
  <2>7. p \in X /\ new[a].invoice \in X /\ <<"received", new[a].invoice>> \in X
    BY <2>6 DEF Books
  <2> QED
    BY <1>5, <2>1, <2>2, <2>4, <2>5, <2>7
<1>10. \A a \in Allocation \ DOMAIN new : allocation'[a] = allocation[a]
  BY <1>3 DEF PayInsert
<1>11. DOMAIN allocation' = Allocation /\ allocation' = [a \in Allocation |-> allocation'[a]]
  BY DEF PayInsert
<1>12. allocation' \in [Allocation -> {NoAllocation} \cup AllocationRow]
  <2>1. \A a \in Allocation : allocation'[a] \in {NoAllocation} \cup AllocationRow
    BY <1>1, <1>9, <1>10 DEF RowsTyped
  <2> QED
    BY <1>11, <2>1
<1>13. /\ payment \in [Payment -> PaymentRow] /\ payment' \in [Payment -> PaymentRow]
       /\ payment'[p].state = "LIVE" /\ \A q \in Payment \ {p} : payment'[q] = payment[q]
  <2>1. payment \in [Payment -> PaymentRow]
    BY <1>1 DEF RowsTyped
  <2>2. req[w].amount \in Amount
    BY <1>1, <1>2, Shape DEF At
  <2>3. [state |-> "LIVE", amount |-> req[w].amount] \in PaymentRow
    BY <2>2 DEF PaymentRow, State
  <2>4. payment' = [payment EXCEPT ![p] = [state |-> "LIVE", amount |-> req[w].amount]]
    BY DEF PayInsert
  <2> QED
    BY <2>1, <2>3, <2>4
<1>14. ASSUME NEW m \in Milestone
       PROVE  milestone'[m] \in MilestoneRow /\ (m \notin X => milestone'[m] = milestone[m])
  <2>1. milestone[m] \in MilestoneRow
    BY <1>1 DEF RowsTyped
  <2>2. [milestone[m] EXCEPT !.status = "PAID"] \in MilestoneRow
    BY <2>1 DEF MilestoneRow
  <2>3. milestone'[m] = IF m \in req[w].paid THEN [milestone[m] EXCEPT !.status = "PAID"]
                        ELSE milestone[m]
    BY <1>4 DEF PayInsert
  <2> QED
    BY <1>7, <2>1, <2>2, <2>3
<1>15. milestone' \in [Milestone -> MilestoneRow]
  <2>1. milestone' = [m \in Milestone |-> milestone'[m]]
    BY DEF PayInsert
  <2> QED
    BY <1>14, <2>1
<1>16. RowsTyped'
  BY <1>1, <1>2, <1>12, <1>13, <1>15 DEF RowsTyped
<1>17. ~ Exists(NoAllocation) /\ ~ Exists(payment[p]) /\ Exists(payment'[p])
  BY <1>2, <1>13 DEF Exists, NoAllocation, NoPayment
<1>18. \A a \in Allocation : Exists(allocation[a]) => /\ allocation'[a] = allocation[a]
                                                    /\ allocation[a].payment \in Payment \ {p}
  <2>1. \A a \in Allocation : Exists(allocation[a]) => allocation[a].payment \in Payment
    BY <1>1, AllocationIs DEF AllocationRow
  <2> QED
    BY <1>1, <1>9, <1>10, <1>17, <2>1 DEF KeysExist
<1>19. KeysStay
  BY <1>2, <1>13, <1>17, <1>18 DEF KeysStay
<1>20. KeysExist'
  <2>1. ASSUME NEW a \in Allocation, Exists(allocation'[a])
        PROVE  Exists(payment'[allocation'[a].payment]) /\ Exists(invoice[allocation'[a].invoice])
    <3>1. CASE a \in DOMAIN new
      BY <1>9, <1>17, <3>1
    <3>2. CASE a \notin DOMAIN new
      BY <1>1, <1>10, <1>13, <1>18, <2>1, <3>2 DEF KeysExist
    <3> QED
      BY <3>1, <3>2
  <2> QED
    BY <1>2, <2>1 DEF KeysExist, Exists
<1>21. ASSUME NEW i \in Invoice, <<"received", i>> \notin X
       PROVE  Incoming(i, {})' = Incoming(i, {})
  <2>1. \A a \in DOMAIN new : allocation'[a].invoice # i
    BY <1>9, <1>21
  <2>2. AllocationsTo(i)' = AllocationsTo(i)
    <3>1. ASSUME NEW a \in Allocation
          PROVE  Exists(allocation'[a]) /\ allocation'[a].invoice = i
                   <=> Exists(allocation[a]) /\ allocation[a].invoice = i
      <4>1. CASE a \in DOMAIN new
        BY <1>9, <1>17, <2>1, <4>1
      <4>2. CASE a \notin DOMAIN new
        BY <1>10, <4>2
      <4> QED
        BY <4>1, <4>2
    <3> QED
      BY <3>1 DEF AllocationsTo, Exists
  <2>3. \A a \in AllocationsTo(i) :
          /\ allocation'[a] = allocation[a]
          /\ payment'[allocation[a].payment] = payment[allocation[a].payment]
    BY <1>13, <1>18 DEF AllocationsTo
  <2>4. {b \in AllocationsTo(i) \ {} : Live(payment[allocation[b].payment])}'
          = {b \in AllocationsTo(i) \ {} : Live(payment[allocation[b].payment])}
    BY <2>2, <2>3 DEF Live
  <2> QED
    BY <2>3, <2>4 DEF Incoming
<1>22. \A m : Active(m)' \subseteq Active(m)
  BY <1>2, ActiveStays
<1>23. \A a \in Allocation : Live(allocation'[a]) /\ ~ Live(allocation[a]) =>
         allocation'[a].payment \in X /\ allocation'[a].invoice \in X
  BY <1>9, <1>10
<1>24. Footprint(X)
  BY <1>2, <1>14, <1>18, <1>19, <1>21, <1>22, <1>23 DEF Footprint
<1> QED
  BY <1>8, <1>16, <1>20, <1>24, Ends DEF Lands

(***************************************************************************)
(* Deletions                                                               *)
(***************************************************************************)
\* What sequences of frames contain.
LEMMA FramesOf ==
  /\ Range(<<>>) = {}
  /\ \A f : Range(<<f>>) = {f}
  /\ \A f, g : Range(<<f, g>>) = {f, g}
  /\ <<>> \in Seq(Frames) /\ \A f \in Frames : <<f>> \in Seq(Frames)
  /\ \A s, t \in Seq(Frames) : s \o t \in Seq(Frames) /\ Range(s \o t) = Range(s) \cup Range(t)
  /\ \A s \in Seq(Frames) : s # <<>> =>
       /\ Head(s) \in Frames /\ Tail(s) \in Seq(Frames)
       /\ Range(s) = {Head(s)} \cup Range(Tail(s))
<1>1. /\ Range(<<>>) = {}
      /\ \A f : Range(<<f>>) = {f}
      /\ \A f, g : Range(<<f, g>>) = {f, g}
  BY DEF Range
<1>2. ASSUME NEW s \in Seq(Frames), NEW t \in Seq(Frames)
      PROVE  s \o t \in Seq(Frames) /\ Range(s \o t) = Range(s) \cup Range(t)
  <2>1. /\ s \o t \in Seq(Frames) /\ Len(s \o t) = Len(s) + Len(t)
        /\ Len(s) \in Nat /\ Len(t) \in Nat
        /\ DOMAIN (s \o t) = 1..Len(s \o t) /\ DOMAIN s = 1..Len(s) /\ DOMAIN t = 1..Len(t)
        /\ \A k \in 1..Len(s) : (s \o t)[k] = s[k]
        /\ \A k \in 1..Len(t) : (s \o t)[Len(s) + k] = t[k]
    OBVIOUS
  <2>2. PICK u : u = s \o t
    OBVIOUS
  <2>3. ASSUME NEW k \in 1..Len(u)
        PROVE  u[k] \in Range(s) \cup Range(t)
    <3>1. CASE k \in 1..Len(s)
      BY <2>1, <2>2, <3>1 DEF Range
    <3>2. CASE k \notin 1..Len(s)
      <4>1. k - Len(s) \in 1..Len(t) /\ Len(s) + (k - Len(s)) = k
        BY <2>1, <2>2, <3>2
      <4>2. u[k] = t[k - Len(s)]
        BY <2>1, <2>2, <4>1
      <4> QED
        BY <2>1, <4>1, <4>2 DEF Range
    <3> QED
      BY <3>1, <3>2
  <2>4. Range(u) \subseteq Range(s) \cup Range(t)
    BY <2>1, <2>2, <2>3 DEF Range
  <2>5. ASSUME NEW k \in 1..Len(s) PROVE s[k] \in Range(u)
    BY <2>1, <2>2 DEF Range
  <2>6. ASSUME NEW k \in 1..Len(t) PROVE t[k] \in Range(u)
    <3>1. Len(s) + k \in 1..Len(u) /\ u[Len(s) + k] = t[k]
      BY <2>1, <2>2
    <3> QED
      BY <2>1, <2>2, <3>1 DEF Range
  <2>7. Range(s) \cup Range(t) \subseteq Range(u)
    BY <2>1, <2>5, <2>6 DEF Range
  <2> QED
    BY <2>1, <2>2, <2>4, <2>7
<1>3. ASSUME NEW s \in Seq(Frames), s # <<>>
      PROVE  /\ Head(s) \in Frames /\ Tail(s) \in Seq(Frames)
             /\ Range(s) = {Head(s)} \cup Range(Tail(s))
  <2>1. /\ Head(s) \in Frames /\ Tail(s) \in Seq(Frames) /\ Head(s) = s[1]
        /\ Len(s) \in Nat /\ Len(s) > 0 /\ Len(Tail(s)) = Len(s) - 1 /\ DOMAIN s = 1..Len(s)
        /\ DOMAIN Tail(s) = 1..(Len(s) - 1)
        /\ \A k \in 1..(Len(s) - 1) : Tail(s)[k] = s[k + 1]
    BY <1>3
  <2>2. PICK t : t = Tail(s)
    OBVIOUS
  <2>3. ASSUME NEW k \in 1..Len(s) PROVE s[k] \in {Head(s)} \cup Range(t)
    <3>1. CASE k = 1
      BY <2>1, <3>1
    <3>2. CASE k # 1
      <4>1. k - 1 \in 1..(Len(s) - 1) /\ (k - 1) + 1 = k
        BY <2>1, <3>2
      <4>2. t[k - 1] = s[k]
        BY <2>1, <2>2, <4>1
      <4> QED
        BY <2>1, <2>2, <4>1, <4>2 DEF Range
    <3> QED
      BY <3>1, <3>2
  <2>4. ASSUME NEW k \in 1..(Len(s) - 1) PROVE t[k] \in Range(s)
    BY <2>1, <2>2 DEF Range
  <2>5. Head(s) \in Range(s)
    BY <2>1 DEF Range
  <2>6. Range(s) \subseteq {Head(s)} \cup Range(t)
    BY <2>1, <2>3 DEF Range
  <2>7. Range(t) \subseteq Range(s)
    BY <2>1, <2>2, <2>4 DEF Range
  <2> QED
    BY <2>1, <2>2, <2>5, <2>6, <2>7
<1>4. <<>> \in Seq(Frames) /\ \A f \in Frames : <<f>> \in Seq(Frames)
  OBVIOUS
<1> QED
  BY <1>1, <1>2, <1>3, <1>4

\* A deletion takes nothing back, and its new frames see to what its step has
\* orphaned and to what was left of the frame it has taken.
Unwinds(w, frames, seen, free) ==
  /\ \A i \in Invoice : Live(invoice'[i]) => Live(invoice[i])
  /\ \A m \in Milestone : Active(m)' \subseteq Active(m)
  /\ \A a \in Allocation : Live(allocation'[a]) =>
       Live(allocation[a]) /\ allocation'[a] = allocation[a]
  /\ \A f \in Range(frames) :
       /\ f.do = "release" => f.on \in seen /\ ~ Live(invoice'[f.on])
       /\ f.do = "reset" => f.on \in free /\ Active(f.on)' = {}
  /\ \A a \in Allocation :
       /\ Live(allocation'[a])
       /\ \/ Takes({Head(req[w].todo)}, a)
          \/ {allocation[a].payment, allocation[a].invoice} \cap (seen \ req[w].seen) # {}
       => Takes(Range(frames), a)

\* Such a step leaves the deletion on its way.
LEMMA StaysOnItsWay ==
  ASSUME RowsTyped, NEW w \in Request, req[w] \in Req, At(w, "Destroy"), req[w].todo # <<>>,
         OnItsWay(req[w]), KeysStay, NEW frames \in Seq(Frames), NEW seen, NEW free,
         req[w].seen \subseteq seen, req[w].free \subseteq free, Unwinds(w, frames, seen, free),
         NEW r, r.todo = frames \o Tail(req[w].todo), r.seen = seen, r.free = free
  PROVE  OnItsWay(r)'
<1>1. PICK q \in Req : q = req[w]
  OBVIOUS
<1>2. q.todo \in Seq(Frames) /\ q.todo # <<>> /\ Pending(q) \subseteq Frames
  BY <1>1, Shape, PendingAre DEF At
<1>3. /\ Pending(q) = {Head(q.todo)} \cup Range(Tail(q.todo))
      /\ Pending(r) = Range(frames) \cup Range(Tail(q.todo))
  <2>1. Tail(q.todo) \in Seq(Frames) /\ Range(q.todo) = {Head(q.todo)} \cup Range(Tail(q.todo))
    BY <1>2, FramesOf
  <2>2. Range(frames \o Tail(q.todo)) = Range(frames) \cup Range(Tail(q.todo))
    BY <2>1, FramesOf
  <2>3. r.todo = frames \o Tail(q.todo)
    BY <1>1
  <2> QED
    BY <2>1, <2>2, <2>3 DEF Pending
<1>4. ASSUME NEW f \in Pending(r)
      PROVE  /\ f.do = "release" => f.on \in r.seen /\ ~ Live(invoice'[f.on])
             /\ f.do = "reset" => f.on \in r.free /\ Active(f.on)' = {}
  <2>1. CASE f \in Range(frames)
    BY <2>1 DEF Unwinds
  <2>2. CASE f \in Pending(q)
    <3>1. f \in Frames
      BY <1>2, <2>2
    <3>2. f.do = "release" => f.on \in Invoice /\ f.on \in q.seen /\ ~ Live(invoice[f.on])
      BY <1>1, <2>2, <3>1, FramesAre DEF OnItsWay
    <3>3. f.do = "reset" => f.on \in Milestone /\ f.on \in q.free /\ Active(f.on) = {}
      BY <1>1, <2>2, <3>1, FramesAre DEF OnItsWay
    <3>4. f.do = "reset" => Active(f.on)' = {}
      BY <3>3 DEF Unwinds
    <3>5. f.do = "release" => ~ Live(invoice'[f.on])
      BY <3>2 DEF Unwinds
    <3> QED
      BY <1>1, <3>2, <3>3, <3>4, <3>5
  <2> QED
    BY <1>3, <2>1, <2>2
<1>5. ASSUME NEW a \in Allocation, Live(allocation'[a]),
             {allocation'[a].payment, allocation'[a].invoice} \cap r.seen # {}
      PROVE  Takes(Pending(r), a)'
  <2>1. Live(allocation[a]) /\ Exists(allocation[a])
    BY <1>5 DEF Unwinds, Live, Exists
  <2>2. /\ allocation'[a].payment = allocation[a].payment
        /\ allocation'[a].invoice = allocation[a].invoice
    BY <1>5 DEF Unwinds
  <2>3. CASE {allocation[a].payment, allocation[a].invoice} \cap (seen \ q.seen) # {}
    <3>1. Takes(Range(frames), a)
      BY <1>1, <1>5, <2>3 DEF Unwinds
    <3> QED
      BY <1>3, <2>2, <3>1 DEF Takes, Pending, Range
  <2>4. CASE {allocation[a].payment, allocation[a].invoice} \cap q.seen # {}
    <3>1. Takes(Pending(q), a)
      BY <1>1, <2>1, <2>4 DEF OnItsWay, Orphaned
    <3>2. CASE Takes({Head(q.todo)}, a)
      <4>1. Takes(Range(frames), a)
        BY <1>1, <1>5, <3>2 DEF Unwinds
      <4> QED
        BY <1>3, <2>2, <4>1 DEF Takes, Pending, Range
    <3>3. CASE Takes(Range(Tail(q.todo)), a)
      <4>1. Takes(Pending(r), a)
        BY <1>3, <3>3 DEF Takes
      <4> QED
        BY <2>2, <4>1 DEF Takes, Pending, Range
    <3> QED
      BY <1>3, <3>1, <3>2, <3>3 DEF Takes
  <2> QED
    BY <1>5, <2>2, <2>3, <2>4
<1> QED
  BY <1>4, <1>5 DEF OnItsWay, Orphaned, Pending, Range, Live

\* The fields of a deletion.
Fields == {"pc", "todo", "seen", "free"}

\* A deletion is a record of these fields ...
LEMMA DeletionFields == ASSUME NEW q \in Req, q.pc = "Destroy" PROVE DOMAIN q = Fields
<1>1. q = [pc |-> "Destroy", todo |-> q.todo, seen |-> q.seen, free |-> q.free]
  BY Shape
<1>2. PICK a, b, c : q = [pc |-> "Destroy", todo |-> a, seen |-> b, free |-> c]
  BY <1>1
<1> QED
  BY <1>2 DEF Fields

\* ... and is made of them.
LEMMA FieldsMake ==
  ASSUME NEW u, NEW a, NEW b, NEW c, u = [k \in Fields |-> u[k]], u["pc"] = "Destroy",
         u["todo"] = a, u["seen"] = b, u["free"] = c
  PROVE  u = [pc |-> "Destroy", todo |-> a, seen |-> b, free |-> c]
<1>1. PICK r : r = [pc |-> "Destroy", todo |-> a, seen |-> b, free |-> c]
  OBVIOUS
<1>2. /\ r = [k \in Fields |-> r[k]]
      /\ r["pc"] = "Destroy" /\ r["todo"] = a /\ r["seen"] = b /\ r["free"] = c
  BY <1>1 DEF Fields
<1>3. \A k \in Fields : u[k] = r[k]
  BY <1>2 DEF Fields
<1> QED
  BY <1>1, <1>2, <1>3

\* The record of a deletion with its next frames, ...
LEMMA FramesNext ==
  ASSUME NEW q \in Req, q.pc = "Destroy", NEW t
  PROVE  [q EXCEPT !.todo = t]
           = [pc |-> "Destroy", todo |-> t, seen |-> q.seen, free |-> q.free]
<1>1. DOMAIN q = Fields
  BY DeletionFields
<1>2. PICK u : u = [q EXCEPT !.todo = t]
  OBVIOUS
<1>3. /\ u = [k \in Fields |-> u[k]] /\ u["pc"] = "Destroy" /\ u["todo"] = t
      /\ u["seen"] = q.seen /\ u["free"] = q.free
  BY <1>1, <1>2 DEF Fields
<1>4. u = [pc |-> "Destroy", todo |-> t, seen |-> q.seen, free |-> q.free]
  BY <1>3, FieldsMake
<1> QED
  BY <1>2, <1>4

\* ... having deleted more, ...
LEMMA SeenNext ==
  ASSUME NEW q \in Req, q.pc = "Destroy", NEW t, NEW e
  PROVE  [q EXCEPT !.todo = t, !.seen = e]
           = [pc |-> "Destroy", todo |-> t, seen |-> e, free |-> q.free]
<1>1. DOMAIN q = Fields
  BY DeletionFields
<1>2. PICK u : u = [q EXCEPT !.todo = t, !.seen = e]
  OBVIOUS
<1>3. /\ u = [k \in Fields |-> u[k]] /\ u["pc"] = "Destroy" /\ u["todo"] = t
      /\ u["seen"] = e /\ u["free"] = q.free
  BY <1>1, <1>2 DEF Fields
<1>4. u = [pc |-> "Destroy", todo |-> t, seen |-> e, free |-> q.free]
  BY <1>3, FieldsMake
<1> QED
  BY <1>2, <1>4

\* ... or being about to set a milestone back.
LEMMA FreeNext ==
  ASSUME NEW q \in Req, q.pc = "Destroy", NEW t, NEW e
  PROVE  [q EXCEPT !.todo = t, !.free = e]
           = [pc |-> "Destroy", todo |-> t, seen |-> q.seen, free |-> e]
<1>1. DOMAIN q = Fields
  BY DeletionFields
<1>2. PICK u : u = [q EXCEPT !.todo = t, !.free = e]
  OBVIOUS
<1>3. /\ u = [k \in Fields |-> u[k]] /\ u["pc"] = "Destroy" /\ u["todo"] = t
      /\ u["seen"] = q.seen /\ u["free"] = e
  BY <1>1, <1>2 DEF Fields
<1>4. u = [pc |-> "Destroy", todo |-> t, seen |-> q.seen, free |-> e]
  BY <1>3, FieldsMake
<1> QED
  BY <1>2, <1>4

\* The lemma for the steps of a deletion.
LEMMA DeletionGoesOn ==
  ASSUME RowsAgree, NEW w \in Request, At(w, "Destroy"), req[w].todo # <<>>, NEW X, Lands(X),
         NEW frames \in Seq(Frames),
         NEW seen \in SUBSET (Invoice \cup Payment), NEW free \in SUBSET Milestone,
         req[w].seen \subseteq seen, req[w].free \subseteq free,
         Step(w, [pc |-> "Destroy", todo |-> frames \o Tail(req[w].todo), seen |-> seen,
                  free |-> free], X),
         \A f \in Range(frames) : Leads(f)', w \notin late => Unwinds(w, frames, seen, free)
  PROVE  Proceeds(w)
<1>1. /\ RowsTyped /\ req[w] \in Req /\ Linked(req[w])
      /\ w \notin late => Current(req[w])
  BY Before
<1>2. PICK q \in Req : q = req[w]
  BY <1>1
<1>3. q.pc = "Destroy" /\ q.todo # <<>> /\ Linked(q)
  BY <1>1, <1>2 DEF At
<1>4. /\ q.todo \in Seq(Frames) /\ Pending(q) \subseteq Frames
      /\ q = [pc |-> "Destroy", todo |-> q.todo, seen |-> q.seen, free |-> q.free]
  BY <1>3, Shape, PendingAre
<1>5. PICK todo : todo = frames \o Tail(q.todo)
  OBVIOUS
<1>6. PICK r : r = [pc |-> "Destroy", todo |-> todo, seen |-> seen, free |-> free]
  OBVIOUS
<1>8. Step(w, r, X)
  BY <1>2, <1>5, <1>6
<1>9. todo \in Seq(Frames) /\ Range(todo) \subseteq Range(frames) \cup Pending(q)
  <2>1. Tail(q.todo) \in Seq(Frames) /\ Range(q.todo) = {Head(q.todo)} \cup Range(Tail(q.todo))
    BY <1>3, <1>4, FramesOf
  <2>2. /\ frames \o Tail(q.todo) \in Seq(Frames)
        /\ Range(frames \o Tail(q.todo)) = Range(frames) \cup Range(Tail(q.todo))
    BY <2>1, FramesOf
  <2> QED
    BY <1>5, <2>1, <2>2 DEF Pending
<1>10. r \in Req
  BY <1>6, <1>9 DEF Req
<1>11. KeysStay
  BY DEF Lands, Footprint
<1>12. ASSUME NEW f \in Range(todo)
       PROVE  Leads(f)'
  <2>1. CASE f \in Range(frames)
    BY <2>1
  <2>2. CASE f \in Pending(q)
    <3>1. f \in Frames /\ Leads(f)
      BY <1>3, <1>4, <2>2 DEF Linked
    <3> QED
      BY <1>11, <3>1, LeadsStay
  <2> QED
    BY <1>9, <2>1, <2>2
<1>13. Linked(r)'
  BY <1>6, <1>12 DEF Linked, Pending, Range, Leads
<1>14. ASSUME w \notin late
       PROVE  Current(r)'
  <2>1. OnItsWay(req[w])
    BY <1>1, <1>14 DEF Current, At
  <2>2. r.todo = frames \o Tail(req[w].todo) /\ r.seen = seen /\ r.free = free
    BY <1>2, <1>5, <1>6
  <2>3. OnItsWay(r)'
    BY <1>1, <1>11, <1>14, <2>1, <2>2, StaysOnItsWay
  <2> QED
    BY <1>6, <2>3 DEF Current
<1> QED
  BY <1>8, <1>10, <1>13, <1>14 DEF Proceeds, Goes

\* What a frame does, and to what; invoices go with their milestone.
LEMMA FrameIs == \A d, x : Frame(d, x).do = d /\ Frame(d, x).on = x
  BY DEF Frame

LEMMA InvoiceFrameIs ==
  \A d, i, m : InvoiceFrame(d, i, m).do = d /\ InvoiceFrame(d, i, m).on = i
  BY DEF InvoiceFrame

\* The frames there are for invoices, payments and milestones, ...
LEMMA FramesMade ==
  /\ \A i \in Invoice, m \in Milestone \cup {None} :
       InvoiceFrame("invoice", i, m) \in Frames /\ InvoiceFrame("release", i, m) \in Frames
  /\ \A i \in Invoice : Frame("of invoice", i) \in Frames
  /\ \A p \in Payment : Frame("payment", p) \in Frames /\ Frame("of payment", p) \in Frames
  /\ \A m \in Milestone : Frame("reset", m) \in Frames
  BY DEF Frame, InvoiceFrame, Frames

\* ... and for allocations, by the keys of their other ends.
LEMMA EndsMade ==
  ASSUME NEW A \in SUBSET Allocation, NEW ends
  PROVE  /\ ends \in [A -> Payment] => Frame("via invoice", ends) \in Frames
         /\ ends \in [A -> Invoice] => Frame("via payment", ends) \in Frames
<1>1. ASSUME ends \in [A -> Payment]
      PROVE  Frame("via invoice", ends) \in Frames
  <2>1. ends \in UNION {[B -> Payment] : B \in SUBSET Allocation}
    BY <1>1
  <2> QED
    BY <2>1 DEF Frame, Frames
<1>2. ASSUME ends \in [A -> Invoice]
      PROVE  Frame("via payment", ends) \in Frames
  <2>1. ends \in UNION {[B -> Invoice] : B \in SUBSET Allocation}
    BY <1>2
  <2> QED
    BY <2>1 DEF Frame, Frames
<1> QED
  BY <1>1, <1>2

\* A deletion starts with one frame.
LEMMA DeletionStarts ==
  ASSUME RowsAgree, NEW w \in Request, NEW frame \in Frames, frame.do \in {"invoice", "payment"},
         Leads(frame), DestroyStart(w, frame)
  PROVE  Proceeds(w)
<1>1. RowsTyped /\ KeysExist
  BY Before
<1>2. PICK r : r = [pc |-> "Destroy", todo |-> <<frame>>, seen |-> {}, free |-> {}]
  OBVIOUS
<1>3. <<frame>> \in Seq(Frames) /\ Range(<<frame>>) = {frame}
  BY FramesOf
<1>4. r \in Req
  BY <1>2, <1>3 DEF Req
<1>5. Linked(r)
  BY <1>2, <1>3 DEF Linked, Pending
<1>6. OnItsWay(r)
  BY <1>2, <1>3 DEF OnItsWay, Pending, Orphaned
<1>7. Current(r)
  BY <1>2, <1>6 DEF Current
<1>8. Step(w, r, {}) /\ UNCHANGED rows
  BY <1>2 DEF DestroyStart
<1> QED
  BY <1>1, <1>4, <1>5, <1>7, <1>8, Reads

\* What a deletion may count on before its step.
LEMMA OnFrame ==
  ASSUME RowsAgree, NEW w \in Request, At(w, "Destroy"), req[w].todo # <<>>
  PROVE  /\ req[w] \in Req /\ req[w].pc = "Destroy" /\ Linked(req[w])
         /\ req[w].seen \in SUBSET (Invoice \cup Payment) /\ req[w].free \in SUBSET Milestone
         /\ Head(req[w].todo) \in Frames /\ Head(req[w].todo) \in Pending(req[w])
         /\ w \notin late => OnItsWay(req[w])
<1>1. req[w] \in Req /\ req[w].pc = "Destroy" /\ Linked(req[w])
  BY Before DEF At
<1>2. /\ req[w].seen \in SUBSET (Invoice \cup Payment) /\ req[w].free \in SUBSET Milestone
      /\ req[w].todo \in Seq(Frames)
  BY <1>1, Shape
<1>3. Head(req[w].todo) \in Frames /\ Head(req[w].todo) \in Range(req[w].todo)
  BY <1>2, FramesOf
<1>4. w \notin late => OnItsWay(req[w])
  BY <1>1, Before DEF Current
<1> QED
  BY <1>1, <1>2, <1>3, <1>4 DEF Pending

\* The frames of invoices and payments take no allocation yet.
LEMMA TakesNone ==
  ASSUME NEW f, f.do \in {"invoice", "payment", "release", "reset"}, NEW a
  PROVE  ~ Takes({f}, a)
<1>1. PICK g, h : /\ g = Frame("of invoice", allocation[a].invoice)
                  /\ h = Frame("of payment", allocation[a].payment)
  OBVIOUS
<1>2. g.do = "of invoice" /\ h.do = "of payment"
  BY <1>1, FrameIs
<1>3. f # g /\ f # h
  BY <1>2
<1> QED
  BY <1>1, <1>3 DEF Takes

\* An invoice is deleted; its milestone and its allocations are next.
LEMMA InvoiceDeleted ==
  ASSUME RowsAgree, NEW w \in Request, DestroyInvoice(w)
  PROVE  Proceeds(w)
<1>1. At(w, "Destroy") /\ req[w].todo # <<>> /\ Head(req[w].todo).do = "invoice"
  BY DEF DestroyInvoice, Destroying
<1>2. /\ RowsTyped /\ KeysExist /\ req[w] \in Req /\ req[w].pc = "Destroy"
      /\ req[w].seen \in SUBSET (Invoice \cup Payment) /\ req[w].free \in SUBSET Milestone
      /\ Head(req[w].todo) \in Frames
  BY <1>1, OnFrame, Before
<1>3. PICK i \in Invoice, m \in Milestone \cup {None} :
        i = Head(req[w].todo).on /\ m = Head(req[w].todo).of
  BY <1>1, <1>2, FramesAre
<1>4. invoice[i] \in InvoiceRow /\ invoice \in [Invoice -> InvoiceRow]
  BY <1>2 DEF RowsTyped
<1>5. PICK row : row = [invoice[i] EXCEPT !.state = "DELETED"]
  OBVIOUS
<1>6. /\ row \in InvoiceRow /\ Exists(row) /\ ~ Live(row)
      /\ row.milestone = invoice[i].milestone
  BY <1>4, <1>5 DEF InvoiceRow, Exists, Live, State
<1>7. PICK X : X = {i, invoice[i].milestone, <<"billed">>}
  OBVIOUS
<1>8. invoice' = [invoice EXCEPT ![i] = row] /\ UNCHANGED <<milestone, payment, allocation>>
  BY <1>3, <1>5 DEF DestroyInvoice
<1>9. Lands(X)
  BY <1>2, <1>6, <1>7, <1>8, InvoiceWrite
<1>10. PICK frames : frames = <<InvoiceFrame("release", i, m), Frame("of invoice", i)>>
  OBVIOUS
<1>11. /\ frames \in Seq(Frames)
       /\ Range(frames) = {InvoiceFrame("release", i, m), Frame("of invoice", i)}
  <2>1. PICK f \in Frames, g \in Frames : f = InvoiceFrame("release", i, m) /\ g = Frame("of invoice", i)
    BY FrameIs, FramesMade
  <2>2. <<f, g>> \in Seq(Frames) /\ Range(<<f, g>>) = {f, g}
    BY FramesOf
  <2> QED
    BY <1>10, <2>1, <2>2
<1>12. PICK seen : seen = req[w].seen \cup {i}
  OBVIOUS
<1>13. Step(w, [pc |-> "Destroy", todo |-> frames \o Tail(req[w].todo), seen |-> seen,
                free |-> req[w].free], X)
  <2>1. Step(w, [req[w] EXCEPT !.todo = frames \o Tail(req[w].todo),
                               !.seen = req[w].seen \cup {i}], X)
    BY <1>3, <1>7, <1>10 DEF DestroyInvoice, Marked
  <2> QED
    BY <1>2, <1>12, <2>1, SeenNext
<1>14. /\ \A j \in Invoice : Live(invoice'[j]) => Live(invoice[j])
       /\ ~ Live(invoice'[i])
       /\ \A n \in Milestone : Active(n)' \subseteq Active(n)
  <2>1. invoice'[i] = row /\ \A j \in Invoice \ {i} : invoice'[j] = invoice[j]
    BY <1>4, <1>8
  <2>2. ASSUME NEW n \in Milestone, NEW j \in Active(n)'
        PROVE  j \in Active(n)
    <3>1. j \in Invoice /\ Live(invoice'[j]) /\ ~ invoice'[j].cancelled
            /\ invoice'[j].milestone = n
      BY <2>2 DEF Active, Live
    <3>2. j # i
      BY <1>6, <2>1, <3>1
    <3> QED
      BY <2>1, <3>1, <3>2 DEF Active
  <2> QED
    BY <1>6, <2>1, <2>2
<1>15. Unwinds(w, frames, seen, req[w].free)
  <2>1. ASSUME NEW f \in Range(frames)
        PROVE  /\ f.do = "release" => f.on \in seen /\ ~ Live(invoice'[f.on])
               /\ f.do = "reset" => f.on \in req[w].free /\ Active(f.on)' = {}
    <3>1. CASE f = InvoiceFrame("release", i, m)
      <4>1. f.do = "release" /\ f.on = i
        BY <3>1, InvoiceFrameIs
      <4> QED
        BY <1>12, <1>14, <4>1
    <3>2. CASE f = Frame("of invoice", i)
      <4>1. f.do = "of invoice"
        BY <3>2, FrameIs
      <4> QED
        BY <4>1
    <3> QED
      BY <1>11, <3>1, <3>2
  <2>2. ASSUME NEW a \in Allocation, Live(allocation'[a]),
               {allocation[a].payment, allocation[a].invoice} \cap (seen \ req[w].seen) # {}
        PROVE  Takes(Range(frames), a)
    <3>1. Exists(allocation[a])
      BY <1>8, <2>2 DEF Live, Exists
    <3>2. allocation[a].payment \in Payment
      BY <1>2, <3>1 DEF RowsTyped, AllocationRow, NoAllocation, Exists
    <3>3. allocation[a].invoice = i
      BY <1>12, <2>2, <3>2, BillingAssumption
    <3> QED
      BY <1>11, <3>3 DEF Takes
  <2>3. \A a \in Allocation : ~ Takes({Head(req[w].todo)}, a)
    BY <1>1, TakesNone
  <2>4. \A a \in Allocation : Live(allocation'[a]) =>
          Live(allocation[a]) /\ allocation'[a] = allocation[a]
    BY <1>8
  <2> QED
    BY <1>14, <2>1, <2>2, <2>3, <2>4 DEF Unwinds
<1>16. ASSUME NEW f \in Range(frames)
       PROVE  Leads(f)'
  <2>1. f.do \in {"release", "of invoice"}
    <3>1. CASE f = InvoiceFrame("release", i, m)
      BY <3>1, InvoiceFrameIs
    <3>2. CASE f = Frame("of invoice", i)
      BY <3>2, FrameIs
    <3> QED
      BY <1>11, <3>1, <3>2
  <2> QED
    BY <2>1 DEF Leads
<1>17. seen \in SUBSET (Invoice \cup Payment) /\ req[w].seen \subseteq seen
  BY <1>2, <1>12
<1> QED
  BY <1>1, <1>2, <1>9, <1>11, <1>13, <1>15, <1>16, <1>17, DeletionGoesOn

\* So is a payment; its allocations are next.
LEMMA PaymentDeleted ==
  ASSUME RowsAgree, NEW w \in Request, DestroyPayment(w)
  PROVE  Proceeds(w)
<1>1. At(w, "Destroy") /\ req[w].todo # <<>> /\ Head(req[w].todo).do = "payment"
  BY DEF DestroyPayment, Destroying
<1>2. /\ RowsTyped /\ KeysExist /\ req[w] \in Req /\ req[w].pc = "Destroy"
      /\ req[w].seen \in SUBSET (Invoice \cup Payment) /\ req[w].free \in SUBSET Milestone
      /\ Head(req[w].todo) \in Frames
  BY <1>1, OnFrame, Before
<1>3. PICK p \in Payment : p = Head(req[w].todo).on
  BY <1>1, <1>2, FramesAre
<1>4. payment[p] \in PaymentRow
  BY <1>2 DEF RowsTyped
<1>5. PICK row : row = [payment[p] EXCEPT !.state = "DELETED"]
  OBVIOUS
<1>6. row \in PaymentRow /\ Exists(row)
  BY <1>4, <1>5 DEF PaymentRow, Exists, State
<1>7. PICK X : X = {p} \cup {<<"received", allocation[a].invoice>> : a \in AllocationsOf(p)}
  OBVIOUS
<1>8. payment' = [payment EXCEPT ![p] = row] /\ UNCHANGED <<milestone, invoice, allocation>>
  BY <1>3, <1>5 DEF DestroyPayment
<1>9. Lands(X)
  BY <1>2, <1>6, <1>7, <1>8, PaymentWrite
<1>10. PICK frames : frames = <<Frame("of payment", p)>>
  OBVIOUS
<1>11. frames \in Seq(Frames) /\ Range(frames) = {Frame("of payment", p)}
  <2>1. PICK f \in Frames : f = Frame("of payment", p)
    BY FrameIs, FramesMade
  <2>2. <<f>> \in Seq(Frames) /\ Range(<<f>>) = {f}
    BY FramesOf
  <2> QED
    BY <1>10, <2>1, <2>2
<1>12. PICK seen : seen = req[w].seen \cup {p}
  OBVIOUS
<1>13. Step(w, [pc |-> "Destroy", todo |-> frames \o Tail(req[w].todo), seen |-> seen,
                free |-> req[w].free], X)
  <2>1. Step(w, [req[w] EXCEPT !.todo = frames \o Tail(req[w].todo),
                               !.seen = req[w].seen \cup {p}], X)
    BY <1>3, <1>7, <1>10 DEF DestroyPayment, Marked
  <2> QED
    BY <1>2, <1>12, <2>1, SeenNext
<1>14. /\ \A m : Active(m)' \subseteq Active(m)
       /\ \A f \in Range(frames) : f.do = "of payment"
  <2>1. PICK f : f = Frame("of payment", p)
    OBVIOUS
  <2>2. f.do = "of payment"
    BY <2>1, FrameIs
  <2> QED
    BY <1>8, <1>11, <2>1, <2>2, ActiveStays
<1>15. Unwinds(w, frames, seen, req[w].free)
  <2>1. ASSUME NEW f \in Range(frames)
        PROVE  f.do # "release" /\ f.do # "reset"
    BY <1>14
  <2>2. ASSUME NEW a \in Allocation, Live(allocation'[a]),
               {allocation[a].payment, allocation[a].invoice} \cap (seen \ req[w].seen) # {}
        PROVE  Takes(Range(frames), a)
    <3>1. Exists(allocation[a])
      BY <1>8, <2>2 DEF Live, Exists
    <3>2. allocation[a].invoice \in Invoice
      BY <1>2, <3>1 DEF RowsTyped, AllocationRow, NoAllocation, Exists
    <3>3. allocation[a].payment = p
      BY <1>12, <2>2, <3>2, BillingAssumption
    <3> QED
      BY <1>11, <3>3 DEF Takes
  <2>3. \A a \in Allocation : ~ Takes({Head(req[w].todo)}, a)
    BY <1>1, TakesNone
  <2>4. /\ \A a \in Allocation : Live(allocation'[a]) =>
             Live(allocation[a]) /\ allocation'[a] = allocation[a]
        /\ \A i \in Invoice : Live(invoice'[i]) => Live(invoice[i])
    BY <1>8
  <2> QED
    BY <1>14, <2>1, <2>2, <2>3, <2>4 DEF Unwinds
<1>16. \A f \in Range(frames) : Leads(f)'
  BY <1>14 DEF Leads
<1>17. seen \in SUBSET (Invoice \cup Payment) /\ req[w].seen \subseteq seen
  BY <1>2, <1>12
<1> QED
  BY <1>1, <1>2, <1>9, <1>11, <1>13, <1>15, <1>16, <1>17, DeletionGoesOn

\* A milestone is released, or not, and set back.
LEMMA MilestoneReleased ==
  ASSUME RowsAgree, NEW w \in Request, DestroyRelease(w)
  PROVE  Proceeds(w)
<1>1. /\ At(w, "Destroy") /\ req[w].todo # <<>> /\ Head(req[w].todo).do = "release"
      /\ UNCHANGED rows
  BY DEF DestroyRelease, Destroying
<1>2. /\ RowsTyped /\ KeysExist /\ req[w] \in Req /\ req[w].pc = "Destroy"
      /\ req[w].seen \in SUBSET (Invoice \cup Payment) /\ req[w].free \in SUBSET Milestone
      /\ Head(req[w].todo) \in Frames /\ Head(req[w].todo) \in Pending(req[w])
      /\ w \notin late => OnItsWay(req[w])
  BY <1>1, OnFrame, Before
<1>3. PICK i \in Invoice, of \in Milestone \cup {None} :
        i = Head(req[w].todo).on /\ of = Head(req[w].todo).of
  BY <1>1, <1>2, FramesAre
<1>5. Lands({})
  BY <1>1, <1>2, NoWrite
<1>6. UNCHANGED <<milestone, invoice, payment, allocation>>
  BY <1>1 DEF rows
<1>7. /\ \A m : Active(m)' = Active(m)
      /\ \A j \in Invoice : Live(invoice'[j]) => Live(invoice[j])
      /\ \A a \in Allocation : Live(allocation'[a]) =>
           Live(allocation[a]) /\ allocation'[a] = allocation[a]
      /\ \A a \in Allocation : ~ Takes({Head(req[w].todo)}, a)
  BY <1>1, <1>6, ActiveStays, TakesNone
<1>8. CASE Continue(w, <<>>, {})
  <2>1. PICK frames : frames = <<>>
    OBVIOUS
  <2>2. frames \in Seq(Frames) /\ Range(frames) = {}
    BY <2>1, FramesOf
  <2>3. Step(w, [pc |-> "Destroy", todo |-> frames \o Tail(req[w].todo), seen |-> req[w].seen,
                 free |-> req[w].free], {})
    BY <1>2, <1>8, <2>1, FramesNext DEF Continue
  <2>4. Unwinds(w, frames, req[w].seen, req[w].free)
    BY <1>7, <2>2 DEF Unwinds
  <2> QED
    BY <1>1, <1>2, <1>5, <2>2, <2>3, <2>4, DeletionGoesOn
<1>9. CASE ~ Continue(w, <<>>, {})
  <2>1. PICK m \in Milestone : m = of /\ OthersActive(i, m) = {}
    BY <1>3, <1>9 DEF DestroyRelease
  <2>2. PICK f \in Frames : f = Frame("reset", m)
    BY FrameIs, FramesMade
  <2>3. PICK frames : frames = <<f>>
    OBVIOUS
  <2>4. frames \in Seq(Frames) /\ Range(frames) = {f}
    BY <2>3, FramesOf
  <2>5. PICK free : free = req[w].free \cup {m}
    OBVIOUS
  <2>6. Step(w, [pc |-> "Destroy", todo |-> frames \o Tail(req[w].todo), seen |-> req[w].seen,
                 free |-> free], {})
    <3>1. Step(w, [req[w] EXCEPT !.todo = frames \o Tail(req[w].todo),
                                 !.free = req[w].free \cup {m}], {})
      BY <1>3, <1>9, <2>1, <2>2, <2>3 DEF DestroyRelease
    <3>2. [req[w] EXCEPT !.todo = frames \o Tail(req[w].todo), !.free = req[w].free \cup {m}]
            = [pc |-> "Destroy", todo |-> frames \o Tail(req[w].todo), seen |-> req[w].seen,
               free |-> req[w].free \cup {m}]
      <4>1. PICK q \in Req : q = req[w] /\ q.pc = "Destroy"
        BY <1>2
      <4>2. PICK t, e : t = frames \o Tail(req[w].todo) /\ e = req[w].free \cup {m}
        OBVIOUS
      <4>3. [q EXCEPT !.todo = t, !.free = e]
              = [pc |-> "Destroy", todo |-> t, seen |-> q.seen, free |-> e]
        BY <4>1, FreeNext
      <4> QED
        BY <4>1, <4>2, <4>3
    <3> QED
      BY <2>5, <3>1, <3>2
  <2>7. f.do = "reset" /\ f.on = m
    BY <2>2, FrameIs
  <2>8. ASSUME w \notin late
        PROVE  Unwinds(w, frames, req[w].seen, free)
    <3>1. ~ Live(invoice[i])
      BY <1>1, <1>2, <1>3, <2>8 DEF OnItsWay
    <3>2. i \notin Active(m)
      BY <3>1 DEF Active
    <3>3. Active(m) = {}
      BY <2>1, <3>2 DEF OthersActive
    <3> QED
      BY <1>7, <2>4, <2>5, <2>7, <3>3 DEF Unwinds
  <2>9. free \in SUBSET Milestone /\ req[w].free \subseteq free
    BY <1>2, <2>5
  <2>10. \A g \in Range(frames) : Leads(g)'
    BY <2>4, <2>7 DEF Leads
  <2> QED
    BY <1>1, <1>2, <1>5, <2>4, <2>6, <2>8, <2>9, <2>10, DeletionGoesOn
<1> QED
  BY <1>8, <1>9

\* A milestone is set back, of which no active invoice is left.
LEMMA MilestoneReset ==
  ASSUME RowsAgree, NEW w \in Request, DestroyReset(w)
  PROVE  Proceeds(w)
<1>1. At(w, "Destroy") /\ req[w].todo # <<>> /\ Head(req[w].todo).do = "reset"
  BY DEF DestroyReset, Destroying
<1>2. /\ RowsTyped /\ KeysExist /\ req[w] \in Req /\ req[w].pc = "Destroy"
      /\ req[w].seen \in SUBSET (Invoice \cup Payment) /\ req[w].free \in SUBSET Milestone
      /\ Head(req[w].todo) \in Frames
  BY <1>1, OnFrame, Before
<1>3. PICK m \in Milestone : m = Head(req[w].todo).on
  BY <1>1, <1>2, FramesAre
<1>4. PICK row : row = [milestone[m] EXCEPT !.status = "PENDING"]
  OBVIOUS
<1>5. row \in MilestoneRow
  BY <1>2, <1>4 DEF RowsTyped, MilestoneRow
<1>6. milestone' = [milestone EXCEPT ![m] = row] /\ UNCHANGED <<invoice, payment, allocation>>
  BY <1>3, <1>4 DEF DestroyReset
<1>7. PICK X : X = {m}
  OBVIOUS
<1>8. Lands(X)
  BY <1>2, <1>5, <1>6, <1>7, OneMilestone
<1>9. PICK frames : frames = <<>>
  OBVIOUS
<1>10. frames \in Seq(Frames) /\ Range(frames) = {}
  BY <1>9, FramesOf
<1>11. Step(w, [pc |-> "Destroy", todo |-> frames \o Tail(req[w].todo), seen |-> req[w].seen,
                free |-> req[w].free], X)
  <2>1. Step(w, [req[w] EXCEPT !.todo = frames \o Tail(req[w].todo)], X)
    BY <1>3, <1>7, <1>9 DEF DestroyReset, Continue
  <2> QED
    BY <1>2, <2>1, FramesNext
<1>12. Unwinds(w, frames, req[w].seen, req[w].free)
  <2>1. /\ \A n : Active(n)' = Active(n)
        /\ \A j \in Invoice : Live(invoice'[j]) => Live(invoice[j])
        /\ \A a \in Allocation : Live(allocation'[a]) =>
             Live(allocation[a]) /\ allocation'[a] = allocation[a]
        /\ \A a \in Allocation : ~ Takes({Head(req[w].todo)}, a)
    BY <1>1, <1>6, ActiveStays, TakesNone
  <2> QED
    BY <1>10, <2>1 DEF Unwinds
<1> QED
  BY <1>1, <1>2, <1>8, <1>10, <1>11, <1>12, DeletionGoesOn

\* The allocations of a deleted invoice or payment that are still live.
LEMMA AllocationsListed ==
  ASSUME RowsAgree, NEW w \in Request, DestroyList(w)
  PROVE  Proceeds(w)
<1>1. /\ At(w, "Destroy") /\ req[w].todo # <<>> /\ UNCHANGED rows
      /\ Head(req[w].todo).do \in {"of invoice", "of payment"}
  BY DEF DestroyList, Destroying
<1>2. /\ RowsTyped /\ KeysExist /\ req[w] \in Req /\ req[w].pc = "Destroy"
      /\ req[w].seen \in SUBSET (Invoice \cup Payment) /\ req[w].free \in SUBSET Milestone
      /\ Head(req[w].todo) \in Frames
  BY <1>1, OnFrame, Before
<1>3. Lands({}) /\ UNCHANGED <<milestone, invoice, payment, allocation>>
  BY <1>1, <1>2, NoWrite DEF rows
<1>4. /\ \A m : Active(m)' = Active(m)
      /\ \A j \in Invoice : Live(invoice'[j]) => Live(invoice[j])
      /\ \A a \in Allocation : Live(allocation'[a]) =>
           Live(allocation[a]) /\ allocation'[a] = allocation[a]
  BY <1>3, ActiveStays
<1>5. PICK head : head = Head(req[w].todo)
  OBVIOUS
<1>6. PICK A : A = {a \in Allocation : Live(allocation[a]) /\ Takes({head}, a)}
  OBVIOUS
<1>7. \A a \in Allocation : Live(allocation[a]) =>
        allocation[a].payment \in Payment /\ allocation[a].invoice \in Invoice
  BY <1>2, AllocationIs DEF AllocationRow, Live, Exists
<1>8. PICK do \in {"via invoice", "via payment"}, f \in Frames :
        /\ f.do = do /\ DOMAIN f.on = A
        /\ Continue(w, IF A = {} THEN <<>> ELSE <<f>>, {})
  <2>1. CASE Destroying(w, "of invoice")
    <3>1. head.do = "of invoice"
      BY <1>5, <2>1 DEF Destroying
    <3>2. ASSUME NEW a \in Allocation
          PROVE  Takes({head}, a) <=> allocation[a].invoice = head.on
      <4>1. PICK g, h : /\ g = Frame("of invoice", allocation[a].invoice)
                        /\ h = Frame("of payment", allocation[a].payment)
        OBVIOUS
      <4>2. /\ g.do = "of invoice" /\ g.on = allocation[a].invoice /\ h.do = "of payment"
        BY <4>1, FrameIs
      <4>3. allocation[a].invoice = head.on => g = head
        BY <1>2, <1>5, <3>1, <4>1 DEF Frames, Frame
      <4> QED
        BY <3>1, <4>1, <4>2, <4>3 DEF Takes
    <3>3. A = {a \in AllocationsTo(head.on) : Live(allocation[a])}
      BY <1>6, <3>2 DEF AllocationsTo, Live, Exists
    <3>4. PICK ends : ends = [a \in A |-> allocation[a].payment]
      OBVIOUS
    <3>5. ends \in [A -> Payment] /\ A \in SUBSET Allocation /\ DOMAIN ends = A
      BY <1>6, <1>7, <3>4
    <3>6. Continue(w, Deleting("via invoice", ends), {})
      BY <1>5, <2>1, <3>1, <3>3, <3>4 DEF DestroyList, Destroying
    <3>7. PICK f \in Frames : f = Frame("via invoice", ends)
      BY <3>5, EndsMade
    <3>8. f.do = "via invoice" /\ f.on = ends
      BY <3>7, FrameIs
    <3>9. Continue(w, IF A = {} THEN <<>> ELSE <<f>>, {})
      BY <3>5, <3>6, <3>7 DEF Deleting
    <3> QED
      BY <3>5, <3>8, <3>9
  <2>2. CASE Destroying(w, "of payment")
    <3>1. head.do = "of payment"
      BY <1>5, <2>2 DEF Destroying
    <3>2. ASSUME NEW a \in Allocation
          PROVE  Takes({head}, a) <=> allocation[a].payment = head.on
      <4>1. PICK g, h : /\ g = Frame("of payment", allocation[a].payment)
                        /\ h = Frame("of invoice", allocation[a].invoice)
        OBVIOUS
      <4>2. /\ g.do = "of payment" /\ g.on = allocation[a].payment /\ h.do = "of invoice"
        BY <4>1, FrameIs
      <4>3. allocation[a].payment = head.on => g = head
        BY <1>2, <1>5, <3>1, <4>1 DEF Frames, Frame
      <4> QED
        BY <3>1, <4>1, <4>2, <4>3 DEF Takes
    <3>3. A = {a \in AllocationsOf(head.on) : Live(allocation[a])}
      BY <1>6, <3>2 DEF AllocationsOf, Live, Exists
    <3>4. PICK ends : ends = [a \in A |-> allocation[a].invoice]
      OBVIOUS
    <3>5. ends \in [A -> Invoice] /\ A \in SUBSET Allocation /\ DOMAIN ends = A
      BY <1>6, <1>7, <3>4
    <3>6. Continue(w, Deleting("via payment", ends), {})
      BY <1>5, <2>2, <3>1, <3>3, <3>4 DEF DestroyList, Destroying
    <3>7. PICK f \in Frames : f = Frame("via payment", ends)
      BY <3>5, EndsMade
    <3>8. f.do = "via payment" /\ f.on = ends
      BY <3>7, FrameIs
    <3>9. Continue(w, IF A = {} THEN <<>> ELSE <<f>>, {})
      BY <3>5, <3>6, <3>7 DEF Deleting
    <3> QED
      BY <3>5, <3>8, <3>9
  <2> QED
    BY <2>1, <2>2 DEF DestroyList
<1>9. f.do = do /\ DOMAIN f.on = A
  BY <1>8
<1>10. PICK frames : frames = IF A = {} THEN <<>> ELSE <<f>>
  OBVIOUS
<1>11. /\ frames \in Seq(Frames)
       /\ Range(frames) \subseteq {f} /\ (A # {} => f \in Range(frames))
  <2>1. <<>> \in Seq(Frames) /\ <<f>> \in Seq(Frames)
    BY FramesOf
  <2>2. Range(<<>>) = {} /\ Range(<<f>>) = {f}
    BY FramesOf
  <2> QED
    BY <1>10, <2>1, <2>2
<1>12. Step(w, [pc |-> "Destroy", todo |-> frames \o Tail(req[w].todo), seen |-> req[w].seen,
                free |-> req[w].free], {})
  <2>1. Step(w, [req[w] EXCEPT !.todo = frames \o Tail(req[w].todo)], {})
    BY <1>8, <1>10 DEF Continue
  <2> QED
    BY <1>2, <2>1, FramesNext
<1>13. Unwinds(w, frames, req[w].seen, req[w].free)
  <2>1. \A g \in Range(frames) : g.do # "release" /\ g.do # "reset"
    BY <1>8, <1>9, <1>11
  <2>2. ASSUME NEW a \in Allocation, Live(allocation'[a]), Takes({Head(req[w].todo)}, a)
        PROVE  Takes(Range(frames), a)
    <3>1. a \in A
      BY <1>4, <1>5, <1>6, <2>2
    <3> QED
      BY <1>8, <1>9, <1>11, <3>1 DEF Takes
  <2> QED
    BY <1>4, <2>1, <2>2 DEF Unwinds
<1>14. \A g \in Range(frames) : Leads(g)'
  BY <1>3, <1>6, <1>8, <1>9, <1>11 DEF Leads, Live, Exists
<1> QED
  BY <1>1, <1>2, <1>3, <1>11, <1>12, <1>13, <1>14, DeletionGoesOn

\* An allocation is deleted; what is at its other end is next.
LEMMA AllocationDeleted ==
  ASSUME RowsAgree, NEW w \in Request, DestroyAllocation(w)
  PROVE  Proceeds(w)
<1>1. /\ At(w, "Destroy") /\ req[w].todo # <<>>
      /\ Head(req[w].todo).do \in {"via invoice", "via payment"}
  BY DEF DestroyAllocation, Destroying
<1>2. /\ RowsTyped /\ KeysExist /\ req[w] \in Req /\ req[w].pc = "Destroy" /\ Linked(req[w])
      /\ req[w].seen \in SUBSET (Invoice \cup Payment) /\ req[w].free \in SUBSET Milestone
      /\ Head(req[w].todo) \in Frames /\ Head(req[w].todo) \in Pending(req[w])
  BY <1>1, OnFrame, Before
<1>3. PICK head \in Frames : head = Head(req[w].todo)
  BY <1>2
<1>4. PICK a \in DOMAIN head.on :
        /\ allocation' = [allocation EXCEPT ![a].state = "DELETED"]
        /\ Continue(w, OtherEnd(head.do, head.on[a])
                         \o Deleting(head.do, [b \in DOMAIN head.on \ {a} |-> head.on[b]]), {a})
  BY <1>3 DEF DestroyAllocation
<1>5. UNCHANGED <<milestone, invoice, payment>>
  BY DEF DestroyAllocation
<1>6. /\ DOMAIN head.on \in SUBSET Allocation /\ a \in Allocation
      /\ head.do = "via invoice" => head.on \in [DOMAIN head.on -> Payment]
      /\ head.do = "via payment" => head.on \in [DOMAIN head.on -> Invoice]
  BY <1>1, <1>3, FramesAre
<1>7. \A b \in DOMAIN head.on : Exists(allocation[b])
  BY <1>1, <1>2, <1>3 DEF Linked, Leads
<1>8. /\ allocation \in [Allocation -> {NoAllocation} \cup AllocationRow]
      /\ allocation[a] \in AllocationRow
  <2>1. Exists(allocation[a])
    BY <1>4, <1>7
  <2> QED
    BY <1>2, <1>6, <2>1, AllocationIs DEF RowsTyped
<1>9. PICK row : row = [allocation[a] EXCEPT !.state = "DELETED"]
  OBVIOUS
<1>10. /\ row \in AllocationRow /\ ~ Live(row)
       /\ row.payment = allocation[a].payment /\ row.invoice = allocation[a].invoice
  BY <1>8, <1>9 DEF AllocationRow, Live
<1>11. allocation' = [allocation EXCEPT ![a] = row]
  BY <1>4, <1>9
<1>12. Lands({a})
  <2>1. Exists(payment[row.payment]) /\ Exists(invoice[row.invoice])
    BY <1>2, <1>6, <1>7, <1>10 DEF KeysExist
  <2> QED
    BY <1>2, <1>5, <1>6, <1>7, <1>9, <1>10, <1>11, <2>1, AllocationWrite
<1>13. /\ allocation'[a] = row /\ \A b \in Allocation \ {a} : allocation'[b] = allocation[b]
  BY <1>6, <1>8, <1>11
<1>14. PICK s, x : s = OtherEnd(head.do, x) /\ x = head.on[a]
  OBVIOUS
<1>15. /\ s \in Seq(Frames)
       /\ \A g \in Range(s) : g.do \in {"invoice", "payment"} /\ Leads(g)
  <2>1. CASE head.do = "via invoice" /\ Live(payment[x])
    <3>1. PICK g \in Frames : g = Frame("payment", x)
      BY <1>6, <1>14, <2>1, FramesMade
    <3>2. g.do = "payment" /\ g.on = x
      BY <3>1, FrameIs
    <3>3. s = <<g>>
      BY <1>14, <2>1, <3>1 DEF OtherEnd
    <3>4. <<g>> \in Seq(Frames) /\ Range(<<g>>) = {g}
      BY FramesOf
    <3>5. Leads(g)
      BY <2>1, <3>2 DEF Leads, Live, Exists
    <3> QED
      BY <3>2, <3>3, <3>4, <3>5
  <2>2. CASE head.do = "via payment" /\ Live(invoice[x])
    <3>1. x \in Invoice /\ invoice[x].milestone \in Milestone \cup {None}
      BY <1>2, <1>6, <1>14, <2>2 DEF RowsTyped, InvoiceRow
    <3>2. PICK m \in Milestone \cup {None} : m = invoice[x].milestone
      BY <3>1
    <3>3. PICK g \in Frames : g = InvoiceFrame("invoice", x, m)
      BY <3>1, FramesMade
    <3>4. g.do = "invoice" /\ g.on = x
      BY <3>3, InvoiceFrameIs
    <3>5. s = <<g>>
      BY <1>14, <2>2, <3>2, <3>3 DEF OtherEnd
    <3>6. <<g>> \in Seq(Frames) /\ Range(<<g>>) = {g}
      BY FramesOf
    <3>7. Leads(g)
      BY <2>2, <3>4 DEF Leads, Live, Exists
    <3> QED
      BY <3>4, <3>5, <3>6, <3>7
  <2>3. CASE ~ (head.do = "via invoice" /\ Live(payment[x]))
             /\ ~ (head.do = "via payment" /\ Live(invoice[x]))
    <3>1. s = <<>>
      BY <1>14, <2>3 DEF OtherEnd
    <3>2. <<>> \in Seq(Frames) /\ Range(<<>>) = {}
      BY FramesOf
    <3> QED
      BY <3>1, <3>2
  <2> QED
    BY <2>1, <2>2, <2>3
<1>16. PICK A, ends : A = DOMAIN head.on \ {a} /\ ends = [b \in A |-> head.on[b]]
  OBVIOUS
<1>17. PICK f \in Frames : f = Frame(head.do, ends)
  <2>1. A \in SUBSET Allocation
    BY <1>6, <1>16
  <2>2. CASE head.do = "via invoice"
    <3>1. ends \in [A -> Payment]
      BY <1>6, <1>16, <2>2
    <3> QED
      BY <2>1, <2>2, <3>1, EndsMade
  <2>3. CASE head.do = "via payment"
    <3>1. ends \in [A -> Invoice]
      BY <1>6, <1>16, <2>3
    <3> QED
      BY <2>1, <2>3, <3>1, EndsMade
  <2> QED
    BY <1>1, <1>3, <2>2, <2>3
<1>18. f.do = head.do /\ DOMAIN f.on = A /\ DOMAIN ends = A
  BY <1>16, <1>17, FrameIs
<1>19. PICK t : t = Deleting(head.do, ends)
  OBVIOUS
<1>20. /\ t \in Seq(Frames)
       /\ Range(t) \subseteq {f} /\ (A # {} => f \in Range(t))
  <2>1. <<>> \in Seq(Frames) /\ <<f>> \in Seq(Frames)
    OBVIOUS
  <2>2. Range(<<>>) = {} /\ Range(<<f>>) = {f}
    BY FramesOf
  <2> QED
    BY <1>17, <1>18, <1>19, <2>1, <2>2 DEF Deleting
<1>21. PICK frames : frames = s \o t
  OBVIOUS
<1>22. frames \in Seq(Frames) /\ Range(frames) = Range(s) \cup Range(t)
  BY <1>15, <1>20, <1>21, FramesOf
<1>23. Step(w, [pc |-> "Destroy", todo |-> frames \o Tail(req[w].todo), seen |-> req[w].seen,
                free |-> req[w].free], {a})
  <2>1. Step(w, [req[w] EXCEPT !.todo = frames \o Tail(req[w].todo)], {a})
    BY <1>4, <1>14, <1>16, <1>19, <1>21 DEF Continue
  <2> QED
    BY <1>2, <2>1, FramesNext
<1>24. Unwinds(w, frames, req[w].seen, req[w].free)
  <2>1. /\ \A m : Active(m)' \subseteq Active(m)
        /\ \A j \in Invoice : Live(invoice'[j]) => Live(invoice[j])
    BY <1>5, ActiveStays
  <2>2. \A b \in Allocation : Live(allocation'[b]) =>
          Live(allocation[b]) /\ allocation'[b] = allocation[b] /\ b # a
    BY <1>10, <1>13
  <2>3. \A g \in Range(frames) : g.do # "release" /\ g.do # "reset"
    BY <1>1, <1>3, <1>15, <1>18, <1>20, <1>22
  <2>4. ASSUME NEW b \in Allocation, Live(allocation'[b]), Takes({head}, b)
        PROVE  Takes(Range(frames), b)
    <3>1. b \in DOMAIN head.on
      <4>1. PICK g, h : /\ g = Frame("of invoice", allocation[b].invoice)
                        /\ h = Frame("of payment", allocation[b].payment)
        OBVIOUS
      <4>2. g.do = "of invoice" /\ h.do = "of payment"
        BY <4>1, FrameIs
      <4>3. head # g /\ head # h
        BY <1>1, <1>3, <4>2
      <4> QED
        BY <2>4, <4>1, <4>3 DEF Takes
    <3>2. b \in A
      BY <1>16, <2>2, <2>4, <3>1
    <3>3. f \in Range(frames)
      BY <1>20, <1>22, <3>2
    <3> QED
      BY <1>1, <1>3, <1>18, <3>2, <3>3 DEF Takes
  <2> QED
    BY <1>3, <2>1, <2>2, <2>3, <2>4 DEF Unwinds
<1>25. ASSUME NEW g \in Range(frames)
       PROVE  Leads(g)'
  <2>1. CASE g \in Range(s)
    BY <1>5, <1>15, <2>1 DEF Leads, Exists
  <2>2. CASE g = f
    <3>1. ASSUME NEW b \in DOMAIN g.on
          PROVE  Exists(allocation'[b])
      <4>1. b \in DOMAIN head.on /\ b # a /\ b \in Allocation
        BY <1>6, <1>16, <1>18, <2>2, <3>1
      <4> QED
        BY <1>7, <1>13, <4>1
    <3> QED
      BY <1>1, <1>3, <1>18, <2>2, <3>1 DEF Leads, Exists
  <2> QED
    BY <1>20, <1>22, <2>1, <2>2
<1> QED
  BY <1>1, <1>2, <1>12, <1>22, <1>23, <1>24, <1>25, DeletionGoesOn

\* A deletion that is done, and a request that dies, forget all.
LEMMA Stops ==
  ASSUME RowsAgree, NEW w \in Request, DestroyEnd(w) \/ Die(w)
  PROVE  Proceeds(w)
<1>1. RowsTyped /\ KeysExist /\ UNCHANGED rows
  BY Before DEF DestroyEnd, Die
<1>2. Step(w, Idle, {})
  BY DEF DestroyEnd, Die, Step
<1> QED
  BY <1>1, <1>2, IdleKnows, Reads

(***************************************************************************)
(* The rows agree                                                          *)
(***************************************************************************)
\* Every step of a request leaves rows and requests as they should be.
LEMMA StepGoesOn ==
  ASSUME RowsAgree, NEW w \in Request,
         \/ Milestones(w) \/ Invoices(w) \/ Payments(w) \/ Allocations(w) \/ Cascade(w) \/ Die(w)
  PROVE  Proceeds(w)
<1>1. CASE Milestones(w)
  BY <1>1, MilestoneReads, MilestoneWrites, InvoiceGenerated DEF Milestones
<1>2. CASE Invoices(w)
  <2>1. ASSUME NEW i \in Invoice, InvoiceDestroy(w, i)
        PROVE  Proceeds(w)
    <3>1. PICK m \in Milestone \cup {None} : m = invoice[i].milestone
      BY Before DEF RowsTyped, InvoiceRow
    <3>2. PICK f \in Frames : f = InvoiceFrame("invoice", i, m)
      BY FramesMade
    <3>3. f.do = "invoice" /\ f.on = i
      BY <3>2, InvoiceFrameIs
    <3>4. DestroyStart(w, f)
      BY <2>1, <3>1, <3>2 DEF InvoiceDestroy
    <3>5. Leads(f)
      BY <2>1, <3>3 DEF InvoiceDestroy, Leads, Live, Exists
    <3> QED
      BY <3>3, <3>4, <3>5, DeletionStarts
  <2> QED
    BY <1>2, <2>1, InvoiceReads, InvoiceWrites DEF Invoices
<1>3. CASE Payments(w)
  <2>1. ASSUME NEW p \in Payment, PaymentDestroy(w, p)
        PROVE  Proceeds(w)
    <3>1. PICK f \in Frames : f = Frame("payment", p) /\ f.do = "payment"
      BY FrameIs, FramesMade
    <3>2. DestroyStart(w, f)
      BY <2>1, <3>1 DEF PaymentDestroy
    <3>3. f.on = p
      BY <3>1, FrameIs
    <3>4. Leads(f)
      BY <2>1, <3>1, <3>3 DEF PaymentDestroy, Leads, Live, Exists
    <3> QED
      BY <3>1, <3>2, <3>4, DeletionStarts
  <2> QED
    BY <1>3, <2>1, PaymentReads, PaymentEntered, PaymentPatched DEF Payments
<1>4. CASE Allocations(w)
  BY <1>4, AllocationReads, AllocationInserted, AllocationWrites, Settled, MilestoneWrites
     DEF Allocations
<1>5. CASE Cascade(w)
  BY <1>5, InvoiceDeleted, MilestoneReleased, MilestoneReset, PaymentDeleted, AllocationsListed,
     AllocationDeleted, Stops DEF Cascade
<1>6. CASE Die(w)
  BY <1>6, Stops
<1> QED
  BY <1>1, <1>2, <1>3, <1>4, <1>5, <1>6

\* Empty tables agree.
LEMMA InitAgrees == Init => RowsAgree
<1> SUFFICES ASSUME Init PROVE RowsAgree
  OBVIOUS
<1>1. /\ NoMilestone \in MilestoneRow /\ NoInvoice \in InvoiceRow /\ NoPayment \in PaymentRow
      /\ ~ Exists(NoAllocation)
  BY DEF NoMilestone, MilestoneRow, NoInvoice, InvoiceRow, NoPayment, PaymentRow, NoAllocation,
     Exists, State
<1>2. TypeOK
  BY <1>1, IdleKnows DEF Init, TypeOK, RowsTyped
<1>3. KeysHold
  BY <1>1, IdleKnows DEF Init, KeysHold
<1>4. ReadsAreCurrent
  BY IdleKnows DEF Init, ReadsAreCurrent
<1>5. CascadeIsComplete
  BY <1>2, <1>4, WaysEnd
<1> QED
  BY <1>2, <1>3, <1>4, <1>5 DEF RowsAgree

\* Nothing changes: the rows agree as they did.
LEMMA StutterAgrees == RowsAgree /\ UNCHANGED vars => RowsAgree'
<1> SUFFICES ASSUME RowsAgree, UNCHANGED vars PROVE RowsAgree'
  OBVIOUS
<1>1. UNCHANGED <<milestone, invoice, payment, allocation, req, late>> /\ UNCHANGED rows
  BY DEF vars, rows
<1>2. RowsTyped /\ KeysExist /\ TypeOK
  BY DEF RowsAgree, TypeOK, KeysHold, KeysExist
<1>3. Lands({})
  BY <1>1, <1>2, NoWrite
<1>4. RowsTyped' /\ KeysExist' /\ KeysStay /\ Footprint({})
  BY <1>3 DEF Lands, Footprint
<1>5. ASSUME NEW w \in Request
      PROVE  Linked(req[w])' /\ (w \notin late => Current(req[w])')
  <2>1. PICK r \in Req : r = req[w] /\ req'[w] = r
    BY <1>1, <1>2 DEF TypeOK
  <2>2. Linked(r) /\ (w \notin late => Current(r))
    BY <2>1, Before
  <2>3. Linked(r)'
    BY <1>4, <2>2, LinkedStays
  <2>4. w \notin late => Current(r)'
    BY <1>2, <1>4, <2>2, CurrentStays
  <2> QED
    BY <2>1, <2>3, <2>4
<1>6. TypeOK'
  BY <1>1, <1>2, <1>4 DEF TypeOK
<1>7. KeysHold'
  BY <1>4, <1>5 DEF KeysHold, KeysExist
<1>8. ReadsAreCurrent'
  BY <1>1, <1>5 DEF ReadsAreCurrent
<1>9. CascadeIsComplete'
  <2>1. (TypeOK /\ ReadsAreCurrent => CascadeIsComplete)'
    BY WaysEnd, PTL
  <2> QED
    BY <1>6, <1>8, <2>1
<1> QED
  BY <1>6, <1>7, <1>8, <1>9 DEF RowsAgree

\* RowsAgree is inductive.
LEMMA RowsStep == RowsAgree /\ [Next]_vars => RowsAgree'
<1>1. ASSUME RowsAgree, NEW w \in Request,
             \/ Milestones(w) \/ Invoices(w) \/ Payments(w) \/ Allocations(w) \/ Cascade(w)
             \/ Die(w)
      PROVE  RowsAgree'
  BY <1>1, StepGoesOn, GoesOn
<1> QED
  BY <1>1, StutterAgrees DEF Next

\* The rows agree, whatever requests do at once: wherever PATCHes move them,
\* allocations lead to a payment and an invoice that exist, requests nobody
\* overtook hold what is so, and what is left of a deletion covers all it has
\* orphaned.
THEOREM TheRowsAgree == Spec => []RowsAgree
<1>1. Init => RowsAgree
  BY InitAgrees
<1>2. RowsAgree /\ [Next]_vars => RowsAgree'
  BY RowsStep
<1> QED
  BY <1>1, <1>2, PTL DEF Spec

\* Rows and requests have the types their columns and fields allow.
THEOREM TypeCorrect == Spec => []TypeOK
<1>1. RowsAgree => TypeOK
  BY DEF RowsAgree
<1> QED
  BY <1>1, TheRowsAgree, PTL

\* The deletion of an invoice or a payment leaves no live allocation of a row
\* it deleted, unless another request made one meanwhile.
THEOREM CascadesComplete == Spec => []CascadeIsComplete
<1>1. RowsAgree => CascadeIsComplete
  BY DEF RowsAgree
<1> QED
  BY <1>1, TheRowsAgree, PTL

(***************************************************************************)
(* The status of a milestone                                               *)
(***************************************************************************)
\* How the status of milestone m may change in a step.
Moves(m) ==
  \/ ActsLate
  \/ milestone'[m].status = milestone[m].status
  \/ milestone'[m].status = "INVOICED" /\ milestone[m].status # "PAID"
  \/ milestone'[m].status = "PENDING" /\ Active(m) = {}
  \/ /\ milestone'[m].status = "PAID"
     /\ \E i \in Invoice : invoice[i].milestone = m /\ PaidUp(i, invoice[i])'

\* An overtaken request that goes on acts late.
LEMMA LateActs ==
  ASSUME RowsAgree, NEW w \in late, NEW r, NEW X, Step(w, r, X), r # req[w]
  PROVE  ActsLate
<1>1. req \in [Request -> Req] /\ w \in Request
  BY DEF RowsAgree, TypeOK
<1>2. req'[w] = r
  BY <1>1 DEF Step, Becomes
<1> QED
  BY <1>2 DEF ActsLate

\* A milestone is planned, changed or deleted with the status it has.
LEMMA StatusWritten ==
  ASSUME RowsAgree, NEW w \in Request, NEW m \in Milestone,
         \/ \E n \in Milestone : MilestoneInsert(w, n) \/ MilestoneDelete(w, n)
         \/ MilestonePatchSave(w)
  PROVE  Moves(m)
<1>1. milestone \in [Milestone -> MilestoneRow] /\ req[w] \in Req
  BY Before DEF RowsTyped
<1>2. ASSUME NEW n \in Milestone, MilestoneInsert(w, n)
      PROVE  milestone'[m].status = milestone[m].status
  BY <1>1, <1>2 DEF MilestoneInsert, NoMilestone
<1>3. ASSUME NEW n \in Milestone, MilestoneDelete(w, n)
      PROVE  milestone'[m].status = milestone[m].status
  BY <1>1, <1>3 DEF MilestoneDelete, MilestoneRow
<1>4. CASE MilestonePatchSave(w)
  <2>1. req[w].pc = "PatchMilestone" /\ req[w].milestone \in Milestone
    BY <1>1, <1>4, Shape DEF MilestonePatchSave, At
  <2>2. CASE w \in late
    <3>1. Idle # req[w]
      BY <2>1 DEF Idle
    <3>2. ActsLate
      BY <1>4, <2>2, <3>1, LateActs DEF MilestonePatchSave
    <3> QED
      BY <3>2 DEF Moves
  <2>3. CASE w \notin late
    <3>1. req[w].row.status = milestone[req[w].milestone].status
      BY <2>1, <2>3, Before DEF Current
    <3>2. milestone' = [milestone EXCEPT ![req[w].milestone] = req[w].row]
      BY <1>4 DEF MilestonePatchSave
    <3>3. milestone'[m].status = milestone[m].status
      BY <1>1, <2>1, <3>1, <3>2
    <3> QED
      BY <3>3 DEF Moves
  <2> QED
    BY <2>2, <2>3
<1> QED
  BY <1>2, <1>3, <1>4 DEF Moves

\* It becomes INVOICED unless it is PAID.
LEMMA StatusMarked ==
  ASSUME RowsAgree, NEW w \in Request, NEW m \in Milestone, GenerateMark(w)
  PROVE  Moves(m)
<1>1. milestone \in [Milestone -> MilestoneRow] /\ req[w] \in Req
  BY Before DEF RowsTyped
<1>2. req[w].pc = "Billed" /\ req[w].milestone \in Milestone /\ Idle # req[w]
  BY <1>1, Shape DEF GenerateMark, At, Idle
<1>3. CASE w \in late
  <2>1. ActsLate
    BY <1>2, <1>3, LateActs DEF GenerateMark
  <2> QED
    BY <2>1 DEF Moves
<1>4. CASE w \notin late
  <2>1. milestone[req[w].milestone].status # "PAID"
    BY <1>2, <1>4, Before DEF Current
  <2>2. milestone' = [milestone EXCEPT ![req[w].milestone].status = "INVOICED"]
    BY DEF GenerateMark
  <2> QED
    BY <1>1, <1>2, <2>1, <2>2 DEF Moves, MilestoneRow
<1> QED
  BY <1>3, <1>4

\* It becomes PAID with an invoice of it that has been received in full, ...
LEMMA StatusPaid ==
  ASSUME RowsAgree, NEW w \in Request, NEW m \in Milestone, MarkPaid(w)
  PROVE  Moves(m)
<1>1. milestone \in [Milestone -> MilestoneRow] /\ req[w] \in Req
  BY Before DEF RowsTyped
<1>2. /\ req[w].pc = "MarkPaid" /\ req[w].milestone \in Milestone /\ Idle # req[w]
      /\ UNCHANGED <<invoice, payment, allocation>>
      /\ milestone' = [milestone EXCEPT ![req[w].milestone].status = "PAID"]
  BY <1>1, Shape DEF MarkPaid, At, Idle
<1>3. CASE w \in late
  <2>1. ActsLate
    BY <1>2, <1>3, LateActs DEF MarkPaid
  <2> QED
    BY <2>1 DEF Moves
<1>4. CASE w \notin late /\ m = req[w].milestone
  <2>1. PICK i \in Invoice : invoice[i].milestone = m /\ PaidUp(i, invoice[i])
    BY <1>2, <1>4, Before DEF Current
  <2>2. PICK row : row = invoice[i]
    OBVIOUS
  <2>3. Incoming(i, {})' = Incoming(i, {})
    BY <1>2, IncomingStays
  <2>4. PaidUp(i, row)'
    BY <2>1, <2>2, <2>3, PaidUpStays
  <2>5. PaidUp(i, invoice[i])'
    BY <1>2, <2>2, <2>4 DEF PaidUp, Total
  <2>6. milestone'[m].status = "PAID"
    BY <1>1, <1>2, <1>4 DEF MilestoneRow
  <2> QED
    BY <2>1, <2>5, <2>6 DEF Moves
<1>5. CASE m # req[w].milestone
  BY <1>1, <1>2, <1>5 DEF Moves
<1> QED
  BY <1>3, <1>4, <1>5

\* What an invoice receives with the entries of a new payment is what its
\* request has added up.
LEMMA EnteredComesIn ==
  ASSUME RowsAgree, NEW w \in Request, NEW p \in Payment, PayInsert(w, p), NEW i \in Invoice,
         NEW new \in Entries, new = req[w].new
  PROVE  IncomingWith(i, new) = Incoming(i, {})'
<1>1. RowsTyped /\ KeysExist
  BY Before
<1>2. DOMAIN new \subseteq Allocation /\ \A a \in DOMAIN new : new[a] \in Entry
  BY EntriesAre
<1>3. PICK old : old = Incoming(i, {})
  OBVIOUS
<1>4. DOMAIN old = {b \in Allocation : /\ Exists(allocation[b]) /\ allocation[b].invoice = i
                                       /\ Live(payment[allocation[b].payment])}
  BY <1>3 DEF Incoming, AllocationsTo
<1>5. \A a \in DOMAIN old : old[a] = allocation[a].amount
  BY <1>3 DEF Incoming
<1>6. payment[p] = NoPayment /\ payment'[p].state = "LIVE" /\ \A q \in Payment \ {p} : payment'[q] = payment[q]
  <2>1. payment' = [payment EXCEPT ![p] = [state |-> "LIVE", amount |-> req[w].amount]]
    BY DEF PayInsert
  <2>2. payment \in [Payment -> PaymentRow]
    BY <1>1 DEF RowsTyped
  <2> QED
    BY <2>1, <2>2 DEF PayInsert
<1>7. ASSUME NEW a \in DOMAIN new
      PROVE  /\ ~ Exists(allocation[a]) /\ Exists(allocation'[a])
             /\ allocation'[a].payment = p /\ allocation'[a].invoice = new[a].invoice
             /\ allocation'[a].amount = new[a].amount
  <2>1. allocation[a] = NoAllocation
    BY DEF PayInsert
  <2>2. allocation'[a] = [state |-> "LIVE", payment |-> p, invoice |-> new[a].invoice,
                          amount |-> new[a].amount]
    BY <1>2 DEF PayInsert
  <2> QED
    BY <2>1, <2>2 DEF Exists, NoAllocation
<1>8. \A a \in Allocation \ DOMAIN new : allocation'[a] = allocation[a]
  BY DEF PayInsert
<1>9. \A a \in Allocation : Exists(allocation[a]) => allocation[a].payment \in Payment \ {p}
  <2>1. \A a \in Allocation : Exists(allocation[a]) =>
          allocation[a].payment \in Payment /\ Exists(payment[allocation[a].payment])
    BY <1>1, AllocationIs DEF AllocationRow, KeysExist
  <2> QED
    BY <1>6, <2>1 DEF Exists, NoPayment
<1>10. PICK A : A = {b \in DOMAIN new : new[b].invoice = i} \cup DOMAIN old
  OBVIOUS
<1>11. PICK B : B = {b \in AllocationsTo(i) \ {} : Live(payment[allocation[b].payment])}'
  OBVIOUS
<1>12. ASSUME NEW a \in Allocation
       PROVE  a \in A <=> a \in B
  <2>1. a \in B <=> /\ Exists(allocation'[a]) /\ allocation'[a].invoice = i
                    /\ Live(payment'[allocation'[a].payment])
    BY <1>11 DEF AllocationsTo, Exists, Live
  <2>2. CASE a \in DOMAIN new
    <3>1. Live(payment'[p]) /\ a \notin DOMAIN old
      BY <1>4, <1>6, <1>7, <2>2 DEF Live
    <3> QED
      BY <1>7, <1>10, <2>1, <2>2, <3>1
  <2>3. CASE a \notin DOMAIN new
    <3>1. allocation'[a] = allocation[a]
      BY <1>8, <2>3
    <3>2. Exists(allocation[a]) => payment'[allocation[a].payment] = payment[allocation[a].payment]
      BY <1>6, <1>9
    <3> QED
      BY <1>4, <1>10, <2>1, <2>3, <3>1, <3>2
  <2> QED
    BY <2>2, <2>3
<1>13. A \subseteq Allocation /\ B \subseteq Allocation
  BY <1>2, <1>4, <1>10, <1>11 DEF AllocationsTo
<1>14. A = B
  BY <1>12, <1>13
<1>15. \A a \in A : (IF a \in DOMAIN new THEN new[a].amount ELSE old[a]) = allocation'[a].amount
  BY <1>4, <1>5, <1>7, <1>8, <1>10
<1>16. Incoming(i, {})' = [a \in B |-> allocation'[a].amount]
  BY <1>11 DEF Incoming
<1>17. IncomingWith(i, new) = [a \in A |-> IF a \in DOMAIN new THEN new[a].amount ELSE old[a]]
  BY <1>3, <1>10 DEF IncomingWith
<1> QED
  BY <1>14, <1>15, <1>16, <1>17

\* ... or with the payment that makes it so, ...
LEMMA StatusSettled ==
  ASSUME RowsAgree, NEW w \in Request, NEW m \in Milestone, NEW p \in Payment, PayInsert(w, p)
  PROVE  Moves(m)
<1>1. /\ RowsTyped /\ KeysExist /\ milestone \in [Milestone -> MilestoneRow] /\ req[w] \in Req
      /\ Idle # req[w] /\ At(w, "Entered")
  BY Before DEF RowsTyped, PayInsert, At, Idle
<1>2. PICK new \in Entries : new = req[w].new
  BY <1>1, Shape DEF At
<1>3. PICK paid : paid = req[w].paid
  OBVIOUS
<1>4. milestone' = [n \in Milestone |->
        IF n \in paid THEN [milestone[n] EXCEPT !.status = "PAID"] ELSE milestone[n]]
  BY <1>3 DEF PayInsert
<1>5. CASE m \notin paid
  BY <1>4, <1>5 DEF Moves
<1>6. CASE w \in late
  <2>1. ActsLate
    BY <1>1, <1>6, LateActs DEF PayInsert
  <2> QED
    BY <2>1 DEF Moves
<1>7. CASE w \notin late /\ m \in paid
  <2>1. m \in SettledBy(new)
    BY <1>1, <1>2, <1>3, <1>7, Before DEF Current, At
  <2>2. PICK a \in DOMAIN new : invoice[new[a].invoice].milestone = m /\ PaidUpWith(new[a].invoice, new)
    BY <2>1 DEF SettledBy
  <2>3. PICK i \in Invoice : i = new[a].invoice
    BY EntriesAre DEF Entry
  <2>4. IncomingWith(i, new) = Incoming(i, {})'
    BY <1>2, EnteredComesIn
  <2>5. ~ invoice[i].cancelled /\ SumFunction(IncomingWith(i, new)) >= Total(invoice[i])
    BY <2>2, <2>3 DEF PaidUpWith
  <2>6. invoice' = invoice
    BY DEF PayInsert
  <2>7. PaidUp(i, invoice[i])'
    BY <2>4, <2>5, <2>6 DEF PaidUp, Received, Total
  <2>8. milestone'[m].status = "PAID"
    BY <1>1, <1>4, <1>7 DEF MilestoneRow
  <2> QED
    BY <2>2, <2>3, <2>7, <2>8 DEF Moves
<1> QED
  BY <1>5, <1>6, <1>7

\* ... and PENDING when no active invoice is left.
LEMMA StatusReset ==
  ASSUME RowsAgree, NEW w \in Request, NEW m \in Milestone, DestroyReset(w)
  PROVE  Moves(m)
<1>1. At(w, "Destroy") /\ req[w].todo # <<>> /\ Head(req[w].todo).do = "reset"
  BY DEF DestroyReset, Destroying
<1>2. /\ milestone \in [Milestone -> MilestoneRow] /\ req[w] \in Req /\ req[w].pc = "Destroy"
      /\ Head(req[w].todo) \in Frames /\ Head(req[w].todo) \in Pending(req[w])
      /\ w \notin late => OnItsWay(req[w])
  BY <1>1, OnFrame, Before DEF RowsTyped
<1>3. PICK n \in Milestone : n = Head(req[w].todo).on
  BY <1>1, <1>2, FramesAre
<1>4. milestone' = [milestone EXCEPT ![n].status = "PENDING"]
  BY <1>3 DEF DestroyReset
<1>5. CASE w \in late
  <2>1. req[w].todo \in Seq(Frames)
    BY <1>2, Shape
  <2>2. PICK todo : todo = req[w].todo
    OBVIOUS
  <2>3. <<>> \o Tail(todo) # todo
    <3>1. PICK t : t = Tail(todo)
      OBVIOUS
    <3>2. t \in Seq(Frames) /\ Len(t) = Len(todo) - 1 /\ Len(todo) \in Nat
      BY <1>1, <2>1, <2>2, <3>1
    <3>3. PICK u : u = <<>> \o t
      OBVIOUS
    <3>4. Len(u) = Len(t)
      BY <3>2, <3>3
    <3>5. u # todo
      BY <3>2, <3>4
    <3> QED
      BY <3>1, <3>3, <3>5
  <2>4. PICK r : r = [req[w] EXCEPT !.todo = <<>> \o Tail(req[w].todo)]
    OBVIOUS
  <2>5. r = [pc |-> "Destroy", todo |-> <<>> \o Tail(todo), seen |-> req[w].seen,
             free |-> req[w].free]
    BY <1>2, <2>2, <2>4, FramesNext
  <2>6. r # req[w]
    <3>1. r.todo = <<>> \o Tail(todo)
      BY <2>5
    <3> QED
      BY <2>2, <2>3, <3>1
  <2>7. Step(w, r, {n})
    BY <1>3, <2>4 DEF DestroyReset, Continue
  <2>8. ActsLate
    BY <1>5, <2>6, <2>7, LateActs
  <2> QED
    BY <2>8 DEF Moves
<1>6. CASE w \notin late
  <2>1. Active(n) = {}
    BY <1>1, <1>2, <1>3, <1>6 DEF OnItsWay
  <2> QED
    BY <1>2, <1>4, <2>1 DEF Moves, MilestoneRow
<1> QED
  BY <1>5, <1>6

\* No other step writes milestones, and so every step moves their status so.
LEMMA StatusMoves ==
  ASSUME RowsAgree, [Next]_vars, NEW m \in Milestone
  PROVE  Moves(m)
<1>1. ASSUME UNCHANGED milestone
      PROVE  Moves(m)
  BY <1>1 DEF Moves
<1>2. UNCHANGED rows => UNCHANGED milestone
  BY DEF rows
<1>3. ASSUME NEW w \in Request, Milestones(w)
      PROVE  Moves(m)
  <2>1. CASE (\E amount \in Amount : MilestoneCheck(w, amount))
             \/ (\E n \in Milestone : GenerateLoad(w, n))
             \/ (\E n \in Milestone, amount \in Amount : MilestonePatchLoad(w, n, amount))
             \/ (\E i \in Invoice : GenerateInvoice(w, i))
    BY <1>1, <1>2, <2>1 DEF MilestoneCheck, GenerateLoad, MilestonePatchLoad, GenerateInvoice
  <2> QED
    BY <1>3, <2>1, StatusWritten, StatusMarked DEF Milestones
<1>4. ASSUME NEW w \in Request, Invoices(w)
      PROVE  Moves(m)
  BY <1>1, <1>2, <1>4 DEF Invoices, InvoiceCheck, InvoiceInsert, CancelLoad, InvoiceDestroy,
     DestroyStart, InvoicePatchLoad, InvoicePatchSave, CancelSave
<1>5. ASSUME NEW w \in Request, Payments(w)
      PROVE  Moves(m)
  <2>1. CASE \E p \in Payment : PayInsert(w, p)
    BY <2>1, StatusSettled
  <2>2. CASE ~ \E p \in Payment : PayInsert(w, p)
    BY <1>1, <1>2, <1>5, <2>2 DEF Payments, PayCheck, PayRead, PaymentDestroy, DestroyStart,
       PaymentPatchLoad, PaymentPatchSave
  <2> QED
    BY <2>1, <2>2
<1>6. ASSUME NEW w \in Request, Allocations(w)
      PROVE  Moves(m)
  <2>1. CASE ~ MarkPaid(w)
    BY <1>1, <1>2, <1>6, <2>1 DEF Allocations, AllocateLoad, AllocateInsert, AllocationDelete,
       Settle, AllocationPatchLoad, AllocationPatchSave
  <2> QED
    BY <2>1, StatusPaid
<1>7. ASSUME NEW w \in Request, Cascade(w)
      PROVE  Moves(m)
  <2>1. CASE ~ DestroyReset(w)
    BY <1>1, <1>2, <1>7, <2>1 DEF Cascade, DestroyInvoice, DestroyRelease, DestroyPayment,
       DestroyList, DestroyAllocation, DestroyEnd
  <2> QED
    BY <2>1, StatusReset
<1>8. ASSUME NEW w \in Request, Die(w)
      PROVE  Moves(m)
  BY <1>1, <1>2, <1>8 DEF Die
<1>9. CASE UNCHANGED vars
  BY <1>1, <1>9 DEF vars, rows
<1> QED
  BY <1>3, <1>4, <1>5, <1>6, <1>7, <1>8, <1>9 DEF Next

\* A milestone becomes PAID only when an invoice of it has been received in
\* full, unless the request that marks it was overtaken.
THEOREM PaidInFull == Spec => PaidWhenReceived
<1>1. RowsAgree /\ [Next]_vars =>
        [\A m \in Milestone :
           milestone[m].status # "PAID" /\ milestone'[m].status = "PAID" =>
             \/ ActsLate
             \/ \E i \in Invoice : invoice[i].milestone = m /\ PaidUp(i, invoice[i])']_vars
  BY StatusMoves DEF Moves
<1> QED
  BY <1>1, TheRowsAgree, PTL DEF Spec, PaidWhenReceived

\* A paid milestone is billed again only after a deletion has set it back, and
\* a deletion sets it back only when no active invoice of it is left, unless
\* the request was overtaken.
THEOREM ReleasesAreDue == Spec => MilestoneReleases
<1>1. RowsAgree /\ [Next]_vars =>
        [\A m \in Milestone :
           milestone[m].status = "PAID" /\ milestone'[m].status # "PAID" =>
             ActsLate \/ milestone'[m].status = "PENDING"]_vars
  BY StatusMoves DEF Moves
<1>2. RowsAgree /\ [Next]_vars =>
        [\A m \in Milestone :
           milestone[m].status # "PENDING" /\ milestone'[m].status = "PENDING" =>
             ActsLate \/ Active(m) = {}]_vars
  BY StatusMoves DEF Moves
<1> QED
  BY <1>1, <1>2, TheRowsAgree, PTL DEF Spec, MilestoneReleases, PaidIsFinal,
     ReleasedWhenUnbilled

(***************************************************************************)
(* Sums of money                                                           *)
(***************************************************************************)
\* What each row counts in a sum: nothing, if it is not of the sum.
Bills == [i \in Invoice |->
  IF Live(invoice[i]) /\ ~ invoice[i].cancelled THEN invoice[i].amount ELSE 0]
Plans == [m \in Milestone |-> IF Live(milestone[m]) THEN milestone[m].amount ELSE 0]
Brings(a, i) ==
  Exists(allocation[a]) /\ allocation[a].invoice = i /\ Live(payment[allocation[a].payment])
Receipts(i) == [a \in Allocation |-> IF Brings(a, i) THEN allocation[a].amount ELSE 0]
Uses(a, p) == Exists(allocation[a]) /\ allocation[a].payment = p
Shares(p) == [a \in Allocation |-> IF Uses(a, p) THEN allocation[a].amount ELSE 0]

\* They are natural numbers.
LEMMA MoneyIsNat ==
  ASSUME RowsTyped
  PROVE  /\ Bills \in [Invoice -> Nat] /\ Plans \in [Milestone -> Nat]
         /\ \A i : Receipts(i) \in [Allocation -> Nat]
         /\ \A p : Shares(p) \in [Allocation -> Nat]
<1>1. Amount \subseteq Nat
  BY BillingAssumption DEF BillingAssumption
<1>2. Bills \in [Invoice -> Nat]
  <2>1. \A i \in Invoice : invoice[i] \in InvoiceRow
    BY DEF RowsTyped
  <2>2. \A i \in Invoice : invoice[i].amount \in Amount \cup {0}
    BY <2>1 DEF InvoiceRow
  <2>3. Amount \cup {0} \subseteq Nat
    BY <1>1
  <2> QED
    BY <2>2, <2>3 DEF Bills
<1>3. Plans \in [Milestone -> Nat]
  <2>1. \A m \in Milestone : milestone[m] \in MilestoneRow
    BY DEF RowsTyped
  <2>2. \A m \in Milestone : milestone[m].amount \in Amount \cup {0}
    BY <2>1 DEF MilestoneRow
  <2>3. Amount \cup {0} \subseteq Nat
    BY <1>1
  <2> QED
    BY <2>2, <2>3 DEF Plans
<1>4. \A a \in Allocation : Exists(allocation[a]) => allocation[a].amount \in Nat
  <2>1. \A a \in Allocation : Exists(allocation[a]) => allocation[a] \in AllocationRow
    BY DEF RowsTyped, NoAllocation, Exists
  <2> QED
    BY <1>1, <2>1 DEF AllocationRow
<1>5. \A i : Receipts(i) \in [Allocation -> Nat]
  BY <1>4 DEF Receipts, Brings
<1>6. \A p : Shares(p) \in [Allocation -> Nat]
  BY <1>4 DEF Shares, Uses
<1> QED
  BY <1>2, <1>3, <1>5, <1>6

\* What SumFunction adds up.
LEMMA SumFunctionIs ==
  ASSUME NEW f, IsFiniteSet(DOMAIN f)
  PROVE  SumFunction(f) = SumOf(f, DOMAIN f)
<1> DEFINE L == DOMAIN f
           F(g) == [s \in SUBSET L |->
                      IF s = {} THEN 0
                      ELSE LET x == CHOOSE x \in s : TRUE IN f[x] + g[s \ {x}]]
<1>1. \A g : F(g) = [s \in SUBSET L |->
                       IF s = {} THEN 0 ELSE f[Choice(s)] + g[s \ {Choice(s)}]]
  BY DEF Choice
<1>2. SumFunction(f) = (CHOOSE g : g = F(g))[L]
  BY DEF SumFunction, SumFunctionOnSet, FoldFunctionOnSet, MapThenFoldSet
<1> HIDE DEF F, L
<1>3. PICK it : IsSums(it, f, L) /\ SumOf(f, L) = it[L]
  BY SumOfIsSum DEF L
<1>4. it = F(it)
  BY <1>1, <1>3 DEF IsSums
<1>5. PICK jt : jt = CHOOSE g : g = F(g)
  OBVIOUS
<1>6. IsSums(jt, f, L)
  BY <1>1, <1>4, <1>5 DEF IsSums
<1>7. jt[L] = it[L]
  BY <1>3, <1>6, SumsAgree DEF L
<1> QED
  BY <1>2, <1>3, <1>5, <1>7 DEF L

\* Billed adds up the amounts of invoices.
LEMMA BilledAdds ==
  ASSUME NEW L \in SUBSET Invoice, IsFiniteSet(L)
  PROVE  MapThenSumSet(LAMBDA i : invoice[i].amount, L)
           = SumOf([i \in Invoice |-> invoice[i].amount], L)
<1> DEFINE h == [i \in Invoice |-> invoice[i].amount]
           F(g) == [s \in SUBSET L |->
                      IF s = {} THEN 0
                      ELSE LET x == CHOOSE x \in s : TRUE IN invoice[x].amount + g[s \ {x}]]
<1>1. \A s \in SUBSET L : s # {} => Choice(s) \in Invoice
  BY DEF Choice
<1>2. \A g : F(g) = [s \in SUBSET L |->
                       IF s = {} THEN 0 ELSE h[Choice(s)] + g[s \ {Choice(s)}]]
  BY <1>1 DEF Choice
<1>3. MapThenSumSet(LAMBDA i : invoice[i].amount, L) = (CHOOSE g : g = F(g))[L]
  BY DEF MapThenSumSet, MapThenFoldSet
<1> HIDE DEF F, h
<1>4. PICK it : IsSums(it, h, L) /\ SumOf(h, L) = it[L]
  BY SumOfIsSum
<1>5. it = F(it)
  BY <1>2, <1>4 DEF IsSums
<1>6. PICK jt : jt = CHOOSE g : g = F(g)
  OBVIOUS
<1>7. IsSums(jt, h, L)
  BY <1>2, <1>5, <1>6 DEF IsSums
<1>8. jt[L] = it[L]
  BY <1>4, <1>7, SumsAgree
<1> QED
  BY <1>3, <1>4, <1>6, <1>8 DEF h

\* Planned adds up the amounts of milestones.
LEMMA PlannedAdds ==
  ASSUME NEW L \in SUBSET Milestone, IsFiniteSet(L)
  PROVE  MapThenSumSet(LAMBDA m : milestone[m].amount, L)
           = SumOf([m \in Milestone |-> milestone[m].amount], L)
<1> DEFINE h == [m \in Milestone |-> milestone[m].amount]
           F(g) == [s \in SUBSET L |->
                      IF s = {} THEN 0
                      ELSE LET x == CHOOSE x \in s : TRUE IN milestone[x].amount + g[s \ {x}]]
<1>1. \A s \in SUBSET L : s # {} => Choice(s) \in Milestone
  BY DEF Choice
<1>2. \A g : F(g) = [s \in SUBSET L |->
                       IF s = {} THEN 0 ELSE h[Choice(s)] + g[s \ {Choice(s)}]]
  BY <1>1 DEF Choice
<1>3. MapThenSumSet(LAMBDA m : milestone[m].amount, L) = (CHOOSE g : g = F(g))[L]
  BY DEF MapThenSumSet, MapThenFoldSet
<1> HIDE DEF F, h
<1>4. PICK it : IsSums(it, h, L) /\ SumOf(h, L) = it[L]
  BY SumOfIsSum
<1>5. it = F(it)
  BY <1>2, <1>4 DEF IsSums
<1>6. PICK jt : jt = CHOOSE g : g = F(g)
  OBVIOUS
<1>7. IsSums(jt, h, L)
  BY <1>2, <1>5, <1>6 DEF IsSums
<1>8. jt[L] = it[L]
  BY <1>4, <1>7, SumsAgree
<1> QED
  BY <1>3, <1>4, <1>6, <1>8 DEF h

\* EntrySum adds up the amounts of the entries of a new payment.
LEMMA EntriesAdd ==
  ASSUME NEW e, IsFiniteSet(DOMAIN e)
  PROVE  EntrySum(e) = SumOf([a \in DOMAIN e |-> e[a].amount], DOMAIN e)
<1> DEFINE L == DOMAIN e
           h == [a \in L |-> e[a].amount]
           F(g) == [s \in SUBSET L |->
                      IF s = {} THEN 0
                      ELSE LET x == CHOOSE x \in s : TRUE IN e[x].amount + g[s \ {x}]]
<1>1. \A s \in SUBSET L : s # {} => Choice(s) \in L
  BY DEF Choice
<1>2. \A g : F(g) = [s \in SUBSET L |->
                       IF s = {} THEN 0 ELSE h[Choice(s)] + g[s \ {Choice(s)}]]
  BY <1>1 DEF Choice
<1>3. EntrySum(e) = (CHOOSE g : g = F(g))[L]
  BY DEF EntrySum, MapThenSumSet, MapThenFoldSet
<1> HIDE DEF F, h, L
<1>4. PICK it : IsSums(it, h, L) /\ SumOf(h, L) = it[L]
  BY SumOfIsSum DEF L
<1>5. it = F(it)
  BY <1>2, <1>4 DEF IsSums
<1>6. PICK jt : jt = CHOOSE g : g = F(g)
  OBVIOUS
<1>7. IsSums(jt, h, L)
  BY <1>2, <1>5, <1>6 DEF IsSums
<1>8. jt[L] = it[L]
  BY <1>4, <1>7, SumsAgree DEF L
<1> QED
  BY <1>3, <1>4, <1>6, <1>8 DEF h, L

\* The sums the code asks for, as sums over whole tables.
LEMMA SumsAre ==
  ASSUME RowsTyped, IsFiniteSet(Milestone), IsFiniteSet(Invoice), IsFiniteSet(Allocation),
         NEW but
  PROVE  /\ Billed(but) = SumOf(Bills, Invoice \ but)
         /\ Planned(but) = SumOf(Plans, Milestone \ but)
         /\ \A i : Received(i, but) = SumOf(Receipts(i), Allocation \ but)
         /\ \A p : Allocated(p, but) = SumOf(Shares(p), Allocation \ but)
<1>1. Billed(but) = SumOf(Bills, Invoice \ but)
  <2> DEFINE L == {i \in Invoice \ but : Live(invoice[i]) /\ ~ invoice[i].cancelled}
             h == [i \in Invoice |-> invoice[i].amount]
  <2>1. L \in SUBSET Invoice /\ L \in SUBSET (Invoice \ but)
    OBVIOUS
  <2>2. IsFiniteSet(L) /\ IsFiniteSet(Invoice \ but)
    BY <2>1, FS_Subset
  <2>3. Billed(but) = SumOf(h, L)
    <3> HIDE DEF L
    <3>1. MapThenSumSet(LAMBDA i : invoice[i].amount, L) = SumOf(h, L)
      BY <2>1, <2>2, BilledAdds
    <3> QED
      BY <3>1 DEF Billed, L
  <2>4. /\ \A i \in L : h[i] = Bills[i]
        /\ \A i \in Invoice \ but : Bills[i] \in Nat
        /\ \A i \in (Invoice \ but) \ L : Bills[i] = 0
    <3>1. \A i \in L : h[i] = Bills[i]
      BY DEF Bills
    <3>2. \A i \in (Invoice \ but) \ L : Bills[i] = 0
      BY DEF Bills
    <3> QED
      BY <3>1, <3>2, MoneyIsNat
  <2> HIDE DEF L, h
  <2>5. SumOf(h, L) = SumOf(Bills, L)
    BY <2>2, <2>4, SumOfSame
  <2>6. SumOf(Bills, Invoice \ but) = SumOf(Bills, L)
    BY <2>1, <2>2, <2>4, SumOfRest
  <2> QED
    BY <2>3, <2>5, <2>6
<1>2. Planned(but) = SumOf(Plans, Milestone \ but)
  <2> DEFINE L == {m \in Milestone \ but : Live(milestone[m])}
             h == [m \in Milestone |-> milestone[m].amount]
  <2>1. L \in SUBSET Milestone /\ L \in SUBSET (Milestone \ but)
    OBVIOUS
  <2>2. IsFiniteSet(L) /\ IsFiniteSet(Milestone \ but)
    BY <2>1, FS_Subset
  <2>3. Planned(but) = SumOf(h, L)
    <3> HIDE DEF L
    <3>1. MapThenSumSet(LAMBDA m : milestone[m].amount, L) = SumOf(h, L)
      BY <2>1, <2>2, PlannedAdds
    <3> QED
      BY <3>1 DEF Planned, L
  <2>4. /\ \A m \in L : h[m] = Plans[m]
        /\ \A m \in Milestone \ but : Plans[m] \in Nat
        /\ \A m \in (Milestone \ but) \ L : Plans[m] = 0
    <3>1. \A m \in L : h[m] = Plans[m]
      BY DEF Plans
    <3>2. \A m \in (Milestone \ but) \ L : Plans[m] = 0
      BY DEF Plans
    <3> QED
      BY <3>1, <3>2, MoneyIsNat
  <2> HIDE DEF L, h
  <2>5. SumOf(h, L) = SumOf(Plans, L)
    BY <2>2, <2>4, SumOfSame
  <2>6. SumOf(Plans, Milestone \ but) = SumOf(Plans, L)
    BY <2>1, <2>2, <2>4, SumOfRest
  <2> QED
    BY <2>3, <2>5, <2>6
<1>3. IsFiniteSet(Allocation \ but)
  BY FS_Subset
<1>4. ASSUME NEW i
      PROVE  Received(i, but) = SumOf(Receipts(i), Allocation \ but)
  <2>1. PICK f : f = Incoming(i, but)
    OBVIOUS
  <2>2. DOMAIN f = {a \in Allocation \ but : Brings(a, i)}
    BY <2>1 DEF Incoming, AllocationsTo, Brings
  <2>3. \A a \in DOMAIN f : f[a] = Receipts(i)[a]
    BY <2>1, <2>2 DEF Incoming, AllocationsTo, Brings, Receipts
  <2>4. \A a \in (Allocation \ but) \ DOMAIN f : Receipts(i)[a] = 0
    BY <2>2 DEF Receipts
  <2>5. DOMAIN f \in SUBSET (Allocation \ but)
    BY <2>2
  <2>6. IsFiniteSet(DOMAIN f)
    BY <1>3, <2>5, FS_Subset
  <2>7. \A a \in Allocation \ but : Receipts(i)[a] \in Nat
    BY MoneyIsNat
  <2>8. Received(i, but) = SumOf(f, DOMAIN f)
    BY <2>1, <2>6, SumFunctionIs DEF Received
  <2>9. SumOf(f, DOMAIN f) = SumOf(Receipts(i), DOMAIN f)
    BY <2>3, <2>6, SumOfSame
  <2>10. SumOf(Receipts(i), Allocation \ but) = SumOf(Receipts(i), DOMAIN f)
    BY <1>3, <2>4, <2>5, <2>7, SumOfRest
  <2> QED
    BY <2>8, <2>9, <2>10
<1>5. ASSUME NEW p
      PROVE  Allocated(p, but) = SumOf(Shares(p), Allocation \ but)
  <2>1. PICK f : f = [a \in AllocationsOf(p) \ but |-> allocation[a].amount]
    OBVIOUS
  <2>2. DOMAIN f = {a \in Allocation \ but : Uses(a, p)}
    BY <2>1 DEF AllocationsOf, Uses
  <2>3. \A a \in DOMAIN f : f[a] = Shares(p)[a]
    BY <2>1, <2>2 DEF AllocationsOf, Uses, Shares
  <2>4. \A a \in (Allocation \ but) \ DOMAIN f : Shares(p)[a] = 0
    BY <2>2 DEF Shares
  <2>5. DOMAIN f \in SUBSET (Allocation \ but)
    BY <2>2
  <2>6. IsFiniteSet(DOMAIN f)
    BY <1>3, <2>5, FS_Subset
  <2>7. \A a \in Allocation \ but : Shares(p)[a] \in Nat
    BY MoneyIsNat
  <2>8. Allocated(p, but) = SumOf(f, DOMAIN f)
    BY <2>1, <2>6, SumFunctionIs DEF Allocated
  <2>9. SumOf(f, DOMAIN f) = SumOf(Shares(p), DOMAIN f)
    BY <2>3, <2>6, SumOfSame
  <2>10. SumOf(Shares(p), Allocation \ but) = SumOf(Shares(p), DOMAIN f)
    BY <1>3, <2>4, <2>5, <2>7, SumOfRest
  <2> QED
    BY <2>8, <2>9, <2>10
<1> QED
  BY <1>1, <1>2, <1>4, <1>5

\* The tables are finite.
Finite == IsFiniteSet(Milestone) /\ IsFiniteSet(Invoice) /\ IsFiniteSet(Allocation)

\* The same in one formula, and after a step.
AddUp ==
  \A b :
    /\ Billed(b) = SumOf(Bills, Invoice \ b)
    /\ Planned(b) = SumOf(Plans, Milestone \ b)
    /\ \A i : Received(i, b) = SumOf(Receipts(i), Allocation \ b)
    /\ \A p : Allocated(p, b) = SumOf(Shares(p), Allocation \ b)

\* It holds wherever the rows have their types ...
LEMMA SumsAddUp ==
  ASSUME Finite
  PROVE  RowsTyped => AddUp
  BY SumsAre DEF Finite, AddUp

\* ... so after a step, too.
LEMMA SumsAreNext ==
  ASSUME RowsTyped', Finite, NEW but
  PROVE  /\ Billed(but)' = SumOf(Bills', Invoice \ but)
         /\ Planned(but)' = SumOf(Plans', Milestone \ but)
         /\ \A i : Received(i, but)' = SumOf(Receipts(i)', Allocation \ but)
         /\ \A p : Allocated(p, but)' = SumOf(Shares(p)', Allocation \ but)
<1>1. (RowsTyped => AddUp)'
  BY SumsAddUp, PTL
<1>2. AddUp'
  BY <1>1
<1> QED
  BY <1>2 DEF AddUp

\* After a step, too, the money is natural numbers.
LEMMA MoneyIsNatNext ==
  ASSUME RowsTyped'
  PROVE  /\ Bills' \in [Invoice -> Nat] /\ Plans' \in [Milestone -> Nat]
         /\ \A i : Receipts(i)' \in [Allocation -> Nat]
         /\ \A p : Shares(p)' \in [Allocation -> Nat]
<1>1. (RowsTyped =>
         /\ Bills \in [Invoice -> Nat] /\ Plans \in [Milestone -> Nat]
         /\ \A i : Receipts(i) \in [Allocation -> Nat]
         /\ \A p : Shares(p) \in [Allocation -> Nat])'
  BY MoneyIsNat, PTL
<1> QED
  BY <1>1

\* The sums are natural numbers.
LEMMA SumsAreNat ==
  ASSUME RowsTyped, Finite, NEW but
  PROVE  /\ Billed(but) \in Nat /\ Planned(but) \in Nat
         /\ \A i : Received(i, but) \in Nat
         /\ \A p : Allocated(p, but) \in Nat
<1>1. IsFiniteSet(Invoice \ but) /\ IsFiniteSet(Milestone \ but) /\ IsFiniteSet(Allocation \ but)
  BY FS_Subset DEF Finite
<1>2. /\ Billed(but) = SumOf(Bills, Invoice \ but)
      /\ Planned(but) = SumOf(Plans, Milestone \ but)
      /\ \A i : Received(i, but) = SumOf(Receipts(i), Allocation \ but)
      /\ \A p : Allocated(p, but) = SumOf(Shares(p), Allocation \ but)
  BY SumsAre DEF Finite
<1>3. SumOf(Bills, Invoice \ but) \in Nat
  <2>1. \A x \in Invoice \ but : Bills[x] \in Nat
    BY MoneyIsNat
  <2> QED
    BY <1>1, <2>1, SumOfNaturals
<1>4. SumOf(Plans, Milestone \ but) \in Nat
  <2>1. \A x \in Milestone \ but : Plans[x] \in Nat
    BY MoneyIsNat
  <2> QED
    BY <1>1, <2>1, SumOfNaturals
<1>5. ASSUME NEW i
      PROVE  SumOf(Receipts(i), Allocation \ but) \in Nat
  <2>1. \A x \in Allocation \ but : Receipts(i)[x] \in Nat
    BY MoneyIsNat
  <2> QED
    BY <1>1, <2>1, SumOfNaturals
<1>6. ASSUME NEW p
      PROVE  SumOf(Shares(p), Allocation \ but) \in Nat
  <2>1. \A x \in Allocation \ but : Shares(p)[x] \in Nat
    BY MoneyIsNat
  <2> QED
    BY <1>1, <2>1, SumOfNaturals
<1> QED
  BY <1>2, <1>3, <1>4, <1>5, <1>6

\* A step that says it changed X has changed no other sum, invoice or payment.
MoneyStays(X) ==
  /\ <<"billed">> \notin X => Bills' = Bills
  /\ <<"planned">> \notin X => Plans' = Plans
  /\ \A i \in Invoice : <<"received", i>> \notin X => Receipts(i)' = Receipts(i)
  /\ \A p \in Payment : <<"allocated", p>> \notin X => Shares(p)' = Shares(p)
  /\ \A i \in Invoice : i \notin X => invoice'[i] = invoice[i]
  /\ \A p \in Payment : p \notin X /\ Exists(payment[p]) => payment'[p] = payment[p]

\* What request r has checked is still so: the amount it is about to write fits.
Promised(r) ==
  /\ r.pc \in {"Bill", "Invoice"} => Fits(r.amount, Billed({}))
  /\ r.pc = "PatchInvoice" => Fits(r.row.amount, Billed({r.invoice}))
  /\ r.pc = "Milestone" => Fits(r.amount, Planned({}))
  /\ r.pc = "PatchMilestone" => Fits(r.row.amount, Planned({r.milestone}))
  /\ r.pc = "Allocate" => AllocationFits(r.row.amount, r.checked, r.row.invoice, {})
  /\ r.pc = "PatchAllocation" =>
       AllocationFits(r.row.amount, r.row.payment, r.row.invoice, {r.allocation})
  /\ r.pc \in {"Pay", "Entered"} => \A a \in DOMAIN r.new : EntryFits(r.new[a])
  /\ r.pc = "PatchPayment" => Live(payment[r.payment])

\* What it holds are amounts users have entered.
Entered(r) ==
  /\ r.pc = "Bill" => r.amount \in Amount
  /\ r.pc \in {"PatchMilestone", "PatchInvoice"} => r.row.amount \in Amount
  /\ r.pc \in {"Pay", "Entered"} => EntrySum(r.new) <= r.amount + Tolerance

RowsEntered ==
  /\ \A m \in Milestone : Exists(milestone[m]) => milestone[m].amount \in Amount
  /\ \A i \in Invoice : Exists(invoice[i]) => invoice[i].amount \in Amount

\* The invariant of the sums.
SumsInv ==
  /\ RowsEntered
  /\ \A w \in Request : Entered(req[w])
  /\ \A w \in Request \ late : Promised(req[w])

\* The sums and rows that a promise rests on are held.
LEMMA PromiseHeld ==
  ASSUME NEW r
  PROVE  /\ r.pc \in {"Bill", "Invoice", "PatchInvoice"} => <<"billed">> \in Held(r)
         /\ r.pc \in {"Milestone", "PatchMilestone"} => <<"planned">> \in Held(r)
         /\ r.pc = "Allocate" => Books(r.checked, r.row.invoice) \subseteq Held(r)
         /\ r.pc = "PatchAllocation" => Books(r.row.payment, r.row.invoice) \subseteq Held(r)
         /\ r.pc \in {"Pay", "Entered"} =>
              \A e \in r.entries : e.invoice \in Held(r) /\ <<"received", e.invoice>> \in Held(r)
         /\ r.pc = "PatchPayment" => r.payment \in Held(r)
<1>1. r.pc \in {"Bill", "Invoice", "PatchInvoice"} => <<"billed">> \in Held(r)
  BY DEF Held
<1>2. r.pc \in {"Milestone", "PatchMilestone"} => <<"planned">> \in Held(r)
  BY DEF Held
<1>3. /\ r.pc = "Allocate" => Books(r.checked, r.row.invoice) \subseteq Held(r)
      /\ r.pc = "PatchAllocation" => Books(r.row.payment, r.row.invoice) \subseteq Held(r)
  BY DEF Held
<1>4. r.pc \in {"Pay", "Entered"} =>
        \A e \in r.entries : e.invoice \in Held(r) /\ <<"received", e.invoice>> \in Held(r)
  <2> SUFFICES ASSUME r.pc \in {"Pay", "Entered"}, NEW e \in r.entries
               PROVE  e.invoice \in Held(r) /\ <<"received", e.invoice>> \in Held(r)
    OBVIOUS
  <2>1. Held(r) = UNION {{f.invoice, <<"received", f.invoice>>} : f \in r.entries}
    BY DEF Held
  <2> QED
    BY <2>1
<1>5. r.pc = "PatchPayment" => r.payment \in Held(r)
  BY DEF Held
<1> QED
  BY <1>1, <1>2, <1>3, <1>4, <1>5

\* A promise stands as long as nothing it rests on is changed.
LEMMA PromiseStands ==
  ASSUME RowsTyped, KeysExist, RowsTyped', Finite, NEW X, MoneyStays(X),
         NEW r \in Req, Linked(r), Held(r) \cap X = {}, Promised(r)
  PROVE  Promised(r)'
<1>1. ASSUME <<"billed">> \in Held(r), NEW but
      PROVE  Billed(but)' = Billed(but)
  <2>1. Bills' = Bills
    BY <1>1 DEF MoneyStays
  <2> QED
    BY <2>1, SumsAre, SumsAreNext DEF Finite
<1>2. ASSUME <<"planned">> \in Held(r), NEW but
      PROVE  Planned(but)' = Planned(but)
  <2>1. Plans' = Plans
    BY <1>2 DEF MoneyStays
  <2> QED
    BY <2>1, SumsAre, SumsAreNext DEF Finite
<1>3. ASSUME NEW i \in Invoice, <<"received", i>> \in Held(r), NEW but
      PROVE  Received(i, but)' = Received(i, but)
  <2>1. Receipts(i)' = Receipts(i)
    BY <1>3 DEF MoneyStays
  <2>2. Received(i, but) = SumOf(Receipts(i), Allocation \ but)
    BY SumsAre DEF Finite
  <2>3. Received(i, but)' = SumOf(Receipts(i)', Allocation \ but)
    BY SumsAreNext
  <2> QED
    BY <2>1, <2>2, <2>3
<1>4. ASSUME NEW p \in Payment, <<"allocated", p>> \in Held(r), NEW but
      PROVE  Allocated(p, but)' = Allocated(p, but)
  <2>1. Shares(p)' = Shares(p)
    BY <1>4 DEF MoneyStays
  <2>2. Allocated(p, but) = SumOf(Shares(p), Allocation \ but)
    BY SumsAre DEF Finite
  <2>3. Allocated(p, but)' = SumOf(Shares(p)', Allocation \ but)
    BY SumsAreNext
  <2> QED
    BY <2>1, <2>2, <2>3
<1>5. ASSUME NEW amount, NEW p \in Payment, NEW i \in Invoice, NEW but, Exists(payment[p]),
             Books(p, i) \subseteq Held(r), AllocationFits(amount, p, i, but)
      PROVE  AllocationFits(amount, p, i, but)'
  <2>1. Received(i, but)' = Received(i, but) /\ Allocated(p, but)' = Allocated(p, but)
    BY <1>3, <1>4, <1>5 DEF Books
  <2>2. invoice'[i] = invoice[i] /\ payment'[p] = payment[p]
    BY <1>5 DEF Books, MoneyStays
  <2> QED
    BY <1>5, <2>1, <2>2 DEF AllocationFits, Total
<1>6. r.pc \in {"Bill", "Invoice"} => Fits(r.amount, Billed({}))'
  BY <1>1, PromiseHeld DEF Promised, Fits
<1>7. r.pc = "PatchInvoice" => Fits(r.row.amount, Billed({r.invoice}))'
  BY <1>1, PromiseHeld DEF Promised, Fits
<1>8. r.pc = "Milestone" => Fits(r.amount, Planned({}))'
  BY <1>2, PromiseHeld DEF Promised, Fits
<1>9. r.pc = "PatchMilestone" => Fits(r.row.amount, Planned({r.milestone}))'
  BY <1>2, PromiseHeld DEF Promised, Fits
<1>10. r.pc = "Allocate" => AllocationFits(r.row.amount, r.checked, r.row.invoice, {})'
  <2> SUFFICES ASSUME r.pc = "Allocate"
               PROVE  AllocationFits(r.row.amount, r.checked, r.row.invoice, {})'
    OBVIOUS
  <2>1. r.checked \in Payment /\ r.row.invoice \in Invoice
    BY Shape DEF AllocationRow
  <2>2. Exists(payment[r.checked])
    BY DEF Linked
  <2> QED
    BY <1>5, <2>1, <2>2, PromiseHeld DEF Promised
<1>11. r.pc = "PatchAllocation" =>
         AllocationFits(r.row.amount, r.row.payment, r.row.invoice, {r.allocation})'
  <2> SUFFICES ASSUME r.pc = "PatchAllocation"
               PROVE  AllocationFits(r.row.amount, r.row.payment, r.row.invoice,
                                     {r.allocation})'
    OBVIOUS
  <2>1. r.row.payment \in Payment /\ r.row.invoice \in Invoice
    BY Shape DEF AllocationRow
  <2>2. Exists(payment[r.row.payment])
    BY DEF Linked
  <2> QED
    BY <1>5, <2>1, <2>2, PromiseHeld DEF Promised
<1>12. r.pc \in {"Pay", "Entered"} => \A a \in DOMAIN r.new : EntryFits(r.new[a])'
  <2> SUFFICES ASSUME r.pc \in {"Pay", "Entered"}, NEW a \in DOMAIN r.new
               PROVE  EntryFits(r.new[a])'
    OBVIOUS
  <2>1. PICK e : e = r.new[a]
    OBVIOUS
  <2>2. e \in r.entries /\ e.invoice \in Invoice /\ Exists(invoice[e.invoice])
    BY <2>1, Shape DEF Linked, Entry
  <2>3. invoice'[e.invoice] = invoice[e.invoice]
        /\ Received(e.invoice, {})' = Received(e.invoice, {})
    BY <1>3, <2>2, PromiseHeld DEF MoneyStays
  <2>4. EntryFits(e)
    BY <2>1 DEF Promised
  <2>5. EntryFits(e)'
    BY <2>2, <2>3, <2>4 DEF EntryFits, Total
  <2> QED
    BY <2>1, <2>5
<1>13. r.pc = "PatchPayment" => Live(payment[r.payment])'
  BY PromiseHeld, Shape DEF Promised, MoneyStays, Live, Exists
<1> QED
  BY <1>6, <1>7, <1>8, <1>9, <1>10, <1>11, <1>12, <1>13 DEF Promised

\* A request w goes on, and what it says about sums is so.
SumsGo(w) ==
  \E r, X : Step(w, r, X) /\ MoneyStays(X) /\ Entered(r) /\ (w \notin late => Promised(r)')

\* The lemma for all actions, as GoesOn is for the rows.
LEMMA SumsGoOn ==
  ASSUME RowsAgree, RowsAgree', Finite, SumsInv, RowsEntered', NEW w \in Request, SumsGo(w)
  PROVE  SumsInv'
<1>1. PICK r, X : Step(w, r, X) /\ MoneyStays(X) /\ Entered(r) /\ (w \notin late => Promised(r)')
  BY DEF SumsGo
<1>2. /\ RowsTyped /\ KeysExist /\ RowsTyped'
      /\ req \in [Request -> Req] /\ req' \in [Request -> Req]
  BY DEF RowsAgree, TypeOK, KeysHold, KeysExist
<1>3. req'[w] = r /\ \A v \in Request \ {w} : req'[v] = req[v]
  BY <1>1, <1>2 DEF Step, Becomes
<1>4. ASSUME NEW v \in Request
      PROVE  Entered(req[v])'
  <2>1. CASE v = w
    BY <1>1, <1>3, <2>1 DEF Entered
  <2>2. CASE v # w
    <3>1. Entered(req[v]) /\ req'[v] = req[v]
      BY <1>3, <2>2 DEF SumsInv
    <3> QED
      BY <3>1 DEF Entered
  <2> QED
    BY <2>1, <2>2
<1>5. ASSUME NEW v \in Request, v \notin late'
      PROVE  Promised(req[v])'
  <2>1. CASE v = w /\ r = Idle
    <3>1. req'[v].pc = "Idle"
      BY <1>3, <2>1 DEF Idle
    <3> QED
      BY <3>1 DEF Promised
  <2>2. CASE v = w /\ r # Idle
    <3>1. w \notin late
      BY <1>1, <1>5, <2>2 DEF Step
    <3>2. Promised(r)'
      BY <1>1, <3>1
    <3> QED
      BY <1>3, <2>2, <3>2 DEF Promised
  <2>3. CASE v # w
    <3>1. v \notin late /\ Held(req[v]) \cap X = {}
      BY <1>1, <1>5, <2>3 DEF Step
    <3>2. PICK q \in Req : q = req[v] /\ req'[v] = q
      BY <1>2, <1>3, <2>3
    <3>3. Linked(q) /\ Promised(q)
      BY <3>1, <3>2 DEF RowsAgree, KeysHold, SumsInv
    <3>4. Promised(q)'
      BY <1>1, <1>2, <3>1, <3>2, <3>3, PromiseStands
    <3> QED
      BY <3>2, <3>4 DEF Promised
  <2> QED
    BY <2>1, <2>2, <2>3
<1> QED
  BY <1>4, <1>5 DEF SumsInv

\* A request that has checked nothing promises nothing.
LEMMA NothingPromised ==
  ASSUME NEW r, r.pc \in {"Idle", "Billed", "Cancel", "Settle", "MarkPaid", "Destroy"}
  PROVE  Entered(r) /\ Promised(r)'
  BY DEF Entered, Promised

\* What is not written has the money it had.
LEMMA NoMoney == ASSUME UNCHANGED rows, NEW X PROVE MoneyStays(X)
  BY DEF rows, MoneyStays, Bills, Plans, Receipts, Brings, Shares, Uses

\* A write of milestones changes what is planned, if anything.
LEMMA MilestoneMoney ==
  ASSUME UNCHANGED <<invoice, payment, allocation>>, NEW X,
         <<"planned">> \in X \/ Plans' = Plans
  PROVE  MoneyStays(X)
  BY DEF MoneyStays, Bills, Receipts, Brings, Shares, Uses

\* A write of an invoice changes what is billed, and that invoice.
LEMMA InvoiceMoney ==
  ASSUME UNCHANGED <<milestone, payment, allocation>>, NEW X, <<"billed">> \in X,
         NEW i \in Invoice, i \in X, \A j \in Invoice \ {i} : invoice'[j] = invoice[j]
  PROVE  MoneyStays(X)
  BY DEF MoneyStays, Plans, Receipts, Brings, Shares, Uses

\* A write of a payment changes what the invoices it is allocated to receive.
LEMMA PaymentMoney ==
  ASSUME UNCHANGED <<milestone, invoice, allocation>>, NEW p \in Payment, NEW X,
         p \in X, {<<"received", allocation[a].invoice>> : a \in AllocationsOf(p)} \subseteq X,
         \A q \in Payment \ {p} : payment'[q] = payment[q], KeysExist,
         RowsTyped
  PROVE  MoneyStays(X)
<1>1. UNCHANGED <<Bills, Plans>> /\ \A q : Shares(q)' = Shares(q)
  BY DEF Bills, Plans, Shares, Uses
<1>2. ASSUME NEW i \in Invoice, <<"received", i>> \notin X
      PROVE  Receipts(i)' = Receipts(i)
  <2>1. ASSUME NEW a \in Allocation
        PROVE  Brings(a, i)' <=> Brings(a, i)
    <3>1. CASE Exists(allocation[a]) /\ allocation[a].invoice = i
      <4>1. allocation[a].payment # p
        BY <1>2, <3>1 DEF AllocationsOf
      <4>2. allocation[a].payment \in Payment
        BY <3>1 DEF RowsTyped, AllocationRow, NoAllocation, Exists
      <4> QED
        BY <4>1, <4>2 DEF Brings
    <3>2. CASE ~ (Exists(allocation[a]) /\ allocation[a].invoice = i)
      BY <3>2 DEF Brings
    <3> QED
      BY <3>1, <3>2
  <2> QED
    BY <2>1 DEF Receipts
<1> QED
  BY <1>1, <1>2 DEF MoneyStays

\* A write of allocations changes what is received and what is allocated.
LEMMA AllocationMoney ==
  ASSUME UNCHANGED <<milestone, invoice, payment>>, NEW X,
         \A i \in Invoice : <<"received", i>> \notin X => Receipts(i)' = Receipts(i),
         \A p \in Payment : <<"allocated", p>> \notin X => Shares(p)' = Shares(p)
  PROVE  MoneyStays(X)
  BY DEF MoneyStays, Bills, Plans

\* A sum in which one number grows stays within what it was checked against.
LEMMA OneGrows ==
  ASSUME NEW S, IsFiniteSet(S), NEW h \in [S -> Nat], NEW g \in [S -> Nat],
         NEW x \in S, \A y \in S \ {x} : g[y] = h[y],
         NEW amount \in Nat, g[x] <= amount, NEW limit \in Int,
         \/ amount + SumOf(h, S) <= limit
         \/ amount + SumOf(h, S \ {x}) <= limit
  PROVE  SumOf(g, S) <= limit
<1>1. /\ SumOf(g, S) = g[x] + SumOf(h, S \ {x})
      /\ SumOf(h, S \ {x}) <= SumOf(h, S)
  BY SumOfChange
<1>2. IsFiniteSet(S \ {x}) /\ \A y \in S \ {x} : h[y] \in Nat
  BY FS_Subset
<1>3. SumOf(h, S \ {x}) \in Nat
  BY <1>2, SumOfNaturals
<1>4. SumOf(h, S) \in Nat
  BY SumOfNaturals
<1>5. PICK a \in Nat, b \in Nat, c \in Nat :
        a = g[x] /\ b = SumOf(h, S \ {x}) /\ c = SumOf(h, S)
  BY <1>3, <1>4
<1>6. a + b <= limit
  BY <1>1, <1>5
<1> QED
  BY <1>1, <1>5, <1>6

\* What the step does to the sums, as the properties put it.
AmountsMove ==
  /\ WithinBudget(Billed({}), Billed({})')
  /\ WithinBudget(Planned({}), Planned({})')
  /\ \A i \in Invoice : Received(i, {})' > Received(i, {}) =>
       Received(i, {})' <= Total(invoice[i])' + Tolerance \/ EntersTwice(i)
  /\ \A p \in Payment : Allocated(p, {})' > Allocated(p, {}) =>
       Allocated(p, {})' <= payment'[p].amount + Tolerance \/ ChecksAnother(p)

\* A sum of the same numbers does not grow.
LEMMA SameMoney ==
  ASSUME RowsTyped, RowsTyped', Finite
  PROVE  /\ Bills' = Bills => WithinBudget(Billed({}), Billed({})')
         /\ Plans' = Plans => WithinBudget(Planned({}), Planned({})')
         /\ \A i \in Invoice : Receipts(i)' = Receipts(i) =>
              ~ Received(i, {})' > Received(i, {})
         /\ \A p \in Payment : Shares(p)' = Shares(p) =>
              ~ Allocated(p, {})' > Allocated(p, {})
<1>1. Budget \in Nat /\ Tolerance \in Nat
  BY BillingAssumption DEF BillingAssumption
<1>2. \A n \in Nat : WithinBudget(n, n)
  BY <1>1 DEF WithinBudget
<1>3. Bills' = Bills => Billed({})' = Billed({})
  BY SumsAre, SumsAreNext DEF Finite
<1>4. Plans' = Plans => Planned({})' = Planned({})
  BY SumsAre, SumsAreNext DEF Finite
<1>5. ASSUME NEW i \in Invoice, Receipts(i)' = Receipts(i)
      PROVE  ~ Received(i, {})' > Received(i, {})
  <2>1. /\ Received(i, {}) = SumOf(Receipts(i), Allocation \ {})
        /\ Received(i, {})' = SumOf(Receipts(i)', Allocation \ {})
    BY SumsAre, SumsAreNext DEF Finite
  <2>2. PICK n \in Nat : n = Received(i, {})
    BY SumsAreNat
  <2>3. Received(i, {})' = n
    BY <1>5, <2>1, <2>2
  <2> QED
    BY <2>2, <2>3
<1>6. ASSUME NEW p \in Payment, Shares(p)' = Shares(p)
      PROVE  ~ Allocated(p, {})' > Allocated(p, {})
  <2>1. /\ Allocated(p, {}) = SumOf(Shares(p), Allocation \ {})
        /\ Allocated(p, {})' = SumOf(Shares(p)', Allocation \ {})
    BY SumsAre, SumsAreNext DEF Finite
  <2>2. PICK n \in Nat : n = Allocated(p, {})
    BY SumsAreNat
  <2>3. Allocated(p, {})' = n
    BY <1>6, <2>1, <2>2
  <2> QED
    BY <2>2, <2>3
<1> QED
  BY <1>2, <1>3, <1>4, <1>5, <1>6, SumsAreNat

\* An invoice does not receive more when no allocation brings it more ...
LEMMA ReceiptsFall ==
  ASSUME RowsTyped, RowsTyped', Finite, NEW i \in Invoice,
         \A a \in Allocation : Receipts(i)'[a] <= Receipts(i)[a]
  PROVE  ~ Received(i, {})' > Received(i, {})
<1>1. PICK h, g : h = Receipts(i) /\ g = Receipts(i)'
  OBVIOUS
<1>2. h \in [Allocation -> Nat] /\ g \in [Allocation -> Nat]
  BY <1>1, MoneyIsNat, MoneyIsNatNext
<1>3. SumOf(g, Allocation) <= SumOf(h, Allocation)
  BY <1>1, <1>2, SumOfGrowing DEF Finite
<1>4. /\ Received(i, {}) = SumOf(h, Allocation \ {})
      /\ Received(i, {})' = SumOf(g, Allocation \ {})
  BY <1>1, SumsAre, SumsAreNext DEF Finite
<1>5. Allocation \ {} = Allocation
  OBVIOUS
<1>6. PICK m \in Nat, n \in Nat : m = SumOf(g, Allocation) /\ n = SumOf(h, Allocation)
  BY <1>2, SumOfNaturals DEF Finite
<1> QED
  BY <1>3, <1>4, <1>5, <1>6

\* ... and no more of a payment is allocated when no allocation takes more of it.
LEMMA SharesFall ==
  ASSUME RowsTyped, RowsTyped', Finite, NEW p \in Payment,
         \A a \in Allocation : Shares(p)'[a] <= Shares(p)[a]
  PROVE  ~ Allocated(p, {})' > Allocated(p, {})
<1>1. PICK h, g : h = Shares(p) /\ g = Shares(p)'
  OBVIOUS
<1>2. h \in [Allocation -> Nat] /\ g \in [Allocation -> Nat]
  BY <1>1, MoneyIsNat, MoneyIsNatNext
<1>3. SumOf(g, Allocation) <= SumOf(h, Allocation)
  BY <1>1, <1>2, SumOfGrowing DEF Finite
<1>4. /\ Allocated(p, {}) = SumOf(h, Allocation \ {})
      /\ Allocated(p, {})' = SumOf(g, Allocation \ {})
  BY <1>1, SumsAre, SumsAreNext DEF Finite
<1>5. Allocation \ {} = Allocation
  OBVIOUS
<1>6. PICK m \in Nat, n \in Nat : m = SumOf(g, Allocation) /\ n = SumOf(h, Allocation)
  BY <1>2, SumOfNaturals DEF Finite
<1> QED
  BY <1>3, <1>4, <1>5, <1>6

\* A step that changes no money.
LEMMA StillMoney ==
  ASSUME RowsTyped, RowsTyped', Finite, MoneyStays({})
  PROVE  AmountsMove
  BY SameMoney DEF MoneyStays, AmountsMove

\* What billing and planning one more amount does to the sums.
LEMMA BillsWithin ==
  ASSUME RowsTyped, RowsTyped', Finite, NEW i \in Invoice,
         \A j \in Invoice \ {i} : invoice'[j] = invoice[j],
         NEW amount \in Nat, Bills'[i] <= amount,
         Fits(amount, Billed({})) \/ Fits(amount, Billed({i})) \/ amount = 0
  PROVE  WithinBudget(Billed({}), Billed({})')
<1>1. /\ Billed({}) = SumOf(Bills, Invoice) /\ Billed({i}) = SumOf(Bills, Invoice \ {i})
      /\ Billed({})' = SumOf(Bills', Invoice)
  <2>1. Billed({}) = SumOf(Bills, Invoice \ {}) /\ Billed({})' = SumOf(Bills', Invoice \ {})
    BY SumsAre, SumsAreNext DEF Finite
  <2>2. Billed({i}) = SumOf(Bills, Invoice \ {i})
    BY SumsAre DEF Finite
  <2>3. Invoice \ {} = Invoice
    OBVIOUS
  <2> QED
    BY <2>1, <2>2, <2>3
<1>2. Bills \in [Invoice -> Nat] /\ Bills' \in [Invoice -> Nat]
  BY MoneyIsNat, MoneyIsNatNext
<1>3. \A j \in Invoice \ {i} : Bills'[j] = Bills[j]
  BY DEF Bills
<1>4. SumOf(Bills, Invoice \ {i}) <= SumOf(Bills, Invoice)
  BY <1>2, SumOfChange DEF Finite
<1>5. PICK all \in Nat, rest \in Nat : all = Billed({}) /\ rest = Billed({i}) /\ rest <= all
  BY <1>1, <1>4, SumsAreNat
<1>6. PICK limit \in Nat : limit = (IF all > Budget THEN all ELSE Budget) + Tolerance
  BY BillingAssumption DEF BillingAssumption
<1>7. amount + all <= limit \/ amount + rest <= limit
  BY <1>5, <1>6, BillingAssumption DEF Fits, BillingAssumption
<1>8. SumOf(Bills', Invoice) <= limit
  BY <1>1, <1>2, <1>3, <1>5, <1>7, OneGrows DEF Finite
<1> QED
  BY <1>1, <1>5, <1>6, <1>8 DEF WithinBudget

\* The same of milestones and what is planned.
LEMMA PlansWithin ==
  ASSUME RowsTyped, RowsTyped', Finite, NEW m \in Milestone,
         \A n \in Milestone \ {m} : milestone'[n] = milestone[n],
         NEW amount \in Nat, Plans'[m] <= amount,
         Fits(amount, Planned({})) \/ Fits(amount, Planned({m})) \/ amount = 0
  PROVE  WithinBudget(Planned({}), Planned({})')
<1>1. /\ Planned({}) = SumOf(Plans, Milestone) /\ Planned({m}) = SumOf(Plans, Milestone \ {m})
      /\ Planned({})' = SumOf(Plans', Milestone)
  <2>1. Planned({}) = SumOf(Plans, Milestone \ {}) /\ Planned({})' = SumOf(Plans', Milestone \ {})
    BY SumsAre, SumsAreNext DEF Finite
  <2>2. Planned({m}) = SumOf(Plans, Milestone \ {m})
    BY SumsAre DEF Finite
  <2>3. Milestone \ {} = Milestone
    OBVIOUS
  <2> QED
    BY <2>1, <2>2, <2>3
<1>2. Plans \in [Milestone -> Nat] /\ Plans' \in [Milestone -> Nat]
  BY MoneyIsNat, MoneyIsNatNext
<1>3. \A n \in Milestone \ {m} : Plans'[n] = Plans[n]
  BY DEF Plans
<1>4. SumOf(Plans, Milestone \ {m}) <= SumOf(Plans, Milestone)
  BY <1>2, SumOfChange DEF Finite
<1>5. PICK all \in Nat, rest \in Nat : all = Planned({}) /\ rest = Planned({m}) /\ rest <= all
  BY <1>1, <1>4, SumsAreNat
<1>6. PICK limit \in Nat : limit = (IF all > Budget THEN all ELSE Budget) + Tolerance
  BY BillingAssumption DEF BillingAssumption
<1>7. amount + all <= limit \/ amount + rest <= limit
  BY <1>5, <1>6, BillingAssumption DEF Fits, BillingAssumption
<1>8. SumOf(Plans', Milestone) <= limit
  BY <1>1, <1>2, <1>3, <1>5, <1>7, OneGrows DEF Finite
<1> QED
  BY <1>1, <1>5, <1>6, <1>8 DEF WithinBudget

\* A promise is a matter of the rows.
LEMMA PromiseSame ==
  ASSUME RowsTyped, RowsTyped', Finite, UNCHANGED rows, NEW r, Promised(r)
  PROVE  Promised(r)'
<1>1. /\ Bills' = Bills /\ Plans' = Plans
      /\ \A i : Receipts(i)' = Receipts(i)
      /\ \A p : Shares(p)' = Shares(p)
  BY DEF rows, Bills, Plans, Receipts, Brings, Shares, Uses
<1>2. ASSUME NEW but
      PROVE  Billed(but)' = Billed(but) /\ Planned(but)' = Planned(but)
  <2>1. /\ Billed(but) = SumOf(Bills, Invoice \ but)
        /\ Planned(but) = SumOf(Plans, Milestone \ but)
    BY SumsAre DEF Finite
  <2>2. /\ Billed(but)' = SumOf(Bills', Invoice \ but)
        /\ Planned(but)' = SumOf(Plans', Milestone \ but)
    BY SumsAreNext
  <2> QED
    BY <1>1, <2>1, <2>2
<1>3. ASSUME NEW but, NEW i
      PROVE  Received(i, but)' = Received(i, but)
  <2>1. /\ Received(i, but) = SumOf(Receipts(i), Allocation \ but)
        /\ Received(i, but)' = SumOf(Receipts(i)', Allocation \ but)
    BY SumsAre, SumsAreNext DEF Finite
  <2> QED
    BY <1>1, <2>1
<1>4. ASSUME NEW but, NEW p
      PROVE  Allocated(p, but)' = Allocated(p, but)
  <2>1. /\ Allocated(p, but) = SumOf(Shares(p), Allocation \ but)
        /\ Allocated(p, but)' = SumOf(Shares(p)', Allocation \ but)
    BY SumsAre, SumsAreNext DEF Finite
  <2> QED
    BY <1>1, <2>1
<1>5. \A amount, but : /\ Fits(amount, Billed(but))' <=> Fits(amount, Billed(but))
                       /\ Fits(amount, Planned(but))' <=> Fits(amount, Planned(but))
  BY <1>2 DEF Fits
<1>6. \A amount, p, i, but :
        AllocationFits(amount, p, i, but)' <=> AllocationFits(amount, p, i, but)
  BY <1>3, <1>4 DEF AllocationFits, Total, rows
<1>7. \A e : EntryFits(e)' <=> EntryFits(e)
  BY <1>3 DEF EntryFits, Total, rows
<1>8. \A p : Live(payment[p])' <=> Live(payment[p])
  BY DEF rows
<1> QED
  BY <1>5, <1>6, <1>7, <1>8 DEF Promised

\* What is to be shown of every action of request w.
Balances(w) == SumsGo(w) /\ RowsEntered' /\ (ActsLate \/ AmountsMove)

\* An action that reads keeps what it has checked.
LEMMA ReadsBalance ==
  ASSUME RowsAgree, RowsAgree', Finite, SumsInv, NEW w \in Request, UNCHANGED rows,
         NEW r, Step(w, r, {}), Entered(r), w \notin late => Promised(r)
  PROVE  Balances(w)
<1>1. RowsTyped /\ RowsTyped'
  BY DEF RowsAgree, TypeOK
<1>2. MoneyStays({})
  BY NoMoney
<1>3. w \notin late => Promised(r)'
  BY <1>1, PromiseSame
<1>4. RowsEntered'
  BY DEF SumsInv, RowsEntered, rows
<1>5. AmountsMove
  BY <1>1, <1>2, StillMoney
<1> QED
  BY <1>2, <1>3, <1>4, <1>5 DEF Balances, SumsGo

\* The actions on milestones that read.
LEMMA MilestoneReadsBalance ==
  ASSUME RowsAgree, RowsAgree', Finite, SumsInv, NEW w \in Request,
         \/ \E amount \in Amount : MilestoneCheck(w, amount)
         \/ \E m \in Milestone, amount \in Amount : MilestonePatchLoad(w, m, amount)
         \/ \E m \in Milestone : GenerateLoad(w, m)
  PROVE  Balances(w)
<1>1. ASSUME NEW amount \in Amount, MilestoneCheck(w, amount)
      PROVE  Balances(w)
  <2>1. PICK r : r = [pc |-> "Milestone", amount |-> amount]
    OBVIOUS
  <2>2. Entered(r) /\ Promised(r)
    BY <1>1, <2>1 DEF MilestoneCheck, Entered, Promised
  <2>3. Step(w, r, {}) /\ UNCHANGED rows
    BY <1>1, <2>1 DEF MilestoneCheck
  <2> QED
    BY <2>2, <2>3, ReadsBalance
<1>2. ASSUME NEW m \in Milestone, NEW amount \in Amount, MilestonePatchLoad(w, m, amount)
      PROVE  Balances(w)
  <2>1. PICK row : row = [milestone[m] EXCEPT !.amount = amount]
    OBVIOUS
  <2>2. row.amount = amount
    BY <2>1 DEF RowsAgree, TypeOK, RowsTyped, MilestoneRow
  <2>3. PICK r : r = [pc |-> "PatchMilestone", milestone |-> m, row |-> row]
    OBVIOUS
  <2>4. Entered(r) /\ Promised(r)
    BY <1>2, <2>2, <2>3 DEF MilestonePatchLoad, Entered, Promised
  <2>5. Step(w, r, {}) /\ UNCHANGED rows
    BY <1>2, <2>1, <2>3 DEF MilestonePatchLoad
  <2> QED
    BY <2>4, <2>5, ReadsBalance
<1>3. ASSUME NEW m \in Milestone, GenerateLoad(w, m)
      PROVE  Balances(w)
  <2>1. PICK r : r = [pc |-> "Bill", milestone |-> m, amount |-> milestone[m].amount]
    OBVIOUS
  <2>2. milestone[m].amount \in Amount
    BY <1>3 DEF GenerateLoad, SumsInv, RowsEntered, Live, Exists
  <2>3. Entered(r) /\ Promised(r)
    BY <1>3, <2>1, <2>2 DEF GenerateLoad, Entered, Promised
  <2>4. Step(w, r, {}) /\ UNCHANGED rows
    BY <1>3, <2>1 DEF GenerateLoad
  <2> QED
    BY <2>3, <2>4, ReadsBalance
<1> QED
  BY <1>1, <1>2, <1>3

\* The actions on milestones that write.
LEMMA MilestoneWritesBalance ==
  ASSUME RowsAgree, RowsAgree', Finite, SumsInv, NEW w \in Request,
         \/ \E m \in Milestone : MilestoneInsert(w, m) \/ MilestoneDelete(w, m)
         \/ MilestonePatchSave(w)
  PROVE  Balances(w)
<1>0. /\ RowsTyped /\ RowsTyped' /\ req[w] \in Req /\ Amount \subseteq Nat
      /\ milestone \in [Milestone -> MilestoneRow]
  BY BillingAssumption DEF RowsAgree, TypeOK, RowsTyped, BillingAssumption
<1>1. ASSUME NEW m \in Milestone, NEW X, Step(w, Idle, X), <<"planned">> \in X,
             UNCHANGED <<invoice, payment, allocation>>,
             \A n \in Milestone \ {m} : milestone'[n] = milestone[n],
             Exists(milestone'[m]) => milestone'[m].amount \in Amount,
             \/ ActsLate
             \/ \E amount \in Nat : /\ Plans'[m] <= amount
                                    /\ \/ Fits(amount, Planned({})) \/ Fits(amount, Planned({m}))
                                       \/ amount = 0
      PROVE  Balances(w)
  <2>1. MoneyStays(X)
    BY <1>1, MilestoneMoney
  <2>2. SumsGo(w)
    BY <1>1, <2>1, NothingPromised DEF SumsGo, Idle
  <2>3. RowsEntered'
    BY <1>1 DEF SumsInv, RowsEntered
  <2>4. ASSUME NEW amount \in Nat, Plans'[m] <= amount,
               Fits(amount, Planned({})) \/ Fits(amount, Planned({m})) \/ amount = 0
        PROVE  AmountsMove
    <3>1. WithinBudget(Planned({}), Planned({})')
      BY <1>0, <1>1, <2>4, PlansWithin
    <3>2. Bills' = Bills /\ (\A i : Receipts(i)' = Receipts(i)) /\ (\A p : Shares(p)' = Shares(p))
      BY <1>1 DEF Bills, Receipts, Brings, Shares, Uses
    <3> QED
      BY <1>0, <3>1, <3>2, SameMoney DEF AmountsMove
  <2> QED
    BY <1>1, <2>2, <2>3, <2>4 DEF Balances
<1>2. ASSUME NEW m \in Milestone, MilestoneInsert(w, m)
      PROVE  Balances(w)
  <2>1. PICK amount \in Amount : amount = req[w].amount
    BY <1>0, <1>2, Shape DEF MilestoneInsert, At
  <2>2. PICK row : row = [NoMilestone EXCEPT !.state = "LIVE", !.amount = amount]
    OBVIOUS
  <2>3. row.amount = amount
    BY <2>2 DEF NoMilestone
  <2>4. milestone' = [milestone EXCEPT ![m] = row]
    BY <1>2, <2>1, <2>2 DEF MilestoneInsert
  <2>5. milestone'[m] = row /\ \A n \in Milestone \ {m} : milestone'[n] = milestone[n]
    BY <1>0, <2>4
  <2>6. Plans'[m] <= amount
    BY <1>0, <2>3, <2>5 DEF Plans
  <2>7. Step(w, Idle, {m, <<"planned">>}) /\ UNCHANGED <<invoice, payment, allocation>>
    BY <1>2 DEF MilestoneInsert
  <2>8. ActsLate \/ Fits(amount, Planned({}))
    <3>1. CASE w \in late
      <4>1. Idle # req[w]
        BY <1>2 DEF MilestoneInsert, At, Idle
      <4> QED
        BY <2>7, <3>1, <4>1, LateActs
    <3>2. CASE w \notin late
      BY <1>2, <2>1, <3>2 DEF MilestoneInsert, At, SumsInv, Promised
    <3> QED
      BY <3>1, <3>2
  <2> QED
    BY <1>0, <1>1, <2>3, <2>5, <2>6, <2>7, <2>8
<1>3. ASSUME NEW m \in Milestone, MilestoneDelete(w, m)
      PROVE  Balances(w)
  <2>1. PICK row : row = [milestone[m] EXCEPT !.state = "DELETED"]
    OBVIOUS
  <2>2. row.state = "DELETED" /\ row.amount = milestone[m].amount
    BY <1>0, <2>1 DEF MilestoneRow
  <2>3. milestone' = [milestone EXCEPT ![m] = row]
    BY <1>3, <2>1 DEF MilestoneDelete
  <2>4. milestone'[m] = row /\ \A n \in Milestone \ {m} : milestone'[n] = milestone[n]
    BY <1>0, <2>3
  <2>5. Plans'[m] = 0
    BY <2>2, <2>4 DEF Plans, Live
  <2>6. milestone[m].amount \in Amount
    BY <1>3 DEF MilestoneDelete, SumsInv, RowsEntered, Live, Exists
  <2>7. Step(w, Idle, {m, <<"planned">>}) /\ UNCHANGED <<invoice, payment, allocation>>
    BY <1>3 DEF MilestoneDelete
  <2>8. 0 \in Nat /\ Plans'[m] <= 0
    BY <2>5
  <2> QED
    BY <1>1, <2>2, <2>4, <2>6, <2>7, <2>8
<1>4. CASE MilestonePatchSave(w)
  <2>1. PICK m \in Milestone, row \in MilestoneRow : m = req[w].milestone /\ row = req[w].row
    BY <1>0, <1>4, Shape DEF MilestonePatchSave, At
  <2>2. row.amount \in Amount
    BY <1>4, <2>1 DEF MilestonePatchSave, At, SumsInv, Entered
  <2>3. milestone' = [milestone EXCEPT ![m] = row]
    BY <1>4, <2>1 DEF MilestonePatchSave
  <2>4. milestone'[m] = row /\ \A n \in Milestone \ {m} : milestone'[n] = milestone[n]
    BY <1>0, <2>3
  <2>5. PICK amount \in Nat : amount = row.amount
    BY <1>0, <2>2
  <2>6. Plans'[m] <= amount
    BY <2>4, <2>5 DEF Plans
  <2>7. Step(w, Idle, {m, <<"planned">>}) /\ UNCHANGED <<invoice, payment, allocation>>
    BY <1>4, <2>1 DEF MilestonePatchSave
  <2>8. ActsLate \/ Fits(amount, Planned({m}))
    <3>1. CASE w \in late
      <4>1. Idle # req[w]
        BY <1>4 DEF MilestonePatchSave, At, Idle
      <4> QED
        BY <2>7, <3>1, <4>1, LateActs
    <3>2. CASE w \notin late
      BY <1>4, <2>1, <2>5, <3>2 DEF MilestonePatchSave, At, SumsInv, Promised
    <3> QED
      BY <3>1, <3>2
  <2> QED
    BY <1>1, <2>2, <2>4, <2>5, <2>6, <2>7, <2>8
<1> QED
  BY <1>2, <1>3, <1>4

\* A step that changes no sum, invoice or payment.
LEMMA StandsStill ==
  ASSUME RowsAgree, RowsAgree', Finite, NEW w \in Request, NEW r, NEW X, Step(w, r, X),
         MoneyStays({}), RowsEntered', Entered(r), Promised(r)'
  PROVE  Balances(w)
<1>1. RowsTyped /\ RowsTyped'
  BY DEF RowsAgree, TypeOK
<1>2. AmountsMove
  BY <1>1, StillMoney
<1>3. MoneyStays(X)
  BY DEF MoneyStays
<1> QED
  BY <1>2, <1>3 DEF Balances, SumsGo

\* A deletion goes on as a deletion.
LEMMA StillDeleting ==
  ASSUME RowsAgree, NEW w \in Request, At(w, "Destroy"), NEW frames, NEW X,
         \/ Continue(w, frames, X)
         \/ \E x : Marked(w, x, frames, X)
         \/ \E x : Step(w, [req[w] EXCEPT !.todo = frames \o Tail(@), !.free = @ \cup {x}], X)
  PROVE  \E r : Step(w, r, X) /\ r.pc = "Destroy" /\ Entered(r) /\ Promised(r)'
<1>1. PICK q \in Req : q = req[w] /\ q.pc = "Destroy"
  BY DEF At, RowsAgree, TypeOK
<1>2. PICK t : t = frames \o Tail(q.todo)
  OBVIOUS
<1>3. ASSUME NEW r, r.pc = "Destroy"
      PROVE  Entered(r) /\ Promised(r)'
  BY <1>3 DEF Entered, Promised
<1>4. CASE Continue(w, frames, X)
  <2>1. PICK r : r = [q EXCEPT !.todo = t]
    OBVIOUS
  <2>2. r.pc = "Destroy"
    <3>1. r = [pc |-> "Destroy", todo |-> t, seen |-> q.seen, free |-> q.free]
      BY <1>1, <2>1, FramesNext
    <3> QED
      BY <3>1
  <2>3. Step(w, r, X)
    BY <1>1, <1>2, <1>4, <2>1 DEF Continue
  <2> QED
    BY <1>3, <2>2, <2>3
<1>5. ASSUME NEW x, Marked(w, x, frames, X)
      PROVE  \E r : Step(w, r, X) /\ r.pc = "Destroy" /\ Entered(r) /\ Promised(r)'
  <2>1. PICK e : e = q.seen \cup {x}
    OBVIOUS
  <2>2. PICK r : r = [q EXCEPT !.todo = t, !.seen = e]
    OBVIOUS
  <2>3. r.pc = "Destroy"
    <3>1. r = [pc |-> "Destroy", todo |-> t, seen |-> e, free |-> q.free]
      BY <1>1, <2>2, SeenNext
    <3> QED
      BY <3>1
  <2>4. Step(w, r, X)
    <3>1. Step(w, [req[w] EXCEPT !.todo = frames \o Tail(req[w].todo),
                                 !.seen = req[w].seen \cup {x}], X)
      BY <1>5 DEF Marked
    <3>2. [req[w] EXCEPT !.todo = frames \o Tail(req[w].todo), !.seen = req[w].seen \cup {x}] = r
      BY <1>1, <1>2, <2>1, <2>2
    <3> QED
      BY <3>1, <3>2
  <2> QED
    BY <1>3, <2>3, <2>4
<1>6. ASSUME NEW x, Step(w, [req[w] EXCEPT !.todo = frames \o Tail(@), !.free = @ \cup {x}], X)
      PROVE  \E r : Step(w, r, X) /\ r.pc = "Destroy" /\ Entered(r) /\ Promised(r)'
  <2>1. PICK e : e = q.free \cup {x}
    OBVIOUS
  <2>2. PICK r : r = [q EXCEPT !.todo = t, !.free = e]
    OBVIOUS
  <2>3. r.pc = "Destroy"
    <3>1. r = [pc |-> "Destroy", todo |-> t, seen |-> q.seen, free |-> e]
      BY <1>1, <2>2, FreeNext
    <3> QED
      BY <3>1
  <2>4. Step(w, r, X)
    BY <1>1, <1>2, <1>6, <2>1, <2>2
  <2> QED
    BY <1>3, <2>3, <2>4
<1> QED
  BY <1>4, <1>5, <1>6

\* A milestone's status is no money.
LEMMA StatusIsNoMoney ==
  ASSUME RowsTyped, RowsEntered, NEW m \in Milestone, NEW s,
         milestone' = [milestone EXCEPT ![m].status = s], UNCHANGED <<invoice, payment, allocation>>
  PROVE  MoneyStays({}) /\ RowsEntered'
<1>1. PICK row : row = [milestone[m] EXCEPT !.status = s]
  OBVIOUS
<1>2. milestone \in [Milestone -> MilestoneRow]
  BY DEF RowsTyped
<1>3. row.state = milestone[m].state /\ row.amount = milestone[m].amount
  BY <1>1, <1>2 DEF MilestoneRow
<1>4. milestone'[m] = row /\ \A n \in Milestone \ {m} : milestone'[n] = milestone[n]
  BY <1>1, <1>2
<1>5. \A n \in Milestone :
        milestone'[n].state = milestone[n].state /\ milestone'[n].amount = milestone[n].amount
  BY <1>3, <1>4
<1>6. Plans' = Plans
  BY <1>5 DEF Plans, Live
<1>7. RowsEntered'
  BY <1>5 DEF RowsEntered, Exists
<1> QED
  BY <1>6, <1>7, MilestoneMoney

\* The steps that write a milestone's status.
LEMMA StatusBalances ==
  ASSUME RowsAgree, RowsAgree', Finite, SumsInv, NEW w \in Request,
         GenerateMark(w) \/ MarkPaid(w) \/ DestroyReset(w)
  PROVE  Balances(w)
<1>1. RowsTyped /\ RowsEntered /\ req[w] \in Req
  BY DEF RowsAgree, TypeOK, SumsInv
<1>2. CASE GenerateMark(w)
  <2>1. PICK m \in Milestone : m = req[w].milestone
    BY <1>1, <1>2, Shape DEF GenerateMark, At
  <2>2. MoneyStays({}) /\ RowsEntered'
    BY <1>1, <1>2, <2>1, StatusIsNoMoney DEF GenerateMark
  <2>3. Step(w, Idle, {m})
    BY <1>2, <2>1 DEF GenerateMark
  <2> QED
    BY <2>2, <2>3, StandsStill, NothingPromised DEF Idle
<1>3. CASE MarkPaid(w)
  <2>1. PICK m \in Milestone : m = req[w].milestone
    BY <1>1, <1>3, Shape DEF MarkPaid, At
  <2>2. MoneyStays({}) /\ RowsEntered'
    BY <1>1, <1>3, <2>1, StatusIsNoMoney DEF MarkPaid
  <2>3. Step(w, Idle, {m})
    BY <1>3, <2>1 DEF MarkPaid
  <2> QED
    BY <2>2, <2>3, StandsStill, NothingPromised DEF Idle
<1>4. CASE DestroyReset(w)
  <2>1. At(w, "Destroy") /\ req[w].todo # <<>> /\ Head(req[w].todo).do = "reset"
    BY <1>4 DEF DestroyReset, Destroying
  <2>2. Head(req[w].todo) \in Frames
    BY <2>1, OnFrame
  <2>3. PICK m \in Milestone : m = Head(req[w].todo).on
    BY <2>1, <2>2, FramesAre
  <2>4. MoneyStays({}) /\ RowsEntered'
    BY <1>1, <1>4, <2>3, StatusIsNoMoney DEF DestroyReset
  <2>5. Continue(w, <<>>, {m})
    BY <1>4, <2>3 DEF DestroyReset
  <2>6. PICK r : Step(w, r, {m}) /\ Entered(r) /\ Promised(r)'
    BY <2>1, <2>5, StillDeleting
  <2> QED
    BY <2>4, <2>6, StandsStill
<1> QED
  BY <1>2, <1>3, <1>4

\* Invoices are written.
LEMMA InvoiceWriteBalances ==
  ASSUME RowsAgree, RowsAgree', Finite, SumsInv, NEW w \in Request, NEW i \in Invoice,
         NEW r, NEW X, Step(w, r, X), i \in X, <<"billed">> \in X, Entered(r), Promised(r)',
         UNCHANGED <<milestone, payment, allocation>>,
         \A j \in Invoice \ {i} : invoice'[j] = invoice[j],
         Exists(invoice'[i]) => invoice'[i].amount \in Amount,
         \/ ActsLate
         \/ \E amount \in Nat : /\ Bills'[i] <= amount
                                /\ \/ Fits(amount, Billed({})) \/ Fits(amount, Billed({i}))
                                   \/ amount = 0
  PROVE  Balances(w)
<1>1. RowsTyped /\ RowsTyped'
  BY DEF RowsAgree, TypeOK
<1>2. MoneyStays(X)
  BY InvoiceMoney
<1>3. SumsGo(w)
  BY <1>2 DEF SumsGo
<1>4. RowsEntered'
  BY DEF SumsInv, RowsEntered
<1>5. ASSUME NEW amount \in Nat, Bills'[i] <= amount,
             Fits(amount, Billed({})) \/ Fits(amount, Billed({i})) \/ amount = 0
      PROVE  AmountsMove
  <2>1. WithinBudget(Billed({}), Billed({})')
    BY <1>1, <1>5, BillsWithin
  <2>2. Plans' = Plans /\ (\A j : Receipts(j)' = Receipts(j)) /\ (\A p : Shares(p)' = Shares(p))
    BY DEF Plans, Receipts, Brings, Shares, Uses
  <2> QED
    BY <1>1, <2>1, <2>2, SameMoney DEF AmountsMove
<1> QED
  BY <1>3, <1>4, <1>5 DEF Balances

\* The actions on invoices that read.
LEMMA InvoiceReadsBalance ==
  ASSUME RowsAgree, RowsAgree', Finite, SumsInv, NEW w \in Request,
         \/ \E amount \in Amount, m \in Milestone \cup {None} : InvoiceCheck(w, amount, m)
         \/ \E i \in Invoice, amount \in Amount, m \in Milestone \cup {None} :
              InvoicePatchLoad(w, i, amount, m)
         \/ \E i \in Invoice : CancelLoad(w, i)
  PROVE  Balances(w)
<1>1. ASSUME NEW amount \in Amount, NEW m \in Milestone \cup {None}, InvoiceCheck(w, amount, m)
      PROVE  Balances(w)
  <2>1. PICK r : r = [pc |-> "Invoice", amount |-> amount, milestone |-> m]
    OBVIOUS
  <2>2. Entered(r) /\ Promised(r)
    BY <1>1, <2>1 DEF InvoiceCheck, Entered, Promised
  <2>3. Step(w, r, {}) /\ UNCHANGED rows
    BY <1>1, <2>1 DEF InvoiceCheck
  <2> QED
    BY <2>2, <2>3, ReadsBalance
<1>2. ASSUME NEW i \in Invoice, NEW amount \in Amount, NEW m \in Milestone \cup {None},
             InvoicePatchLoad(w, i, amount, m)
      PROVE  Balances(w)
  <2>1. PICK row : row = [invoice[i] EXCEPT !.amount = amount, !.milestone = m]
    OBVIOUS
  <2>2. row.amount = amount
    BY <2>1 DEF RowsAgree, TypeOK, RowsTyped, InvoiceRow
  <2>3. PICK r : r = [pc |-> "PatchInvoice", invoice |-> i, row |-> row]
    OBVIOUS
  <2>4. Entered(r) /\ Promised(r)
    BY <1>2, <2>2, <2>3 DEF InvoicePatchLoad, Entered, Promised
  <2>5. Step(w, r, {}) /\ UNCHANGED rows
    BY <1>2, <2>1, <2>3 DEF InvoicePatchLoad
  <2> QED
    BY <2>4, <2>5, ReadsBalance
<1>3. ASSUME NEW i \in Invoice, CancelLoad(w, i)
      PROVE  Balances(w)
  <2>1. PICK r : r = [pc |-> "Cancel", invoice |-> i]
    OBVIOUS
  <2>2. Entered(r) /\ Promised(r)
    BY <2>1 DEF Entered, Promised
  <2>3. Step(w, r, {}) /\ UNCHANGED rows
    BY <1>3, <2>1 DEF CancelLoad
  <2> QED
    BY <2>2, <2>3, ReadsBalance
<1> QED
  BY <1>1, <1>2, <1>3

\* An invoice is made, of a milestone or by hand.
LEMMA InvoiceMadeBalances ==
  ASSUME RowsAgree, RowsAgree', Finite, SumsInv, NEW w \in Request, NEW i \in Invoice,
         GenerateInvoice(w, i) \/ InvoiceInsert(w, i)
  PROVE  Balances(w)
<1>1. /\ req[w] \in Req /\ Amount \subseteq Nat /\ invoice \in [Invoice -> InvoiceRow]
      /\ At(w, "Bill") \/ At(w, "Invoice")
  BY BillingAssumption DEF RowsAgree, TypeOK, RowsTyped, BillingAssumption, GenerateInvoice,
     InvoiceInsert
<1>2. PICK amount \in Amount : amount = req[w].amount
  BY <1>1, Shape DEF SumsInv, Entered, At
<1>3. PICK m : m = req[w].milestone
  OBVIOUS
<1>4. PICK row : row = [NoInvoice EXCEPT !.state = "LIVE", !.amount = amount, !.milestone = m]
  OBVIOUS
<1>5. row.amount = amount /\ row.cancelled = FALSE
  BY <1>4 DEF NoInvoice
<1>6. invoice' = [invoice EXCEPT ![i] = row]
  BY <1>2, <1>3, <1>4 DEF GenerateInvoice, InvoiceInsert
<1>7. invoice'[i] = row /\ \A j \in Invoice \ {i} : invoice'[j] = invoice[j]
  BY <1>1, <1>6
<1>8. Bills'[i] <= amount /\ amount \in Nat
  BY <1>1, <1>5, <1>7 DEF Bills
<1>9. PICK r, X : /\ Step(w, r, X) /\ i \in X /\ <<"billed">> \in X /\ r.pc \in {"Idle", "Billed"}
                  /\ r # req[w]
  <2>1. CASE GenerateInvoice(w, i)
    <3>1. PICK r : r = [pc |-> "Billed", milestone |-> m, paid |-> {}]
      OBVIOUS
    <3>2. Step(w, r, {i, m, <<"billed">>}) /\ r.pc = "Billed" /\ req[w].pc = "Bill"
      BY <1>3, <2>1, <3>1 DEF GenerateInvoice, At
    <3> QED
      BY <3>2
  <2>2. CASE InvoiceInsert(w, i)
    <3>1. Step(w, Idle, {i, m, <<"billed">>}) /\ Idle.pc = "Idle" /\ req[w].pc = "Invoice"
      BY <1>3, <2>2 DEF InvoiceInsert, At, Idle
    <3> QED
      BY <3>1
  <2> QED
    BY <2>1, <2>2
<1>10. Entered(r) /\ Promised(r)'
  BY <1>9 DEF Entered, Promised
<1>11. ActsLate \/ Fits(amount, Billed({}))
  <2>1. CASE w \in late
    BY <1>9, <2>1, LateActs
  <2>2. CASE w \notin late
    BY <1>1, <1>2, <2>2 DEF At, SumsInv, Promised
  <2> QED
    BY <2>1, <2>2
<1>12. UNCHANGED <<milestone, payment, allocation>>
  BY DEF GenerateInvoice, InvoiceInsert
<1> QED
  BY <1>5, <1>7, <1>8, <1>9, <1>10, <1>11, <1>12, InvoiceWriteBalances

\* An invoice is changed, cancelled or deleted.
LEMMA InvoiceChangedBalances ==
  ASSUME RowsAgree, RowsAgree', Finite, SumsInv, NEW w \in Request,
         InvoicePatchSave(w) \/ CancelSave(w) \/ DestroyInvoice(w)
  PROVE  Balances(w)
<1>1. req[w] \in Req /\ Amount \subseteq Nat /\ invoice \in [Invoice -> InvoiceRow]
  BY BillingAssumption DEF RowsAgree, TypeOK, RowsTyped, BillingAssumption
<1>2. ASSUME NEW i \in Invoice, NEW row, invoice' = [invoice EXCEPT ![i] = row]
      PROVE  invoice'[i] = row /\ \A j \in Invoice \ {i} : invoice'[j] = invoice[j]
  BY <1>1, <1>2
<1>3. ASSUME NEW i \in Invoice, NEW r, NEW X, Step(w, r, X), i \in X, <<"billed">> \in X,
             Entered(r), Promised(r)', UNCHANGED <<milestone, payment, allocation>>,
             NEW row, invoice' = [invoice EXCEPT ![i] = row],
             row.amount = invoice[i].amount, Exists(row) => Exists(invoice[i]),
             row.cancelled \/ ~ Live(row)
      PROVE  Balances(w)
  <2>1. invoice'[i] = row /\ \A j \in Invoice \ {i} : invoice'[j] = invoice[j]
    BY <1>2, <1>3
  <2>2. Exists(row) => row.amount \in Amount
    BY <1>3 DEF SumsInv, RowsEntered
  <2>3. Bills'[i] <= 0 /\ 0 \in Nat
    BY <1>3, <2>1 DEF Bills
  <2> QED
    BY <1>3, <2>1, <2>2, <2>3, InvoiceWriteBalances
<1>4. CASE InvoicePatchSave(w)
  <2>1. PICK i \in Invoice, row \in InvoiceRow : i = req[w].invoice /\ row = req[w].row
    BY <1>1, <1>4, Shape DEF InvoicePatchSave, At
  <2>2. row.amount \in Amount
    BY <1>4, <2>1 DEF InvoicePatchSave, At, SumsInv, Entered
  <2>3. invoice' = [invoice EXCEPT ![i] = row] /\ UNCHANGED <<milestone, payment, allocation>>
    BY <1>4, <2>1 DEF InvoicePatchSave
  <2>4. invoice'[i] = row /\ \A j \in Invoice \ {i} : invoice'[j] = invoice[j]
    BY <1>2, <2>3
  <2>5. PICK amount \in Nat : amount = row.amount
    BY <1>1, <2>2
  <2>6. Bills'[i] <= amount
    BY <2>4, <2>5 DEF Bills
  <2>7. PICK X : X = {i, invoice[i].milestone, row.milestone, <<"billed">>}
    OBVIOUS
  <2>8. Step(w, Idle, X)
    BY <1>4, <2>1, <2>7 DEF InvoicePatchSave
  <2>9. ActsLate \/ Fits(amount, Billed({i}))
    <3>1. CASE w \in late
      <4>1. Idle # req[w]
        BY <1>4 DEF InvoicePatchSave, At, Idle
      <4> QED
        BY <2>8, <3>1, <4>1, LateActs
    <3>2. CASE w \notin late
      BY <1>4, <2>1, <2>5, <3>2 DEF InvoicePatchSave, At, SumsInv, Promised
    <3> QED
      BY <3>1, <3>2
  <2>10. Entered(Idle) /\ Promised(Idle)'
    BY DEF Entered, Promised, Idle
  <2> QED
    BY <2>2, <2>3, <2>4, <2>6, <2>7, <2>8, <2>9, <2>10, InvoiceWriteBalances
<1>5. CASE CancelSave(w)
  <2>1. PICK i \in Invoice : i = req[w].invoice
    BY <1>1, <1>5, Shape DEF CancelSave, At
  <2>2. PICK row : row = [invoice[i] EXCEPT !.cancelled = TRUE]
    OBVIOUS
  <2>3. row.amount = invoice[i].amount /\ row.state = invoice[i].state /\ row.cancelled
    BY <1>1, <2>2 DEF InvoiceRow
  <2>4. invoice' = [invoice EXCEPT ![i] = row] /\ UNCHANGED <<milestone, payment, allocation>>
    BY <1>5, <2>1, <2>2 DEF CancelSave
  <2>5. PICK X : X = {i, invoice[i].milestone, <<"billed">>}
    OBVIOUS
  <2>6. Step(w, Idle, X)
    BY <1>5, <2>1, <2>5 DEF CancelSave
  <2>7. Entered(Idle) /\ Promised(Idle)'
    BY DEF Entered, Promised, Idle
  <2> QED
    BY <1>3, <2>3, <2>4, <2>5, <2>6, <2>7 DEF Exists
<1>6. CASE DestroyInvoice(w)
  <2>1. At(w, "Destroy") /\ req[w].todo # <<>> /\ Head(req[w].todo).do = "invoice"
    BY <1>6 DEF DestroyInvoice, Destroying
  <2>2. Head(req[w].todo) \in Frames
    BY <2>1, OnFrame
  <2>3. PICK i \in Invoice : i = Head(req[w].todo).on
    BY <2>1, <2>2, FramesAre
  <2>4. PICK row : row = [invoice[i] EXCEPT !.state = "DELETED"]
    OBVIOUS
  <2>5. row.amount = invoice[i].amount /\ row.state = "DELETED"
    BY <1>1, <2>4 DEF InvoiceRow
  <2>6. invoice' = [invoice EXCEPT ![i] = row] /\ UNCHANGED <<milestone, payment, allocation>>
    BY <1>6, <2>3, <2>4 DEF DestroyInvoice
  <2>7. PICK X : X = {i, invoice[i].milestone, <<"billed">>}
    OBVIOUS
  <2>8. \E frames : Marked(w, i, frames, X)
    BY <1>6, <2>3, <2>7 DEF DestroyInvoice
  <2>9. PICK r : Step(w, r, X) /\ Entered(r) /\ Promised(r)'
    BY <2>1, <2>8, StillDeleting
  <2>10. Exists(invoice[i])
    BY <2>1, <2>3, OnFrame DEF Linked, Leads
  <2>11. i \in X /\ <<"billed">> \in X /\ ~ Live(row)
    BY <2>5, <2>7 DEF Live
  <2> QED
    BY <1>3, <2>5, <2>6, <2>9, <2>10, <2>11
<1> QED
  BY <1>4, <1>5, <1>6

\* The actions on allocations that read.
LEMMA AllocationReadsBalance ==
  ASSUME RowsAgree, RowsAgree', Finite, SumsInv, NEW w \in Request,
         \/ \E p, q \in Payment, i \in Invoice, amount \in Amount, s \in BOOLEAN :
              AllocateLoad(w, p, q, i, amount, s)
         \/ \E a \in Allocation, p \in Payment, i \in Invoice, amount \in Amount :
              AllocationPatchLoad(w, a, p, i, amount)
         \/ Settle(w)
  PROVE  Balances(w)
<1>1. ASSUME NEW p \in Payment, NEW q \in Payment, NEW i \in Invoice, NEW amount \in Amount,
             NEW s \in BOOLEAN, AllocateLoad(w, p, q, i, amount, s)
      PROVE  Balances(w)
  <2>1. PICK row : row = [state |-> "LIVE", payment |-> p, invoice |-> i, amount |-> amount]
    OBVIOUS
  <2>2. row.amount = amount /\ row.payment = p /\ row.invoice = i
    BY <2>1
  <2>3. PICK r : r = [pc |-> "Allocate", row |-> row, checked |-> q, bill |-> invoice[i],
                      settles |-> s]
    OBVIOUS
  <2>4. Entered(r) /\ Promised(r)
    BY <1>1, <2>2, <2>3 DEF AllocateLoad, Entered, Promised
  <2>5. Step(w, r, {}) /\ UNCHANGED rows
    BY <1>1, <2>1, <2>3 DEF AllocateLoad
  <2> QED
    BY <2>4, <2>5, ReadsBalance
<1>2. ASSUME NEW a \in Allocation, NEW p \in Payment, NEW i \in Invoice, NEW amount \in Amount,
             AllocationPatchLoad(w, a, p, i, amount)
      PROVE  Balances(w)
  <2>1. allocation[a] \in AllocationRow
    BY <1>2, AllocationIs DEF AllocationPatchLoad, Live, Exists, RowsAgree, TypeOK
  <2>2. PICK row : row = [allocation[a] EXCEPT !.payment = p, !.invoice = i, !.amount = amount]
    OBVIOUS
  <2>3. row.amount = amount /\ row.payment = p /\ row.invoice = i
    BY <2>1, <2>2 DEF AllocationRow
  <2>4. PICK r : r = [pc |-> "PatchAllocation", allocation |-> a, row |-> row]
    OBVIOUS
  <2>5. Entered(r) /\ Promised(r)
    BY <1>2, <2>3, <2>4 DEF AllocationPatchLoad, Entered, Promised
  <2>6. Step(w, r, {}) /\ UNCHANGED rows
    BY <1>2, <2>2, <2>4 DEF AllocationPatchLoad
  <2> QED
    BY <2>5, <2>6, ReadsBalance
<1>3. CASE Settle(w)
  <2>1. PICK r : Step(w, r, {}) /\ r.pc \in {"MarkPaid", "Idle"} /\ UNCHANGED rows
    <3>1. PICK r : /\ Step(w, r, {}) /\ UNCHANGED rows
                   /\ r = IF Settles(req[w].invoice, req[w].bill)
                          THEN [pc |-> "MarkPaid", milestone |-> req[w].bill.milestone,
                                paid |-> {req[w].invoice, <<"received", req[w].invoice>>}]
                          ELSE Idle
      BY <1>3 DEF Settle
    <3>2. r.pc \in {"MarkPaid", "Idle"}
      BY <3>1 DEF Idle
    <3> QED
      BY <3>1, <3>2
  <2>2. Entered(r) /\ Promised(r)
    BY <2>1 DEF Entered, Promised
  <2> QED
    BY <2>1, <2>2, ReadsBalance
<1> QED
  BY <1>1, <1>2, <1>3

\* The actions on payments that read.
LEMMA PaymentReadsBalance ==
  ASSUME RowsAgree, RowsAgree', Finite, SumsInv, NEW w \in Request,
         \/ \E amount \in Amount, entries \in Entries : PayCheck(w, amount, entries)
         \/ PayRead(w)
         \/ \E p \in Payment, amount \in Amount : PaymentPatchLoad(w, p, amount)
  PROVE  Balances(w)
<1>1. ASSUME NEW amount \in Amount, NEW entries \in Entries, PayCheck(w, amount, entries)
      PROVE  Balances(w)
  <2>1. PICK r : r = [pc |-> "Pay", amount |-> amount, new |-> entries,
                      entries |-> {entries[a] : a \in DOMAIN entries}]
    OBVIOUS
  <2>2. r.pc = "Pay" /\ r.amount = amount /\ r.new = entries
    BY <2>1
  <2>3. Entered(r)
    BY <1>1, <2>2 DEF PayCheck, Entered
  <2>4. Promised(r)
    BY <1>1, <2>2 DEF PayCheck, Promised
  <2>5. Step(w, r, {}) /\ UNCHANGED rows
    BY <1>1, <2>1 DEF PayCheck
  <2> QED
    BY <2>3, <2>4, <2>5, ReadsBalance
<1>2. ASSUME NEW p \in Payment, NEW amount \in Amount, PaymentPatchLoad(w, p, amount)
      PROVE  Balances(w)
  <2>1. PICK r : r = [pc |-> "PatchPayment", payment |-> p,
                      row |-> [payment[p] EXCEPT !.amount = amount]]
    OBVIOUS
  <2>2. r.pc = "PatchPayment" /\ r.payment = p
    BY <2>1
  <2>3. Entered(r) /\ Promised(r)
    BY <1>2, <2>2 DEF PaymentPatchLoad, Entered, Promised
  <2>4. Step(w, r, {}) /\ UNCHANGED rows
    BY <1>2, <2>1 DEF PaymentPatchLoad
  <2> QED
    BY <2>3, <2>4, ReadsBalance
<1>3. CASE PayRead(w)
  <2>1. PICK r : r = [pc |-> "Entered", amount |-> req[w].amount, new |-> req[w].new,
                      entries |-> req[w].entries, paid |-> SettledBy(req[w].new)]
    OBVIOUS
  <2>2. r.pc = "Entered" /\ r.amount = req[w].amount /\ r.new = req[w].new
    BY <2>1
  <2>3. req[w].pc = "Pay"
    BY <1>3 DEF PayRead, At
  <2>4. Entered(r)
    BY <2>2, <2>3 DEF SumsInv, Entered
  <2>5. w \notin late => Promised(r)
    BY <2>2, <2>3 DEF SumsInv, Promised
  <2>6. Step(w, r, {}) /\ UNCHANGED rows
    BY <1>3, <2>1 DEF PayRead
  <2> QED
    BY <2>4, <2>5, <2>6, ReadsBalance
<1> QED
  BY <1>1, <1>2, <1>3

\* The steps of a deletion that read, and the ends of requests.
LEMMA DeletionReadsBalance ==
  ASSUME RowsAgree, RowsAgree', Finite, SumsInv, NEW w \in Request,
         \/ \E i \in Invoice : InvoiceDestroy(w, i)
         \/ \E p \in Payment : PaymentDestroy(w, p)
         \/ DestroyRelease(w) \/ DestroyList(w) \/ DestroyEnd(w) \/ Die(w)
  PROVE  Balances(w)
<1>1. ASSUME NEW r, Step(w, r, {}), r.pc \in {"Idle", "Destroy"}, UNCHANGED rows
      PROVE  Balances(w)
  <2>1. Entered(r) /\ Promised(r)
    BY <1>1 DEF Entered, Promised
  <2> QED
    BY <1>1, <2>1, ReadsBalance
<1>2. ASSUME NEW frame, DestroyStart(w, frame)
      PROVE  Balances(w)
  <2>1. PICK r : r = [pc |-> "Destroy", todo |-> <<frame>>, seen |-> {}, free |-> {}]
    OBVIOUS
  <2>2. r.pc = "Destroy" /\ Step(w, r, {}) /\ UNCHANGED rows
    BY <1>2, <2>1 DEF DestroyStart
  <2> QED
    BY <1>1, <2>2
<1>3. CASE DestroyRelease(w)
  <2>1. At(w, "Destroy") /\ UNCHANGED rows
    BY <1>3 DEF DestroyRelease, Destroying
  <2>2. \E frames : \/ Continue(w, frames, {})
                    \/ \E x : Step(w, [req[w] EXCEPT !.todo = frames \o Tail(@),
                                                     !.free = @ \cup {x}], {})
    BY <1>3 DEF DestroyRelease
  <2>3. PICK r : Step(w, r, {}) /\ r.pc = "Destroy"
    BY <2>1, <2>2, StillDeleting
  <2> QED
    BY <1>1, <2>1, <2>3
<1>4. CASE DestroyList(w)
  <2>1. At(w, "Destroy") /\ UNCHANGED rows /\ \E frames : Continue(w, frames, {})
    BY <1>4 DEF DestroyList, Destroying
  <2>2. PICK r : Step(w, r, {}) /\ r.pc = "Destroy"
    BY <2>1, StillDeleting
  <2> QED
    BY <1>1, <2>1, <2>2
<1>5. CASE DestroyEnd(w) \/ Die(w)
  <2>1. Step(w, Idle, {}) /\ UNCHANGED rows
    BY <1>5 DEF DestroyEnd, Die, Step
  <2>2. Idle.pc = "Idle"
    BY DEF Idle
  <2> QED
    BY <1>1, <2>1, <2>2
<1> QED
  BY <1>2, <1>3, <1>4, <1>5 DEF InvoiceDestroy, PaymentDestroy

\* Payments are changed and deleted.
LEMMA PaymentChangedBalances ==
  ASSUME RowsAgree, RowsAgree', Finite, SumsInv, NEW w \in Request,
         PaymentPatchSave(w) \/ DestroyPayment(w)
  PROVE  Balances(w)
<1>1. /\ req[w] \in Req /\ payment \in [Payment -> PaymentRow] /\ RowsTyped /\ RowsTyped'
      /\ KeysExist /\ Linked(req[w])
  BY Before DEF RowsAgree, TypeOK, RowsTyped
<1>2. UNCHANGED <<milestone, invoice, allocation>>
  BY DEF PaymentPatchSave, DestroyPayment
<1>3. /\ Bills' = Bills /\ Plans' = Plans /\ (\A q : Shares(q)' = Shares(q))
      /\ RowsEntered'
  BY <1>2 DEF Bills, Plans, Shares, Uses, SumsInv, RowsEntered
<1>4. ASSUME NEW p \in Payment, NEW row, payment' = [payment EXCEPT ![p] = row], NEW r,
             Step(w, r, {p} \cup {<<"received", allocation[a].invoice>> : a \in AllocationsOf(p)}),
             Entered(r), Promised(r)'
      PROVE  /\ SumsGo(w) /\ payment'[p] = row
             /\ \A q \in Payment \ {p} : payment'[q] = payment[q]
  <2>1. PICK X : X = {p} \cup {<<"received", allocation[a].invoice>> : a \in AllocationsOf(p)}
    OBVIOUS
  <2>2. /\ p \in X /\ {<<"received", allocation[a].invoice>> : a \in AllocationsOf(p)} \subseteq X
    BY <2>1
  <2>3. payment'[p] = row /\ \A q \in Payment \ {p} : payment'[q] = payment[q]
    BY <1>1, <1>4
  <2>4. MoneyStays(X)
    BY <1>1, <1>2, <2>2, <2>3, PaymentMoney
  <2> QED
    BY <1>4, <2>1, <2>3, <2>4 DEF SumsGo
<1>5. CASE PaymentPatchSave(w)
  <2>1. PICK p \in Payment : p = req[w].payment
    BY <1>1, <1>5, Shape DEF PaymentPatchSave, At
  <2>2. PICK row : row = req[w].row /\ row.state = "LIVE"
    BY <1>1, <1>5 DEF PaymentPatchSave, At, Linked
  <2>3. /\ payment' = [payment EXCEPT ![p] = row]
        /\ Step(w, Idle, {p} \cup {<<"received", allocation[a].invoice>> : a \in AllocationsOf(p)})
    BY <1>5, <2>1, <2>2 DEF PaymentPatchSave
  <2>4. Entered(Idle) /\ Promised(Idle)'
    BY DEF Entered, Promised, Idle
  <2>5. /\ SumsGo(w) /\ payment'[p] = row
        /\ \A q \in Payment \ {p} : payment'[q] = payment[q]
    BY <1>4, <2>3, <2>4
  <2>6. CASE w \in late
    <3>1. Idle # req[w]
      BY <1>5 DEF PaymentPatchSave, At, Idle
    <3>2. ActsLate
      BY <2>3, <2>6, <3>1, LateActs
    <3> QED
      BY <1>3, <2>5, <3>2 DEF Balances
  <2>7. CASE w \notin late
    <3>1. Live(payment[p])
      BY <1>5, <2>1, <2>7 DEF SumsInv, Promised, PaymentPatchSave, At
    <3>2. \A q \in Payment : Live(payment'[q]) <=> Live(payment[q])
      BY <2>2, <2>5, <3>1 DEF Live
    <3>3. ASSUME NEW i
          PROVE  Receipts(i)' = Receipts(i)
      <4>1. ASSUME NEW a \in Allocation
            PROVE  Brings(a, i)' <=> Brings(a, i)
        <5>1. Exists(allocation[a]) => allocation[a].payment \in Payment
          BY <1>1, AllocationIs DEF AllocationRow
        <5> QED
          BY <1>2, <3>2, <5>1 DEF Brings
      <4> QED
        BY <1>2, <4>1 DEF Receipts
    <3>4. AmountsMove
      BY <1>1, <1>3, <3>3, SameMoney DEF AmountsMove
    <3> QED
      BY <1>3, <2>5, <3>4 DEF Balances
  <2> QED
    BY <2>6, <2>7
<1>6. CASE DestroyPayment(w)
  <2>1. At(w, "Destroy") /\ req[w].todo # <<>> /\ Head(req[w].todo).do = "payment"
    BY <1>6 DEF DestroyPayment, Destroying
  <2>2. Head(req[w].todo) \in Frames
    BY <2>1, OnFrame
  <2>3. PICK p \in Payment : p = Head(req[w].todo).on
    BY <2>1, <2>2, FramesAre
  <2>4. PICK row : row = [payment[p] EXCEPT !.state = "DELETED"]
    OBVIOUS
  <2>5. row.state = "DELETED"
    BY <1>1, <2>4 DEF PaymentRow
  <2>6. payment' = [payment EXCEPT ![p] = row]
    BY <1>6, <2>3, <2>4 DEF DestroyPayment
  <2>7. PICK X : X = {p} \cup {<<"received", allocation[a].invoice>> : a \in AllocationsOf(p)}
    OBVIOUS
  <2>8. \E frames : Marked(w, p, frames, X)
    BY <1>6, <2>3, <2>7 DEF DestroyPayment
  <2>9. PICK r : Step(w, r, X) /\ Entered(r) /\ Promised(r)'
    BY <2>1, <2>8, StillDeleting
  <2>10. /\ SumsGo(w) /\ payment'[p] = row
         /\ \A q \in Payment \ {p} : payment'[q] = payment[q]
    BY <1>4, <2>6, <2>7, <2>9
  <2>11. ASSUME NEW i \in Invoice
         PROVE  ~ Received(i, {})' > Received(i, {})
    <3>1. PICK h, g : h = Receipts(i) /\ g = Receipts(i)'
      OBVIOUS
    <3>2. h \in [Allocation -> Nat] /\ g \in [Allocation -> Nat]
      BY <1>1, <3>1, MoneyIsNat, MoneyIsNatNext
    <3>3. ASSUME NEW a \in Allocation
          PROVE  g[a] <= h[a]
      <4>1. Exists(allocation[a]) => allocation[a].payment \in Payment
        BY <1>1, AllocationIs DEF AllocationRow
      <4>2. Brings(a, i)' => Brings(a, i)
        BY <1>2, <2>5, <2>10, <4>1 DEF Brings, Live
      <4>3. g[a] = h[a] \/ g[a] = 0
        BY <1>2, <3>1, <4>2 DEF Receipts
      <4> QED
        BY <3>2, <4>3
    <3> QED
      BY <1>1, <3>1, <3>3, ReceiptsFall
  <2>12. AmountsMove
    BY <1>1, <1>3, <2>11, SameMoney DEF AmountsMove
  <2> QED
    BY <1>3, <2>10, <2>12 DEF Balances
<1> QED
  BY <1>5, <1>6

\* The total of an invoice that exists.
LEMMA TotalIs ==
  ASSUME RowsTyped, RowsEntered, NEW i \in Invoice, Exists(invoice[i])
  PROVE  Total(invoice[i]) \in Nat
<1>1. PICK amount \in Amount : amount = invoice[i].amount
  BY DEF RowsEntered
<1>2. PICK n \in Nat, t \in Nat : n = amount /\ t = Tax[amount]
  BY BillingAssumption DEF BillingAssumption
<1>3. n + t \in Nat
  OBVIOUS
<1> QED
  BY <1>1, <1>2, <1>3 DEF Total

\* What an allocation that is written brings: its amount, to the invoice and of
\* the payment it is of now.
LEMMA AllocationWritten ==
  ASSUME RowsTyped, NEW a \in Allocation, NEW row \in AllocationRow,
         UNCHANGED <<milestone, invoice, payment>>, allocation' = [allocation EXCEPT ![a] = row]
  PROVE  /\ \A i : \A b \in Allocation \ {a} : Receipts(i)'[b] = Receipts(i)[b]
         /\ \A p : \A b \in Allocation \ {a} : Shares(p)'[b] = Shares(p)[b]
         /\ \A i : Receipts(i)'[a] \in {row.amount, 0}
         /\ \A p : Shares(p)'[a] \in {row.amount, 0}
         /\ \A i : i # row.invoice => Receipts(i)'[a] = 0
         /\ \A p : p # row.payment => Shares(p)'[a] = 0
<1>1. allocation'[a] = row /\ \A b \in Allocation \ {a} : allocation'[b] = allocation[b]
  BY DEF RowsTyped
<1>2. ASSUME NEW i, NEW b \in Allocation \ {a}
      PROVE  Receipts(i)'[b] = Receipts(i)[b]
  BY <1>1 DEF Receipts, Brings, Exists
<1>3. ASSUME NEW p, NEW b \in Allocation \ {a}
      PROVE  Shares(p)'[b] = Shares(p)[b]
  BY <1>1 DEF Shares, Uses, Exists
<1>4. ASSUME NEW i
      PROVE  Receipts(i)'[a] \in {row.amount, 0} /\ (i # row.invoice => Receipts(i)'[a] = 0)
  BY <1>1 DEF Receipts, Brings
<1>5. ASSUME NEW p
      PROVE  Shares(p)'[a] \in {row.amount, 0} /\ (p # row.payment => Shares(p)'[a] = 0)
  BY <1>1 DEF Shares, Uses
<1> QED
  BY <1>2, <1>3, <1>4, <1>5

\* It changes the books of the payment and the invoice it was of, and of those
\* it is of now.
LEMMA AllocationBooks ==
  ASSUME RowsTyped, NEW a \in Allocation, NEW row \in AllocationRow, NEW X,
         Books(row.payment, row.invoice) \subseteq X,
         Exists(allocation[a]) => Books(allocation[a].payment, allocation[a].invoice) \subseteq X,
         UNCHANGED <<milestone, invoice, payment>>, allocation' = [allocation EXCEPT ![a] = row]
  PROVE  MoneyStays(X)
<1>1. <<"received", row.invoice>> \in X /\ <<"allocated", row.payment>> \in X
  BY DEF Books
<1>2. ASSUME NEW i \in Invoice, <<"received", i>> \notin X
      PROVE  Receipts(i)' = Receipts(i)
  <2>1. Receipts(i)'[a] = 0
    BY <1>1, <1>2, AllocationWritten
  <2>2. ~ Brings(a, i)
    BY <1>2 DEF Brings, Books
  <2>3. Receipts(i)[a] = 0
    BY <2>2 DEF Receipts
  <2>4. \A b \in Allocation \ {a} : Receipts(i)'[b] = Receipts(i)[b]
    BY AllocationWritten
  <2>5. \A b \in Allocation : Receipts(i)'[b] = Receipts(i)[b]
    BY <2>1, <2>3, <2>4
  <2> QED
    BY <2>5 DEF Receipts
<1>3. ASSUME NEW p \in Payment, <<"allocated", p>> \notin X
      PROVE  Shares(p)' = Shares(p)
  <2>1. Shares(p)'[a] = 0
    BY <1>1, <1>3, AllocationWritten
  <2>2. ~ Uses(a, p)
    BY <1>3 DEF Uses, Books
  <2>3. Shares(p)[a] = 0
    BY <2>2 DEF Shares
  <2>4. \A b \in Allocation \ {a} : Shares(p)'[b] = Shares(p)[b]
    BY AllocationWritten
  <2>5. \A b \in Allocation : Shares(p)'[b] = Shares(p)[b]
    BY <2>1, <2>3, <2>4
  <2> QED
    BY <2>5 DEF Shares
<1> QED
  BY <1>2, <1>3, AllocationMoney

\* An allocation is written that fits, if not in the payment it is of, in the
\* payment that was checked.
LEMMA AllocationWriteBalances ==
  ASSUME RowsAgree, RowsAgree', Finite, SumsInv, NEW w \in Request, NEW a \in Allocation,
         NEW row \in AllocationRow, NEW r, NEW X, Step(w, r, X),
         Books(row.payment, row.invoice) \subseteq X,
         Exists(allocation[a]) => Books(allocation[a].payment, allocation[a].invoice) \subseteq X,
         Entered(r), Promised(r)', UNCHANGED <<milestone, invoice, payment>>,
         allocation' = [allocation EXCEPT ![a] = row], Exists(invoice[row.invoice]),
         NEW checked \in Payment, checked = row.payment \/ ChecksAnother(row.payment),
         \/ ActsLate
         \/ AllocationFits(row.amount, checked, row.invoice, {})
         \/ AllocationFits(row.amount, checked, row.invoice, {a})
  PROVE  Balances(w)
<1>1. RowsTyped /\ RowsTyped' /\ RowsEntered /\ Amount \subseteq Nat /\ Tolerance \in Nat
  BY BillingAssumption DEF RowsAgree, TypeOK, SumsInv, BillingAssumption
<1>2. Bills' = Bills /\ Plans' = Plans
  BY DEF Bills, Plans
<1>3. PICK p \in Payment, i \in Invoice, amount \in Nat :
        p = row.payment /\ i = row.invoice /\ amount = row.amount
  BY <1>1 DEF AllocationRow
<1>4. MoneyStays(X)
  BY <1>1, AllocationBooks
<1>5. ASSUME NEW j
      PROVE  /\ \A b \in Allocation \ {a} : Receipts(j)'[b] = Receipts(j)[b]
             /\ Receipts(j)'[a] <= amount /\ (j # i => Receipts(j)'[a] = 0)
  <2>1. Receipts(j)'[a] \in {amount, 0}
    BY <1>1, <1>3, AllocationWritten
  <2>2. j # i => Receipts(j)'[a] = 0
    BY <1>1, <1>3, AllocationWritten
  <2>3. \A b \in Allocation \ {a} : Receipts(j)'[b] = Receipts(j)[b]
    BY <1>1, AllocationWritten
  <2> QED
    BY <2>1, <2>2, <2>3
<1>6. ASSUME NEW q
      PROVE  /\ \A b \in Allocation \ {a} : Shares(q)'[b] = Shares(q)[b]
             /\ Shares(q)'[a] <= amount /\ (q # p => Shares(q)'[a] = 0)
  <2>1. Shares(q)'[a] \in {amount, 0}
    BY <1>1, <1>3, AllocationWritten
  <2>2. q # p => Shares(q)'[a] = 0
    BY <1>1, <1>3, AllocationWritten
  <2>3. \A b \in Allocation \ {a} : Shares(q)'[b] = Shares(q)[b]
    BY <1>1, AllocationWritten
  <2> QED
    BY <2>1, <2>2, <2>3
<1>7. ASSUME NEW j \in Invoice, j # i
      PROVE  ~ Received(j, {})' > Received(j, {})
  <2>1. \A b \in Allocation : Receipts(j)[b] \in Nat
    BY <1>1, MoneyIsNat
  <2>2. ASSUME NEW b \in Allocation
        PROVE  Receipts(j)'[b] <= Receipts(j)[b]
    <3>1. b = a \/ b \in Allocation \ {a}
      OBVIOUS
    <3>2. Receipts(j)'[b] = Receipts(j)[b] \/ Receipts(j)'[b] = 0
      BY <1>5, <1>7, <3>1
    <3> QED
      BY <2>1, <3>2
  <2> QED
    BY <1>1, <2>2, ReceiptsFall
<1>8. ASSUME NEW q \in Payment, q # p
      PROVE  ~ Allocated(q, {})' > Allocated(q, {})
  <2>1. \A b \in Allocation : Shares(q)[b] \in Nat
    BY <1>1, MoneyIsNat
  <2>2. ASSUME NEW b \in Allocation
        PROVE  Shares(q)'[b] <= Shares(q)[b]
    <3>1. b = a \/ b \in Allocation \ {a}
      OBVIOUS
    <3>2. Shares(q)'[b] = Shares(q)[b] \/ Shares(q)'[b] = 0
      BY <1>6, <1>8, <3>1
    <3> QED
      BY <2>1, <3>2
  <2> QED
    BY <1>1, <2>2, SharesFall
<1>9. SumsGo(w) /\ RowsEntered'
  BY <1>1, <1>4 DEF SumsGo, RowsEntered
<1>10. ASSUME NEW but \in {{}, {a}}, AllocationFits(amount, checked, i, but)
       PROVE  AmountsMove
  <2>1. \A S : S \ {} = S
    OBVIOUS
  <2>2. Received(i, {})' <= Total(invoice[i])' + Tolerance
    <3>1. PICK h, g : h = Receipts(i) /\ g = Receipts(i)'
      OBVIOUS
    <3>2. h \in [Allocation -> Nat] /\ g \in [Allocation -> Nat]
      BY <1>1, <3>1, MoneyIsNat, MoneyIsNatNext
    <3>3. /\ Received(i, but) = SumOf(h, Allocation \ but)
          /\ Received(i, {})' = SumOf(g, Allocation)
      <4>1. Received(i, {})' = SumOf(g, Allocation \ {})
        BY <1>1, <3>1, SumsAreNext
      <4>2. Received(i, but) = SumOf(h, Allocation \ but)
        BY <1>1, <3>1, SumsAre DEF Finite
      <4> QED
        BY <2>1, <4>1, <4>2
    <3>4. PICK total \in Nat : total = Total(invoice[i])
      BY <1>1, <1>3, TotalIs
    <3>5. PICK n \in Nat : n = Received(i, but)
      BY <1>1, SumsAreNat
    <3>6. amount <= total - n + Tolerance
      BY <1>10, <3>4, <3>5 DEF AllocationFits
    <3>7. amount + n <= total + Tolerance /\ total + Tolerance \in Int
      BY <1>1, <3>6
    <3>8. g[a] <= amount /\ \A b \in Allocation \ {a} : g[b] = h[b]
      BY <1>5, <3>1
    <3>9. \/ amount + SumOf(h, Allocation) <= total + Tolerance
          \/ amount + SumOf(h, Allocation \ {a}) <= total + Tolerance
      BY <1>10, <2>1, <3>3, <3>5, <3>7
    <3>10. SumOf(g, Allocation) <= total + Tolerance
      BY <3>2, <3>7, <3>8, <3>9, OneGrows DEF Finite
    <3>11. Total(invoice[i])' = total
      BY <3>4 DEF Total
    <3> QED
      BY <3>3, <3>10, <3>11
  <2>3. ASSUME checked = p
        PROVE  Allocated(p, {})' <= payment'[p].amount + Tolerance
    <3>1. PICK h, g : h = Shares(p) /\ g = Shares(p)'
      OBVIOUS
    <3>2. h \in [Allocation -> Nat] /\ g \in [Allocation -> Nat]
      BY <1>1, <3>1, MoneyIsNat, MoneyIsNatNext
    <3>3. /\ Allocated(p, but) = SumOf(h, Allocation \ but)
          /\ Allocated(p, {})' = SumOf(g, Allocation)
      <4>1. Allocated(p, {})' = SumOf(g, Allocation \ {})
        BY <1>1, <3>1, SumsAreNext
      <4>2. Allocated(p, but) = SumOf(h, Allocation \ but)
        BY <1>1, <3>1, SumsAre DEF Finite
      <4> QED
        BY <2>1, <4>1, <4>2
    <3>4. PICK total \in Nat : total = payment[p].amount
      <4>1. payment[p].amount \in Amount \cup {0}
        BY <1>1 DEF RowsTyped, PaymentRow
      <4> QED
        BY <1>1, <4>1
    <3>5. PICK n \in Nat : n = Allocated(p, but)
      BY <1>1, SumsAreNat
    <3>6. amount <= total - n + Tolerance
      BY <1>10, <2>3, <3>4, <3>5 DEF AllocationFits
    <3>7. amount + n <= total + Tolerance /\ total + Tolerance \in Int
      BY <1>1, <3>6
    <3>8. g[a] <= amount /\ \A b \in Allocation \ {a} : g[b] = h[b]
      BY <1>6, <3>1
    <3>9. \/ amount + SumOf(h, Allocation) <= total + Tolerance
          \/ amount + SumOf(h, Allocation \ {a}) <= total + Tolerance
      BY <1>10, <2>1, <3>3, <3>5, <3>7
    <3>10. SumOf(g, Allocation) <= total + Tolerance
      BY <3>2, <3>7, <3>8, <3>9, OneGrows DEF Finite
    <3>11. payment'[p].amount = total
      BY <3>4
    <3> QED
      BY <3>3, <3>10, <3>11
  <2>4. ASSUME NEW j \in Invoice, Received(j, {})' > Received(j, {})
        PROVE  Received(j, {})' <= Total(invoice[j])' + Tolerance
    <3>1. j = i
      BY <1>7, <2>4
    <3> QED
      BY <2>2, <3>1
  <2>5. ASSUME NEW q \in Payment, Allocated(q, {})' > Allocated(q, {})
        PROVE  Allocated(q, {})' <= payment'[q].amount + Tolerance \/ ChecksAnother(q)
    <3>1. q = p
      BY <1>8, <2>5
    <3> QED
      BY <1>3, <2>3, <3>1
  <2>6. WithinBudget(Billed({}), Billed({})') /\ WithinBudget(Planned({}), Planned({})')
    BY <1>1, <1>2, SameMoney
  <2> QED
    BY <2>4, <2>5, <2>6 DEF AmountsMove
<1> QED
  BY <1>3, <1>9, <1>10 DEF Balances

\* Allocations are made and changed.
LEMMA AllocationMadeBalances ==
  ASSUME RowsAgree, RowsAgree', Finite, SumsInv, NEW w \in Request,
         (\E a \in Allocation : AllocateInsert(w, a)) \/ AllocationPatchSave(w)
  PROVE  Balances(w)
<1>1. /\ req[w] \in Req /\ RowsTyped /\ Linked(req[w]) /\ req \in [Request -> Req]
      /\ allocation \in [Allocation -> {NoAllocation} \cup AllocationRow]
  BY Before DEF RowsTyped, RowsAgree, TypeOK
<1>2. ASSUME NEW a \in Allocation, AllocateInsert(w, a)
      PROVE  Balances(w)
  <2>1. At(w, "Allocate") /\ allocation[a] = NoAllocation
    BY <1>2 DEF AllocateInsert
  <2>2. PICK row \in AllocationRow : row = req[w].row
    BY <1>1, <2>1, Shape DEF At
  <2>3. Exists(invoice[row.invoice])
    BY <1>1, <2>1, <2>2 DEF Linked, At
  <2>4. /\ allocation' = [allocation EXCEPT ![a] = row]
        /\ UNCHANGED <<milestone, invoice, payment>>
    BY <1>2, <2>2 DEF AllocateInsert
  <2>5. PICK X : X = Books(row.payment, row.invoice)
    OBVIOUS
  <2>6. PICK r : Step(w, r, X) /\ r.pc \in {"Settle", "Idle"}
    <3>1. PICK r : /\ Step(w, r, X)
                   /\ r = IF req[w].settles
                          THEN [pc |-> "Settle", invoice |-> row.invoice, bill |-> req[w].bill]
                          ELSE Idle
      BY <1>2, <2>2, <2>5 DEF AllocateInsert
    <3>2. r.pc \in {"Settle", "Idle"}
      BY <3>1 DEF Idle
    <3> QED
      BY <3>1, <3>2
  <2>7. Entered(r) /\ Promised(r)'
    BY <2>6 DEF Entered, Promised
  <2>8. PICK checked \in Payment : checked = req[w].checked
    BY <1>1, <2>1, Shape DEF At
  <2>9. checked = row.payment \/ ChecksAnother(row.payment)
    <3>1. r # req[w]
      BY <2>1, <2>6 DEF At
    <3>2. req'[w] # req[w]
      BY <1>1, <2>6, <3>1 DEF Step, Becomes
    <3> QED
      BY <2>1, <2>2, <2>8, <3>2 DEF ChecksAnother
  <2>10. ActsLate \/ AllocationFits(row.amount, checked, row.invoice, {})
    <3>1. CASE w \in late
      <4>1. r # req[w]
        BY <2>1, <2>6 DEF At
      <4> QED
        BY <2>6, <3>1, <4>1, LateActs
    <3>2. CASE w \notin late
      BY <2>1, <2>2, <2>8, <3>2 DEF At, SumsInv, Promised
    <3> QED
      BY <3>1, <3>2
  <2>11. ~ Exists(allocation[a])
    BY <2>1 DEF Exists, NoAllocation
  <2> QED
    BY <2>3, <2>4, <2>5, <2>6, <2>7, <2>8, <2>9, <2>10, <2>11,
       AllocationWriteBalances
<1>3. CASE AllocationPatchSave(w)
  <2>1. At(w, "PatchAllocation")
    BY <1>3 DEF AllocationPatchSave
  <2>2. PICK row \in AllocationRow, a \in Allocation : row = req[w].row /\ a = req[w].allocation
    BY <1>1, <2>1, Shape DEF At
  <2>3. Exists(invoice[row.invoice]) /\ row.payment \in Payment
    BY <1>1, <2>1, <2>2 DEF Linked, At, AllocationRow
  <2>4. /\ allocation' = [allocation EXCEPT ![a] = row]
        /\ UNCHANGED <<milestone, invoice, payment>>
    BY <1>3, <2>2 DEF AllocationPatchSave
  <2>5. PICK X : X = Books(row.payment, row.invoice)
                       \cup Books(allocation[a].payment, allocation[a].invoice) \cup {a}
    OBVIOUS
  <2>6. /\ Step(w, Idle, X) /\ Books(row.payment, row.invoice) \subseteq X
        /\ Books(allocation[a].payment, allocation[a].invoice) \subseteq X
    BY <1>3, <2>2, <2>5 DEF AllocationPatchSave
  <2>7. Entered(Idle) /\ Promised(Idle)'
    BY DEF Entered, Promised, Idle
  <2>8. ActsLate \/ AllocationFits(row.amount, row.payment, row.invoice, {a})
    <3>1. CASE w \in late
      <4>1. Idle # req[w]
        BY <2>1 DEF At, Idle
      <4> QED
        BY <2>6, <3>1, <4>1, LateActs
    <3>2. CASE w \notin late
      BY <2>1, <2>2, <3>2 DEF At, SumsInv, Promised
    <3> QED
      BY <3>1, <3>2
  <2> QED
    BY <2>3, <2>4, <2>6, <2>7, <2>8, AllocationWriteBalances
<1> QED
  BY <1>2, <1>3

\* Allocations are deleted; what they bring still counts.
LEMMA AllocationDeletedBalances ==
  ASSUME RowsAgree, RowsAgree', Finite, SumsInv, NEW w \in Request,
         (\E a \in Allocation : AllocationDelete(w, a)) \/ DestroyAllocation(w)
  PROVE  Balances(w)
<1>1. /\ RowsTyped /\ UNCHANGED <<milestone, invoice, payment>>
      /\ allocation \in [Allocation -> {NoAllocation} \cup AllocationRow]
  BY DEF RowsAgree, TypeOK, RowsTyped, AllocationDelete, DestroyAllocation
<1>2. ASSUME NEW a \in Allocation, Exists(allocation[a]),
             allocation' = [allocation EXCEPT ![a].state = "DELETED"]
      PROVE  MoneyStays({}) /\ RowsEntered'
  <2>1. allocation[a] \in AllocationRow
    BY <1>1, <1>2, AllocationIs
  <2>2. PICK row : row = [allocation[a] EXCEPT !.state = "DELETED"]
    OBVIOUS
  <2>3. /\ Exists(row) /\ row.payment = allocation[a].payment
        /\ row.invoice = allocation[a].invoice /\ row.amount = allocation[a].amount
    BY <2>1, <2>2 DEF AllocationRow, Exists
  <2>4. allocation'[a] = row /\ \A b \in Allocation \ {a} : allocation'[b] = allocation[b]
    BY <1>1, <1>2, <2>2
  <2>5. ASSUME NEW b \in Allocation
        PROVE  /\ Exists(allocation'[b]) <=> Exists(allocation[b])
               /\ Exists(allocation[b]) => /\ allocation'[b].payment = allocation[b].payment
                                           /\ allocation'[b].invoice = allocation[b].invoice
                                           /\ allocation'[b].amount = allocation[b].amount
    BY <1>2, <2>3, <2>4
  <2>6. \A i : Receipts(i)' = Receipts(i)
    BY <1>1, <2>5 DEF Receipts, Brings, Exists
  <2>7. \A p : Shares(p)' = Shares(p)
    BY <1>1, <2>5 DEF Shares, Uses, Exists
  <2>8. RowsEntered'
    BY <1>1 DEF SumsInv, RowsEntered
  <2> QED
    BY <1>1, <2>6, <2>7, <2>8, AllocationMoney
<1>3. ASSUME NEW a \in Allocation, AllocationDelete(w, a)
      PROVE  Balances(w)
  <2>1. /\ Exists(allocation[a]) /\ allocation' = [allocation EXCEPT ![a].state = "DELETED"]
        /\ Step(w, Idle, {a})
    BY <1>3 DEF AllocationDelete, Live, Exists
  <2>2. Entered(Idle) /\ Promised(Idle)'
    BY DEF Entered, Promised, Idle
  <2> QED
    BY <1>2, <2>1, <2>2, StandsStill
<1>4. CASE DestroyAllocation(w)
  <2>1. /\ At(w, "Destroy") /\ req[w].todo # <<>>
        /\ Head(req[w].todo).do \in {"via invoice", "via payment"}
    BY <1>4 DEF DestroyAllocation, Destroying
  <2>2. PICK head \in Frames : head = Head(req[w].todo) /\ Leads(head)
    BY <2>1, OnFrame DEF Linked
  <2>3. PICK a \in DOMAIN head.on : /\ allocation' = [allocation EXCEPT ![a].state = "DELETED"]
                                    /\ \E frames : Continue(w, frames, {a})
    BY <1>4, <2>2 DEF DestroyAllocation
  <2>4. a \in Allocation /\ Exists(allocation[a])
    BY <2>1, <2>2, FramesAre DEF Leads
  <2>5. PICK r : Step(w, r, {a}) /\ Entered(r) /\ Promised(r)'
    BY <2>1, <2>3, StillDeleting
  <2> QED
    BY <1>2, <2>3, <2>4, <2>5, StandsStill
<1> QED
  BY <1>3, <1>4

\* A payment is entered, and allocated at once.
LEMMA PaymentEnteredBalances ==
  ASSUME RowsAgree, RowsAgree', Finite, SumsInv, NEW w \in Request, NEW p \in Payment,
         PayInsert(w, p)
  PROVE  Balances(w)
<1>1. /\ req \in [Request -> Req] /\ req[w] \in Req /\ RowsTyped /\ RowsTyped' /\ RowsEntered
      /\ KeysExist /\ Linked(req[w]) /\ Amount \subseteq Nat /\ Tolerance \in Nat
      /\ payment \in [Payment -> PaymentRow] /\ milestone \in [Milestone -> MilestoneRow]
  BY Before, BillingAssumption DEF RowsAgree, TypeOK, RowsTyped, SumsInv, BillingAssumption
<1>2. At(w, "Entered") /\ payment[p] = NoPayment /\ invoice' = invoice
  BY DEF PayInsert
<1>3. PICK new \in Entries : new = req[w].new
  BY <1>1, <1>2, Shape DEF At
<1>4. PICK entries : entries = req[w].entries
  OBVIOUS
<1>5. entries = {new[a] : a \in DOMAIN new} /\ \A e \in entries : Exists(invoice[e.invoice])
  BY <1>1, <1>2, <1>3, <1>4 DEF Linked, At
<1>6. DOMAIN new \subseteq Allocation /\ \A a \in DOMAIN new : new[a] \in Entry
  BY EntriesAre
<1>7. PICK X : X = req[w].paid \cup UNION {Books(p, e.invoice) : e \in entries}
  OBVIOUS
<1>8. Step(w, Idle, X)
  BY <1>3, <1>4, <1>7 DEF PayInsert
<1>9. ASSUME NEW a \in DOMAIN new
      PROVE  /\ ~ Exists(allocation[a]) /\ Exists(allocation'[a])
             /\ allocation'[a].payment = p /\ allocation'[a].invoice = new[a].invoice
             /\ allocation'[a].amount = new[a].amount
             /\ new[a].amount \in Nat /\ new[a].invoice \in Invoice
             /\ Exists(invoice[new[a].invoice])
             /\ <<"received", new[a].invoice>> \in X /\ <<"allocated", p>> \in X
  <2>1. allocation[a] = NoAllocation
    BY <1>3 DEF PayInsert
  <2>2. allocation'[a] = [state |-> "LIVE", payment |-> p, invoice |-> new[a].invoice,
                          amount |-> new[a].amount]
    BY <1>3, <1>6 DEF PayInsert
  <2>3. new[a].invoice \in Invoice /\ new[a].amount \in Nat
    BY <1>1, <1>6 DEF Entry
  <2>4. new[a] \in entries
    BY <1>5
  <2>5. Books(p, new[a].invoice) \subseteq X
    BY <1>7, <2>4
  <2>6. <<"received", new[a].invoice>> \in X /\ <<"allocated", p>> \in X
    BY <2>5 DEF Books
  <2> QED
    BY <1>5, <2>1, <2>2, <2>3, <2>4, <2>6 DEF Exists, NoAllocation
<1>10. \A a \in Allocation \ DOMAIN new : allocation'[a] = allocation[a]
  BY <1>3 DEF PayInsert
<1>11. PICK amount \in Nat : amount = req[w].amount
  BY <1>1, <1>2, Shape DEF At
<1>12. /\ payment'[p].amount = amount
       /\ \A q \in Payment \ {p} : payment'[q] = payment[q]
       /\ ~ Exists(payment[p])
  BY <1>1, <1>2, <1>11 DEF PayInsert, Exists, NoPayment
<1>13. \A a \in Allocation : Exists(allocation[a]) => /\ allocation'[a] = allocation[a]
                                                     /\ a \notin DOMAIN new
                                                     /\ allocation[a].payment \in Payment \ {p}
  <2>1. \A a \in Allocation : Exists(allocation[a]) => allocation[a].payment \in Payment
    BY <1>1, AllocationIs DEF AllocationRow
  <2> QED
    BY <1>1, <1>9, <1>10, <1>12, <2>1 DEF KeysExist
<1>14. \A m \in Milestone :
         milestone'[m].state = milestone[m].state /\ milestone'[m].amount = milestone[m].amount
  <2>1. ASSUME NEW m \in Milestone
        PROVE  milestone'[m].state = milestone[m].state /\ milestone'[m].amount = milestone[m].amount
    <3>1. PICK row : row = [milestone[m] EXCEPT !.status = "PAID"]
      OBVIOUS
    <3>2. row.state = milestone[m].state /\ row.amount = milestone[m].amount
      BY <1>1, <3>1 DEF MilestoneRow
    <3>3. milestone'[m] = IF m \in req[w].paid THEN row ELSE milestone[m]
      BY <3>1 DEF PayInsert
    <3> QED
      BY <3>2, <3>3
  <2> QED
    BY <2>1
<1>15. Bills' = Bills /\ Plans' = Plans /\ RowsEntered'
  <2>1. Bills' = Bills
    BY <1>2 DEF Bills
  <2>2. Plans' = Plans
    BY <1>14 DEF Plans, Live
  <2>3. RowsEntered'
    BY <1>1, <1>2, <1>14 DEF RowsEntered, Exists
  <2> QED
    BY <2>1, <2>2, <2>3
<1>16. ASSUME NEW i, NEW a \in Allocation, a \notin DOMAIN new \/ new[a].invoice # i
       PROVE  Receipts(i)'[a] = Receipts(i)[a]
  <2>1. Brings(a, i)' <=> Brings(a, i)
    <3>1. CASE a \in DOMAIN new
      BY <1>9, <1>16, <3>1 DEF Brings
    <3>2. CASE a \notin DOMAIN new
      BY <1>10, <1>12, <1>13, <3>2 DEF Brings
    <3> QED
      BY <3>1, <3>2
  <2>2. Brings(a, i) => allocation'[a].amount = allocation[a].amount
    BY <1>13 DEF Brings
  <2> QED
    BY <2>1, <2>2 DEF Receipts
<1>17. ASSUME NEW i, \A a \in DOMAIN new : new[a].invoice # i
       PROVE  Receipts(i)' = Receipts(i)
  <2>1. \A a \in Allocation : Receipts(i)'[a] = Receipts(i)[a]
    BY <1>16, <1>17
  <2> QED
    BY <2>1 DEF Receipts
<1>18. ASSUME NEW q, q # p \/ DOMAIN new = {}
       PROVE  Shares(q)' = Shares(q)
  <2>1. ASSUME NEW a \in Allocation
        PROVE  (Uses(a, q)' <=> Uses(a, q)) /\ (Uses(a, q) => allocation'[a] = allocation[a])
    <3>1. CASE a \in DOMAIN new
      BY <1>9, <1>18, <3>1 DEF Uses
    <3>2. CASE a \notin DOMAIN new
      BY <1>10, <3>2 DEF Uses
    <3> QED
      BY <3>1, <3>2
  <2> QED
    BY <2>1 DEF Shares
<1>19. MoneyStays(X)
  <2>1. ASSUME NEW i \in Invoice, <<"received", i>> \notin X
        PROVE  Receipts(i)' = Receipts(i)
    <3>1. \A a \in DOMAIN new : new[a].invoice # i
      BY <1>9, <2>1
    <3> QED
      BY <1>17, <3>1
  <2>2. ASSUME NEW q \in Payment, <<"allocated", q>> \notin X
        PROVE  Shares(q)' = Shares(q)
    <3>1. q # p \/ DOMAIN new = {}
      BY <1>9, <2>2
    <3> QED
      BY <1>18, <3>1
  <2>3. \A q \in Payment : q \notin X /\ Exists(payment[q]) => payment'[q] = payment[q]
    BY <1>12
  <2> QED
    BY <1>2, <1>15, <2>1, <2>2, <2>3 DEF MoneyStays
<1>20. SumsGo(w)
  <2>1. Entered(Idle) /\ Promised(Idle)'
    BY DEF Entered, Promised, Idle
  <2> QED
    BY <1>8, <1>19, <2>1 DEF SumsGo
<1>21. w \in late => ActsLate
  <2>1. Idle # req[w]
    BY <1>2 DEF At, Idle
  <2> QED
    BY <1>8, <2>1, LateActs
<1>22. ASSUME w \notin late, NEW i \in Invoice, NEW x \in DOMAIN new, new[x].invoice = i,
              ~ EntersTwice(i)
       PROVE  Received(i, {})' <= Total(invoice[i])' + Tolerance
  <2>1. req'[w] # req[w]
    BY <1>1, <1>2, <1>8 DEF Step, Becomes, At, Idle
  <2>2. \A a \in DOMAIN new \ {x} : new[a].invoice # i
    <3> SUFFICES ASSUME NEW a \in DOMAIN new, a # x, new[a].invoice = i
                 PROVE  FALSE
      OBVIOUS
    <3>1. {new[a].invoice, new[x].invoice} = {i}
      BY <1>22
    <3> QED
      BY <1>2, <1>3, <1>22, <2>1, <3>1 DEF EntersTwice
  <2>3. PICK h, g : h = Receipts(i) /\ g = Receipts(i)'
    OBVIOUS
  <2>4. h \in [Allocation -> Nat] /\ g \in [Allocation -> Nat]
    BY <1>1, <2>3, MoneyIsNat, MoneyIsNatNext
  <2>5. x \in Allocation /\ \A a \in Allocation \ {x} : g[a] = h[a]
    BY <1>6, <1>16, <2>2, <2>3
  <2>6. PICK n \in Nat : n = new[x].amount
    BY <1>9
  <2>7. g[x] <= n
    <3>1. g[x] \in {n, 0}
      BY <1>9, <2>3, <2>5, <2>6 DEF Receipts
    <3> QED
      BY <2>6, <3>1
  <2>8. PICK total \in Nat : total = Total(invoice[i])
    BY <1>1, <1>9, <1>22, TotalIs
  <2>9. PICK m \in Nat : m = Received(i, {})
    BY <1>1, SumsAreNat
  <2>10. EntryFits(new[x])
    BY <1>2, <1>3, <1>22 DEF SumsInv, Promised, At
  <2>11. n <= total - m + Tolerance
    BY <1>22, <2>6, <2>8, <2>9, <2>10 DEF EntryFits
  <2>12. n + m <= total + Tolerance /\ total + Tolerance \in Int
    BY <1>1, <2>11
  <2>13. m = SumOf(h, Allocation) /\ Received(i, {})' = SumOf(g, Allocation)
    <3>1. Received(i, {}) = SumOf(h, Allocation \ {})
      BY <1>1, <2>3, SumsAre DEF Finite
    <3>2. Received(i, {})' = SumOf(g, Allocation \ {})
      BY <1>1, <2>3, SumsAreNext
    <3>3. Allocation \ {} = Allocation
      OBVIOUS
    <3> QED
      BY <2>9, <3>1, <3>2, <3>3
  <2>14. n + SumOf(h, Allocation) <= total + Tolerance
    BY <2>12, <2>13
  <2>15. SumOf(g, Allocation) <= total + Tolerance
    BY <2>4, <2>5, <2>7, <2>12, <2>14, OneGrows DEF Finite
  <2>16. Total(invoice[i])' = total
    BY <1>2, <2>8 DEF Total
  <2> QED
    BY <2>13, <2>15, <2>16
<1>23. Allocated(p, {})' <= payment'[p].amount + Tolerance
  <2>1. PICK g : g = Shares(p)'
    OBVIOUS
  <2>2. g \in [Allocation -> Nat]
    BY <1>1, <2>1, MoneyIsNatNext
  <2>3. \A a \in Allocation \ DOMAIN new : g[a] = 0
    <3>1. ASSUME NEW a \in Allocation \ DOMAIN new
          PROVE  ~ Uses(a, p)'
      BY <1>10, <1>13 DEF Uses
    <3> QED
      BY <2>1, <3>1 DEF Shares
  <2>4. PICK h : h = [a \in DOMAIN new |-> new[a].amount]
    OBVIOUS
  <2>5. \A a \in DOMAIN new : g[a] = h[a]
    BY <1>6, <1>9, <2>1, <2>4 DEF Shares, Uses
  <2>6. IsFiniteSet(DOMAIN new)
    BY <1>6, FS_Subset DEF Finite
  <2>7. SumOf(g, Allocation) = SumOf(g, DOMAIN new)
    BY <1>6, <2>2, <2>3, SumOfRest DEF Finite
  <2>8. SumOf(g, DOMAIN new) = SumOf(h, DOMAIN new)
    BY <2>5, <2>6, SumOfSame
  <2>9. EntrySum(new) = SumOf(h, DOMAIN new)
    BY <2>4, <2>6, EntriesAdd
  <2>10. EntrySum(new) <= amount + Tolerance
    BY <1>2, <1>3, <1>11 DEF SumsInv, Entered, At
  <2>11. Allocated(p, {})' = SumOf(g, Allocation)
    <3>1. Allocated(p, {})' = SumOf(g, Allocation \ {})
      BY <1>1, <2>1, SumsAreNext
    <3>2. Allocation \ {} = Allocation
      OBVIOUS
    <3> QED
      BY <3>1, <3>2
  <2> QED
    BY <1>12, <2>7, <2>8, <2>9, <2>10, <2>11
<1>24. CASE w \notin late
  <2>1. \A i \in Invoice : Received(i, {})' > Received(i, {}) =>
          Received(i, {})' <= Total(invoice[i])' + Tolerance \/ EntersTwice(i)
    BY <1>1, <1>17, <1>22, <1>24, SameMoney
  <2>2. \A q \in Payment : Allocated(q, {})' > Allocated(q, {}) =>
          Allocated(q, {})' <= payment'[q].amount + Tolerance
    BY <1>1, <1>18, <1>23, SameMoney
  <2>3. WithinBudget(Billed({}), Billed({})') /\ WithinBudget(Planned({}), Planned({})')
    BY <1>1, <1>15, SameMoney
  <2>4. AmountsMove
    BY <2>1, <2>2, <2>3 DEF AmountsMove
  <2> QED
    BY <1>15, <1>20, <2>4 DEF Balances
<1> QED
  BY <1>15, <1>20, <1>21, <1>24 DEF Balances

\* Every step of a request leaves the sums right.
LEMMA StepBalances ==
  ASSUME RowsAgree, RowsAgree', Finite, SumsInv, NEW w \in Request,
         \/ Milestones(w) \/ Invoices(w) \/ Payments(w) \/ Allocations(w) \/ Cascade(w) \/ Die(w)
  PROVE  Balances(w)
<1>1. CASE Milestones(w)
  BY <1>1, MilestoneReadsBalance, MilestoneWritesBalance, InvoiceMadeBalances, StatusBalances
     DEF Milestones
<1>2. CASE Invoices(w)
  BY <1>2, InvoiceReadsBalance, InvoiceMadeBalances, InvoiceChangedBalances, DeletionReadsBalance
     DEF Invoices
<1>3. CASE Payments(w)
  BY <1>3, PaymentReadsBalance, PaymentEnteredBalances, PaymentChangedBalances,
     DeletionReadsBalance DEF Payments
<1>4. CASE Allocations(w)
  BY <1>4, AllocationReadsBalance, AllocationMadeBalances, AllocationDeletedBalances,
     StatusBalances DEF Allocations
<1>5. CASE Cascade(w)
  BY <1>5, InvoiceChangedBalances, DeletionReadsBalance, StatusBalances, PaymentChangedBalances,
     AllocationDeletedBalances DEF Cascade
<1>6. CASE Die(w)
  BY <1>6, DeletionReadsBalance
<1> QED
  BY <1>1, <1>2, <1>3, <1>4, <1>5, <1>6

\* The invariant of the sums holds at the start and through every step.
LEMMA InitSums == Init => SumsInv
<1> SUFFICES ASSUME Init PROVE SumsInv
  OBVIOUS
<1>1. RowsEntered
  BY DEF Init, RowsEntered, Exists, NoMilestone, NoInvoice
<1>2. \A w \in Request : req[w] = Idle
  BY DEF Init
<1>3. Entered(Idle) /\ Promised(Idle)
  BY DEF Entered, Promised, Idle
<1> QED
  BY <1>1, <1>2, <1>3 DEF SumsInv

\* Nothing changes: the sums are what they were.
LEMMA StutterBalances ==
  ASSUME RowsAgree, RowsAgree', Finite, SumsInv, UNCHANGED vars
  PROVE  SumsInv' /\ AmountsMove
<1>1. RowsTyped /\ RowsTyped' /\ UNCHANGED rows /\ UNCHANGED <<req, late>>
  BY DEF RowsAgree, TypeOK, vars
<1>2. RowsEntered'
  BY <1>1 DEF SumsInv, RowsEntered, rows
<1>3. ASSUME NEW w \in Request
      PROVE  Entered(req[w])' /\ (w \notin late' => Promised(req[w])')
  <2>1. PICK r : r = req[w] /\ r = req'[w]
    BY <1>1
  <2>2. Entered(r) /\ (w \notin late => Promised(r))
    BY <2>1 DEF SumsInv
  <2>3. w \notin late => Promised(r)'
    BY <1>1, <2>2, PromiseSame
  <2> QED
    BY <1>1, <2>1, <2>2, <2>3 DEF Entered, Promised
<1>4. AmountsMove
  BY <1>1, NoMoney, StillMoney
<1> QED
  BY <1>2, <1>3, <1>4 DEF SumsInv

\* Every step keeps the invariant of the sums, and moves the sums as it should.
LEMMA SumsStep ==
  ASSUME RowsAgree, RowsAgree', Finite, SumsInv, [Next]_vars
  PROVE  SumsInv' /\ (ActsLate \/ AmountsMove)
<1>1. ASSUME NEW w \in Request,
             \/ Milestones(w) \/ Invoices(w) \/ Payments(w) \/ Allocations(w) \/ Cascade(w)
             \/ Die(w)
      PROVE  SumsInv' /\ (ActsLate \/ AmountsMove)
  <2>1. Balances(w)
    BY <1>1, StepBalances
  <2> QED
    BY <2>1, SumsGoOn DEF Balances
<1> QED
  BY <1>1, StutterBalances DEF Next

\* What every step of the tables does, from the two invariants.
LEMMA MoneyMoves ==
  ASSUME Finite
  PROVE  RowsAgree /\ SumsInv /\ [Next]_vars => RowsAgree' /\ SumsInv' /\ (ActsLate \/ AmountsMove)
<1> SUFFICES ASSUME RowsAgree, SumsInv, [Next]_vars
             PROVE  RowsAgree' /\ SumsInv' /\ (ActsLate \/ AmountsMove)
  OBVIOUS
<1>1. RowsAgree'
  BY RowsStep
<1> QED
  BY <1>1, SumsStep

\* What requests have checked of sums and not been overtaken in is so.
THEOREM SumsAreAsChecked ==
  ASSUME Finite
  PROVE  Spec => [](RowsAgree /\ SumsInv)
<1>1. Init => RowsAgree /\ SumsInv
  BY InitAgrees, InitSums
<1>2. RowsAgree /\ SumsInv /\ [Next]_vars => (RowsAgree /\ SumsInv)'
  BY MoneyMoves
<1> QED
  BY <1>1, <1>2, PTL DEF Spec

\* No request that was not overtaken bills or plans more than what is left of
\* the budget, give or take a paisa, whatever the amounts and the budget
\* (validate_invoice_amount, validate_milestone_amount).
THEOREM BudgetIsKept ==
  ASSUME Finite
  PROVE  Spec => BudgetKept
<1>1. RowsAgree /\ SumsInv /\ [Next]_vars =>
        [<<milestone, invoice>>' # <<milestone, invoice>> /\ ~ ActsLate =>
           /\ WithinBudget(Billed({}), Billed({})')
           /\ WithinBudget(Planned({}), Planned({})')]_vars
  BY MoneyMoves DEF AmountsMove
<1> QED
  BY <1>1, SumsAreAsChecked, PTL DEF Spec, BudgetKept

\* No request that was not overtaken brings an invoice more than its total,
\* unless it enters the invoice twice (PaymentAllocationCreateSerializer).
THEOREM ReceiptsStayWithinTotal ==
  ASSUME Finite
  PROVE  Spec => ReceiptsWithinTotal
<1>1. RowsAgree /\ SumsInv /\ [Next]_vars =>
        [<<allocation, payment>>' # <<allocation, payment>> => \A i \in Invoice :
           Received(i, {})' > Received(i, {}) =>
             Received(i, {})' <= Total(invoice[i])' + Tolerance \/ ActsLate \/ EntersTwice(i)]_vars
  BY MoneyMoves DEF AmountsMove
<1> QED
  BY <1>1, SumsAreAsChecked, PTL DEF Spec, ReceiptsWithinTotal

\* No request that was not overtaken allocates more of a payment than was paid,
\* unless it names another payment than the one it allocates: the allocate action
\* checks the payment of the body and saves that of the URL.
THEOREM AllocationsStayWithinPayment ==
  ASSUME Finite
  PROVE  Spec => AllocationsWithinPayment
<1>1. RowsAgree /\ SumsInv /\ [Next]_vars =>
        [allocation' # allocation => \A p \in Payment :
           Allocated(p, {})' > Allocated(p, {}) =>
             Allocated(p, {})' <= payment'[p].amount + Tolerance \/ ActsLate \/ ChecksAnother(p)]_vars
  BY MoneyMoves DEF AmountsMove
<1> QED
  BY <1>1, SumsAreAsChecked, PTL DEF Spec, AllocationsWithinPayment
=============================================================================
