------------------------------ MODULE Documents ------------------------------
(***************************************************************************)
(* Finance documents (apps/finance): quotations, invoices, orders and      *)
(* receipts, numbered per type and year, with line items whose stored      *)
(* totals are computed again when the items change; and the quotations of  *)
(* sales (apps/sales), numbered by counting them.                          *)
(*                                                                         *)
(* Creating and updating are transactions (BaseModelViewSet), so what one  *)
(* writes is seen at once; what it read before that may be old by then.    *)
(* A creation locks the document it read the last number of until it       *)
(* commits; one that waited for the lock goes on with the same document.   *)
(* Behaviours are about the documents of one year.                         *)
(*                                                                         *)
(* A sales quotation is inserted without a number, which is unique, and    *)
(* numbered afterwards from a count of the rows; every statement commits   *)
(* for itself (these views are plain ModelViewSets), and a deletion        *)
(* removes the row.                                                        *)
(*                                                                         *)
(* The links mailed to the client are not modelled: their routes take an   *)
(* integer where the keys are UUIDs, so no request reaches                 *)
(* public_view_quotation or public_respond_quotation.                      *)
(***************************************************************************)
EXTENDS Integers, Sequences, FiniteSets, FiniteSetsExt, SequencesExt

CONSTANTS
  Request,  \* the server's request threads
  Type,     \* the document types in use
  Lists,    \* lists of line items: quantity and rate in hundredths, gst in percent
  Status,   \* the statuses in use
  Widest,   \* the largest number as wide as the padding, 9999 in the code
  MaxDocs,  \* bounds the documents
  Quotation, \* the rows of sales quotations there can be
  Cost,     \* what a training may cost, in paise
  Blank,    \* the quote_no of a row that has none yet
  MaxEdits  \* bounds the updates, changes of status, mails and deletions

VARIABLES
  doc,      \* the documents, in the order they were made
  row,      \* Quotation -> its row, or Absent
  edits,    \* how many changes there were
  req,      \* what each request thread is doing
  lost,     \* a creation failed that overlapped no other and had numbers left
  stale,    \* documents written from an image that was not theirs any more
  foreign,  \* documents whose new status was checked against another type
  disturbed \* quotations: two requests overlapped, one died, or a row was deleted

documents == <<doc, lost, stale, foreign>>
quotations == <<row, disturbed>>
vars == <<documents, quotations, edits, req>>

Free == [pc |-> "Idle"]
At(w, pc) == req[w].pc = pc
Becomes(w, r) == req' = [req EXCEPT ![w] = r]
Edits == edits < MaxEdits /\ edits' = edits + 1

\* ALLOWED_STATUSES_BY_TYPE.
Allowed ==
  LET invoice == {"draft", "generated", "sent", "paid", "partially_paid", "overdue", "cancelled"}
  IN [quotation |-> {"draft", "sent", "accepted", "rejected", "expired"},
      proforma_invoice |-> invoice, gst_invoice |-> invoice,
      purchase_order |-> {"draft", "sent", "accepted", "rejected", "expired"},
      receipt |-> {"draft", "generated", "sent"}]

\* quantize(..., ROUND_HALF_UP) of n / d, for what is not negative.
HalfUp(n, d) == (2 * n + d) \div (2 * d)

\* DocumentLineItem.save.
Amount(i) == HalfUp(i.quantity * i.rate, 100)

\* The tax of one item, rounded by itself.
Gst(i) == HalfUp(Amount(i) * i.gst, 100)

\* Document.recalculate_totals.
Total(items) == FoldSeq(LAMBDA i, sum : sum + Amount(i) + Gst(i), 0, items)

Rows(type) == {d \in DOMAIN doc : doc[d].type = type}

\* order_by("-document_number").first(): the order of strings, in which a
\* number wider than the padding comes before the widest of the others.
LastNumber(numbers) == Max({n \in numbers : n <= Widest} \cup {0})

\* Sales quotations.
Absent == [no |-> -1]
Kept == {q \in Quotation : row[q] # Absent}

\* Whether another request is under way.
Crowded(w) == \E v \in Request \ {w} : ~ At(v, "Idle")

\* 18 % of the cost.
Tax(cost) == HalfUp(cost * 18, 100)

\* Seeded fault: the net amount of before goes into the new one.
PricedTwice(r, cost) ==
  IF cost = 0 THEN [r EXCEPT !.cost = cost]
  ELSE [r EXCEPT !.cost = cost, !.gst = Tax(cost), !.net = r.cost + Tax(cost)]

\* Quotation.save, on the image: nothing is computed for a cost of nought.
Priced(r, cost) ==
  IF cost = 0 THEN [r EXCEPT !.cost = cost]
  ELSE [r EXCEPT !.cost = cost, !.gst = Tax(cost), !.net = cost + Tax(cost)]

\* The unique constraint lets a row have that number.
MayBe(q, no) == \A other \in Kept \ {q} : row[other].no # no
----------------------------------------------------------------------------
Init ==
  /\ doc = <<>> /\ row = [q \in Quotation |-> Absent] /\ edits = 0
  /\ req = [w \in Request |-> Free]
  /\ lost = FALSE /\ stale = {} /\ foreign = {} /\ disturbed = FALSE

\* Seeded fault: deleted documents do not count.
NumberReadLive(w, type, items, status) ==
  /\ At(w, "Idle") /\ Len(doc) < MaxDocs /\ status \in Allowed[type]
  /\ Becomes(w, [pc |-> "Create", type |-> type, items |-> items, status |-> status,
                 no |-> LastNumber({doc[d].no : d \in {e \in Rows(type) : ~ doc[e].deleted}}) + 1,
                 rows |-> Rows(type)])
  /\ UNCHANGED <<doc, edits, lost, stale, foreign, quotations>>

\* generate_document_number: one more than the last of the type and year,
\* deleted or not; the payload's status must suit its type.
NumberRead(w, type, items, status) ==
  /\ At(w, "Idle") /\ Len(doc) < MaxDocs /\ status \in Allowed[type]
  /\ Becomes(w, [pc |-> "Create", type |-> type, items |-> items, status |-> status,
                 no |-> LastNumber({doc[d].no : d \in Rows(type)}) + 1, rows |-> Rows(type)])
  /\ UNCHANGED <<doc, edits, lost, stale, foreign, quotations>>

\* The document, its items and its totals are inserted, unless the number is
\* taken: then nothing of it is kept.
Create(w) ==
  LET r == req[w]
      free == \A d \in Rows(r.type) : doc[d].no # r.no
  IN /\ At(w, "Create") /\ Becomes(w, Free)
     /\ doc' = IF free THEN Append(doc, [type |-> r.type, no |-> r.no, status |-> r.status,
                                         items |-> r.items, total |-> Total(r.items),
                                         deleted |-> FALSE])
               ELSE doc
     /\ lost' = (lost \/ (~ free /\ Rows(r.type) = r.rows /\ Cardinality(r.rows) <= Widest))
     /\ UNCHANGED <<edits, stale, foreign, quotations>>

\* update, up to validate: the status must suit the type the payload names,
\* which is not kept.
UpdateLoad(w, d, status, type) ==
  /\ At(w, "Idle") /\ ~ doc[d].deleted
  /\ status \in Allowed[type]
  /\ Becomes(w, [pc |-> "Update", doc |-> d, image |-> [doc[d] EXCEPT !.status = status],
                 saw |-> doc[d], as |-> type])
  /\ Edits /\ UNCHANGED <<doc, lost, stale, foreign, quotations>>

\* Seeded fault: totals are computed before the items are replaced.
SaveEarly(w, items) ==
  LET r == req[w]
  IN /\ At(w, "Update") /\ Becomes(w, Free)
     /\ doc' = [doc EXCEPT ![r.doc] = [r.image EXCEPT !.items = items,
                                                      !.total = Total(doc[r.doc].items)]]
     /\ stale' = IF doc[r.doc] # r.saw THEN stale \cup {r.doc} ELSE stale
     /\ foreign' = IF r.as # r.image.type THEN foreign \cup {r.doc} ELSE foreign
     /\ UNCHANGED <<edits, lost, quotations>>

\* Every column is saved as it was loaded; then the items are replaced and
\* the totals computed from them, ...
SaveItems(w, items) ==
  LET r == req[w]
  IN /\ At(w, "Update") /\ Becomes(w, Free)
     /\ doc' = [doc EXCEPT ![r.doc] = [r.image EXCEPT !.items = items, !.total = Total(items)]]
     /\ stale' = IF doc[r.doc] # r.saw THEN stale \cup {r.doc} ELSE stale
     /\ foreign' = IF r.as # r.image.type THEN foreign \cup {r.doc} ELSE foreign
     /\ UNCHANGED <<edits, lost, quotations>>

\* ... or, if the payload has no items, nothing more is done: the items are
\* not a column of the document, its totals are.
SaveColumns(w) ==
  LET r == req[w]
  IN /\ At(w, "Update") /\ Becomes(w, Free)
     /\ doc' = [doc EXCEPT ![r.doc] = [r.image EXCEPT !.items = doc[r.doc].items]]
     /\ stale' = IF doc[r.doc] # r.saw THEN stale \cup {r.doc} ELSE stale
     /\ foreign' = IF r.as # r.image.type THEN foreign \cup {r.doc} ELSE foreign
     /\ UNCHANGED <<edits, lost, quotations>>

\* Seeded fault: any known status will do.
UpdateStatusAny(d, status) ==
  /\ ~ doc[d].deleted
  /\ doc' = [doc EXCEPT ![d].status = status]
  /\ Edits /\ UNCHANGED <<req, lost, stale, foreign, quotations>>

\* update_status writes the status only.
UpdateStatus(d, status) ==
  /\ ~ doc[d].deleted /\ status \in Allowed[doc[d].type]
  /\ doc' = [doc EXCEPT ![d].status = status]
  /\ Edits /\ UNCHANGED <<req, lost, stale, foreign, quotations>>

\* BaseModelViewSet.destroy.
Destroy(d) ==
  /\ ~ doc[d].deleted
  /\ doc' = [doc EXCEPT ![d].deleted = TRUE]
  /\ Edits /\ UNCHANGED <<req, lost, stale, foreign, quotations>>

\* perform_create: the row is inserted without a number, unless there is
\* one without already.
Insert(w, q, cost) ==
  /\ At(w, "Idle") /\ row[q] = Absent /\ MayBe(q, Blank)
  /\ row' = [row EXCEPT ![q] = Priced([no |-> Blank, cost |-> 0, gst |-> 0, net |-> 0,
                                       status |-> "PENDING"], cost)]
  /\ Becomes(w, [pc |-> "Count", row |-> q])
  /\ disturbed' = (disturbed \/ Crowded(w))
  /\ UNCHANGED <<edits, documents>>

\* Seeded fault: the row itself is not counted.
CountOthers(w) ==
  /\ At(w, "Count")
  /\ Becomes(w, [pc |-> "Number", row |-> req[w].row, no |-> Cardinality(Kept \ {req[w].row})])
  /\ UNCHANGED <<row, edits, disturbed, documents>>

\* The rows are counted ...
Count(w) ==
  /\ At(w, "Count")
  /\ Becomes(w, [pc |-> "Number", row |-> req[w].row, no |-> Cardinality(Kept)])
  /\ UNCHANGED <<row, edits, disturbed, documents>>

\* ... and the number is saved, if no other row has it; a row that is gone
\* is not there to save.
Number(w) ==
  LET r == req[w]
  IN /\ At(w, "Number") /\ Becomes(w, Free)
     /\ row' = IF row[r.row] # Absent /\ MayBe(r.row, r.no)
               THEN [row EXCEPT ![r.row].no = r.no] ELSE row
     /\ UNCHANGED <<edits, disturbed, documents>>

\* update and send_mail: the row is loaded ...
Load(w, q) ==
  /\ At(w, "Idle") /\ row[q] # Absent /\ Edits
  /\ Becomes(w, [pc |-> "Save", row |-> q, image |-> row[q]])
  /\ disturbed' = (disturbed \/ Crowded(w))
  /\ UNCHANGED <<row, documents>>

\* ... and saved, every column of it as it was loaded but for the cost and
\* the status given; a row that is gone is inserted again.  One without a
\* number gets one now.
Save(w, cost, status) ==
  LET r == req[w]
  IN /\ At(w, "Save") /\ MayBe(r.row, r.image.no)
     /\ row' = [row EXCEPT ![r.row] = [Priced(r.image, cost) EXCEPT !.status = status]]
     /\ Becomes(w, IF r.image.no = Blank THEN [pc |-> "Count", row |-> r.row] ELSE Free)
     /\ UNCHANGED <<edits, disturbed, documents>>

\* send_mail saves the status only, and numbers like any save.
Mail(w) ==
  LET r == req[w]
  IN /\ At(w, "Save") /\ row[r.row] # Absent
     /\ row' = [row EXCEPT ![r.row].status = "SENT"]
     /\ Becomes(w, IF r.image.no = Blank THEN [pc |-> "Count", row |-> r.row] ELSE Free)
     /\ UNCHANGED <<edits, disturbed, documents>>

\* ModelViewSet.destroy removes the row.
RemoveRow(q) ==
  /\ row[q] # Absent /\ Edits
  /\ row' = [row EXCEPT ![q] = Absent]
  /\ disturbed' = TRUE
  /\ UNCHANGED <<req, documents>>

\* The worker of a quotation dies, or fails on a row that is gone or a
\* number that is taken.
Die(w) ==
  /\ req[w].pc \in {"Count", "Number", "Save"} /\ Becomes(w, Free)
  /\ disturbed' = TRUE
  /\ UNCHANGED <<row, edits, documents>>

Next ==
  \/ \E w \in Request, type \in Type, items \in Lists, status \in Status : NumberRead(w, type, items, status)
  \/ \E w \in Request : Create(w) \/ SaveColumns(w)
  \/ \E w \in Request, items \in Lists : SaveItems(w, items)
  \/ \E w \in Request, d \in DOMAIN doc, status \in Status, type \in Type : UpdateLoad(w, d, status, type)
  \/ \E d \in DOMAIN doc, status \in Status : UpdateStatus(d, status)
  \/ \E d \in DOMAIN doc : Destroy(d)
  \/ \E w \in Request, q \in Quotation, cost \in Cost : Insert(w, q, cost)
  \/ \E w \in Request : Count(w) \/ Number(w) \/ Mail(w) \/ Die(w)
  \/ \E w \in Request, q \in Quotation : Load(w, q)
  \/ \E w \in Request, cost \in Cost, status \in {"PENDING", "APPROVED"} : Save(w, cost, status)
  \/ \E q \in Quotation : RemoveRow(q)

Spec == Init /\ [][Next]_vars
----------------------------------------------------------------------------
TypeOK ==
  /\ doc \in Seq([type : Type, no : Nat, status : Status, items : Lists, total : Nat,
                  deleted : BOOLEAN])
  /\ stale \cup foreign \subseteq DOMAIN doc
  /\ \A q \in Kept : row[q].cost \in Cost /\ row[q].no \in Nat

\* The documents of a type and year are numbered without gap or repetition,
\* in the order they were made, and a creation that overlapped no other has
\* failed only when the padding is too narrow for the next number but one.
Numbered ==
  /\ ~ lost
  /\ \A type \in Type : \A d \in Rows(type) : doc[d].no = Cardinality({e \in Rows(type) : e <= d})

\* The stored total of a document is that of its items, within a paisa and a
\* seventh for each, unless it was saved from an image of another time.
TotalsAgree ==
  \A d \in DOMAIN doc \ stale :
    LET Exact(i) == i.quantity * i.rate * (100 + i.gst)
        gap == 10000 * doc[d].total - FoldSeq(LAMBDA i, sum : sum + Exact(i), 0, doc[d].items)
    IN gap \in - 11400 * Len(doc[d].items) .. 11400 * Len(doc[d].items)

\* A document has a status of its type from the start, unless it was saved from
\* an image that was checked against a type it does not have; and a deleted one
\* comes back only through an image of another time.
StatusSuitsStep ==
  doc' # doc =>
    /\ \A d \in DOMAIN doc' : doc'[d].status \in Allowed[doc'[d].type] \/ d \in foreign'
    /\ \A d \in DOMAIN doc : doc[d].deleted => doc'[d].deleted \/ d \in stale'

\* StatusSuitsStep, of every step.
StatusSuits == [][StatusSuitsStep]_vars

\* No two rows have one number, and at most one has none: nobody is lost to
\* the constraint.  Once a second insertion is refused for a row without a
\* number, that row was left so by an overlap, a death or a deletion, and
\* until it is saved again no quotation can be made.
QuotesNumbered ==
  /\ \A p, q \in Kept : row[p].no = row[q].no => p = q
  /\ (\A w \in Request : At(w, "Idle")) /\ ~ disturbed =>
       {row[q].no : q \in Kept} = 1 .. Cardinality(Kept)

\* The net amount is the cost and 18 % of it, to the nearest paisa, except
\* for a quotation whose cost was set to nought after it had one.
QuotesPriced ==
  \A q \in Kept :
    LET gap == 100 * row[q].net - 118 * row[q].cost
    IN row[q].cost # 0 => gap \in -50 .. 50
=============================================================================
