---------------------------- MODULE SeedFinance -----------------------------
(***************************************************************************)
(* The command that fills the CRM and finance tables with demonstration    *)
(* data.  It is one transaction, meant to be run again; each step looks    *)
(* for what is there by a key of its own: the client by its name, the      *)
(* project by its code, a document by its status or its notes, an invoice  *)
(* by the date counted back from today, an expense by its description.     *)
(* Between two runs days pass and people change what was seeded.           *)
(***************************************************************************)
EXTENDS Integers, FiniteSets

CONSTANTS MaxDay, MaxRuns,  \* bounds on the calendar and on the runs
          MaxEdits          \* bound on the changes by hand

VARIABLES day, runs, edits,
          client,      \* Client rows; the key is the run that made them
          project,     \* the Project of the list: its client and start
          document,    \* Document rows; placed: they have the project
          milestone,   \* statuses of the project's Milestones; empty if none
          invoice,     \* Invoice rows with what was allocated to them
          collected,   \* rows of the monthly collections
          expense,     \* CompanyExpense rows
          asLeft       \* history: nothing has changed since the last run

tables == <<client, project, document, milestone, invoice, collected, expense>>
vars == <<day, runs, edits, tables, asLeft>>

DocumentSpecs == {"quotation", "bill"}      \* without and with a seed_key
InvoiceSpecs == 1 .. 3                      \* in the order of the list
PaidPercent(s) == CASE s = 1 -> 100 [] s = 2 -> 50 [] s = 3 -> 0
OfMilestone(s) == s # 3                     \* invoice_type is MILESTONE
ExpenseSpecs == {"visit", "lunch"}
Month(d) == (d + 1) \div 2
Run1 == 1 .. MaxRuns

TypeOK ==
    /\ client \subseteq [id : Run1, name : {"K", "renamed"}, code : {"HIT-K", "own"}]
    /\ project.client \in 0 .. MaxRuns /\ project.start \in 0 .. MaxDay
    /\ document \subseteq [spec : DocumentSpecs, client : Run1, run : Run1,
                           status : {"accepted", "closed"}, placed : BOOLEAN, gone : BOOLEAN]
    /\ DOMAIN milestone \in {{}, 1 .. 3}
    /\ invoice \subseteq [spec : InvoiceSpecs, client : Run1, run : Run1, date : 1 .. MaxDay,
                          milestone : 0 .. 3, allocated : {0, 50, 100}, placed : BOOLEAN,
                          gone : BOOLEAN]
    /\ collected \subseteq [month : 0 .. MaxDay, client : Run1]
    /\ expense \subseteq [spec : ExpenseSpecs, run : Run1, gone : BOOLEAN]

NoProject == [client |-> 0, start |-> 0]

Init ==
    /\ day = 1 /\ runs = 0 /\ edits = 0
    /\ client = {} /\ project = NoProject /\ document = {} /\ milestone = <<>>
    /\ invoice = {} /\ collected = {} /\ expense = {}
    /\ asLeft = FALSE

-----------------------------------------------------------------------------
(* The steps of a run, each from the tables it reads to what it writes.     *)

Named == {c \in client : c.name = "K"}

\* The key the client of the list has after the first step.
Kid == IF Named = {} THEN runs + 1 ELSE (CHOOSE c \in Named : TRUE).id

\* get_or_create by name, then every default is written again.
SeedClients == (client \ Named) \cup {[id |-> Kid, name |-> "K", code |-> "HIT-K"]}

\* get_or_create by code, then every default is written again.
SeedProject == [client |-> Kid, start |-> day]

\* Seeded fault: only documents with a seed_key are looked for.
ExistingOnlyKeyed(s) == s = "bill" /\ \E r \in document : r.spec = s /\ ~r.gone

\* With a seed_key any document with its notes will do; without one it must
\* have the client, the project and the status of the list.
Existing(s) ==
    \E r \in document :
        /\ r.spec = s /\ ~r.gone
        /\ s = "quotation" => r.client = Kid /\ r.placed /\ r.status = "accepted"

SeedDocuments ==
    document \cup {[spec |-> s, client |-> Kid, status |-> "accepted", run |-> runs + 1,
                    placed |-> TRUE, gone |-> FALSE] : s \in {t \in DocumentSpecs : ~Existing(t)}}

\* The invoices of the list that are there: of the same client, project
\* and date.
Known == {s \in InvoiceSpecs :
             \E r \in invoice : r.spec = s /\ r.client = Kid /\ r.placed /\ r.date = day /\ ~r.gone}

\* The milestones are taken in turn, by the number of invoices this run made.
MilestoneFor(s) ==
    IF OfMilestone(s) THEN (Cardinality({t \in 1 .. (s - 1) : t \notin Known}) % 3) + 1 ELSE 0

NewInvoices ==
    {[spec |-> s, client |-> Kid, date |-> day, milestone |-> MilestoneFor(s),
      allocated |-> PaidPercent(s), run |-> runs + 1, placed |-> TRUE, gone |-> FALSE] :
         s \in InvoiceSpecs \ Known}

\* Seeded fault: any payment settles the milestone.
SettledByAny == {r.milestone : r \in {i \in NewInvoices : i.allocated > 0}}

Settled == {r.milestone : r \in {i \in NewInvoices : i.allocated >= 100}}

\* Created if the project has none, and paid with their invoices.
SeedMilestones ==
    [k \in 1 .. 3 |-> IF k \in Settled THEN "PAID"
                      ELSE IF milestone = <<>> THEN "PENDING" ELSE milestone[k]]

\* One collection per month, for as many months back as the chart shows.
SeedCollections ==
    collected \cup {[month |-> m, client |-> Kid] :
                       m \in ((Month(day) - 1) .. Month(day)) \ {r.month : r \in collected}}

SeedExpenses ==
    expense \cup {[spec |-> s, run |-> runs + 1, gone |-> FALSE] :
                     s \in {t \in ExpenseSpecs : ~\E r \in expense : r.spec = t /\ ~r.gone}}

Run ==
    /\ runs < MaxRuns /\ runs' = runs + 1
    /\ client' = SeedClients /\ project' = SeedProject /\ document' = SeedDocuments
    /\ milestone' = SeedMilestones /\ invoice' = invoice \cup NewInvoices
    /\ collected' = SeedCollections /\ expense' = SeedExpenses
    /\ asLeft' = TRUE
    /\ UNCHANGED <<day, edits>>

\* Seeded fault: the clients of the list are found by name.
DemoByName == {c.id : c \in Named}

Demo == {c.id : c \in {d \in client : d.code = "HIT-K"}}

\* --reset: everything of the clients whose codes have the prefix, the
\* projects of the list and every demonstration expense; what had the project
\* and is not of such a client loses it.
Reset ==
    /\ runs > 0
    /\ client' = {c \in client : c.id \notin Demo}
    /\ project' = NoProject /\ milestone' = <<>>
    /\ document' = {[r EXCEPT !.placed = FALSE] : r \in {d \in document : d.client \notin Demo}}
    /\ invoice' = {[r EXCEPT !.placed = FALSE, !.milestone = 0] :
                      r \in {i \in invoice : i.client \notin Demo}}
    /\ collected' = {r \in collected : r.client \notin Demo}
    /\ expense' = {}
    /\ asLeft' = FALSE
    /\ UNCHANGED <<day, runs, edits>>

-----------------------------------------------------------------------------
(* Days pass, and people change what was seeded.                            *)

Tomorrow ==
    /\ day < MaxDay /\ day' = day + 1 /\ asLeft' = FALSE
    /\ UNCHANGED <<runs, edits, tables>>

Edit == edits < MaxEdits /\ edits' = edits + 1 /\ asLeft' = FALSE /\ UNCHANGED <<day, runs>>

EditClient(c) ==
    /\ Edit
    /\ \/ client' = (client \ {c}) \cup {[c EXCEPT !.name = "renamed"]}
          /\ \A d \in client : d.name # "renamed"     \* the name is unique
       \/ client' = (client \ {c}) \cup {[c EXCEPT !.code = "own"]}
    /\ UNCHANGED <<project, document, milestone, invoice, collected, expense>>

EditDocument(r) ==
    /\ Edit /\ ~r.gone
    /\ \/ document' = (document \ {r}) \cup {[r EXCEPT !.status = "closed"]}
       \/ document' = (document \ {r}) \cup {[r EXCEPT !.gone = TRUE]}
    /\ UNCHANGED <<client, project, milestone, invoice, collected, expense>>

DeleteInvoice(r) ==
    /\ Edit /\ ~r.gone
    /\ invoice' = (invoice \ {r}) \cup {[r EXCEPT !.gone = TRUE]}
    /\ UNCHANGED <<client, project, document, milestone, collected, expense>>

DeleteExpense(r) ==
    /\ Edit /\ ~r.gone
    /\ expense' = (expense \ {r}) \cup {[r EXCEPT !.gone = TRUE]}
    /\ UNCHANGED <<client, project, document, milestone, invoice, collected>>

Next ==
    \/ Run \/ Reset \/ Tomorrow
    \/ \E c \in client : EditClient(c)
    \/ \E r \in document : EditDocument(r)
    \/ \E r \in invoice : DeleteInvoice(r)
    \/ \E r \in expense : DeleteExpense(r)

Spec == Init /\ [][Next]_vars

-----------------------------------------------------------------------------
\* A milestone is marked as paid only with a fully paid invoice of its own, and
\* what survives a reset belongs to a client whose code somebody had changed.
SeedsAddUp ==
    /\ \A k \in DOMAIN milestone : milestone[k] = "PAID" =>
           \E r \in invoice : r.milestone = k /\ r.allocated = 100
    /\ project = NoProject =>
           \A r \in document \cup invoice :
               \E c \in client : c.id = r.client /\ c.code = "own"

\* Run again on the same day with nothing changed in between, the command
\* changes nothing; on another day it may bill everything again, but documents,
\* expenses and the months already collected stay as they are while nobody
\* touches them ("idempotent re-run", seed_crm_finance.py:477).
AgainIsNothingStep ==
    runs' # runs =>
        /\ asLeft => UNCHANGED tables
        /\ (edits = 0 /\ project # NoProject) => UNCHANGED <<client, document, expense>>
        /\ collected \subseteq collected'
AgainIsNothing == [][AgainIsNothingStep]_vars
=============================================================================
