---------------------------- MODULE Offboarding -----------------------------
(***************************************************************************)
(* The offboarding of an employee: a root record, one preference and one   *)
(* exit interview per record, documents, clearance items and stages, and   *)
(* the two messages about clearance.  No view opens a transaction: a       *)
(* request reads its row, and writes every column of what it read later.   *)
(***************************************************************************)
EXTENDS Integers, FiniteSets

CONSTANTS Emp,
          Staff,      \* employees with is_staff: the HR of this module
          Rec, Doc,   \* keys of records and documents
          Req,        \* requests that take more than one step, each used once
          MaxTold,    \* bound on the calls that tell the owner of a clearance
          None

VARIABLES record,     \* OffboardingRecord by key
          form,       \* rows of OffboardingPreference and ExitInterview
          item,       \* rows of ClearanceItem and OffboardingWorkflowStage
          document,   \* OffboardingDocument by key
          req,        \* what each request has read and still has to write
          told,       \* Notification rows, by recipient and request
          owned,      \* Notification rows for owners of a clearance
          active      \* employees with is_active

vars == <<record, form, item, document, req, told, owned, active>>

Status == {"INITIATED", "CLEARANCE_PENDING", "COMPLETED"}
Kinds == {"preference", "interview"}
Steps == {"new", "patch", "form", "report", "done", "failed"}

TypeOK ==
    /\ record \in [Rec -> {None} \cup
           [employee : Emp, by : Emp, status : Status, gone : BOOLEAN]]
    /\ \A f \in form : f.rec \in Rec /\ f.kind \in Kinds /\ f.id \in Req /\ f.text \in Req
    /\ item \subseteq [rec : Rec, kind : {"clearance", "stage"}]
    /\ document \in [Doc -> {None} \cup [rec : Rec, gone : BOOLEAN]]
    /\ \A q \in Req : req[q].step \in Steps
    /\ told \in [Emp \X Req -> 0 .. 2] /\ owned \in [Emp -> 0 .. MaxTold]
    /\ active \subseteq Emp

Init ==
    /\ record = [r \in Rec |-> None] /\ form = {} /\ item = {}
    /\ document = [d \in Doc |-> None]
    /\ req = [q \in Req |-> [step |-> "new"]]
    /\ told = [k \in Emp \X Req |-> 0] /\ owned = [e \in Emp |-> 0]
    /\ active = Emp

Exists(r) == record[r] # None
\* get(pk=..., is_deleted=False)
Found(r) == Exists(r) /\ ~record[r].gone

-----------------------------------------------------------------------------
(* Records.                                                                 *)

\* post: HR for anybody, everybody else for himself, with any status.
Submit(u, e, r, s) ==
    /\ u \in active /\ ~Exists(r) /\ (u = e \/ u \in Staff)
    /\ record' = [record EXCEPT ![r] =
           [employee |-> e, by |-> u, status |-> s, gone |-> FALSE]]
    /\ UNCHANGED <<form, item, document, req, told, owned, active>>

\* Seeded fault: the row is looked up by its key alone.
LoadAnyPatch(u, q, r) ==
    /\ u \in active /\ req[q].step = "new" /\ Exists(r)
    /\ u \in Staff \/ u = record[r].employee
    /\ req' = [req EXCEPT ![q] = [step |-> "patch", rec |-> r, row |-> record[r]]]
    /\ UNCHANGED <<record, form, item, document, told, owned, active>>

\* patch, up to the save: the row is loaded for HR and for its employee.
LoadPatch(u, q, r) ==
    /\ u \in active /\ req[q].step = "new" /\ Found(r)
    /\ u \in Staff \/ u = record[r].employee
    /\ req' = [req EXCEPT ![q] = [step |-> "patch", rec |-> r, row |-> record[r]]]
    /\ UNCHANGED <<record, form, item, document, told, owned, active>>

\* The save writes every column, is_deleted included.
SavePatch(q) ==
    /\ req[q].step = "patch"
    /\ \E s \in Status, e \in Emp :
           record' = [record EXCEPT ![req[q].rec] =
               [req[q].row EXCEPT !.status = s, !.employee = e]]
    /\ req' = [req EXCEPT ![q] = [step |-> "done"]]
    /\ UNCHANGED <<form, item, document, told, owned, active>>

\* delete: soft_delete saves the deletion columns alone.
Delete(r) ==
    /\ Found(r)
    /\ record' = [record EXCEPT ![r].gone = TRUE]
    /\ UNCHANGED <<form, item, document, req, told, owned, active>>

-----------------------------------------------------------------------------
(* The preference and the exit interview: one row each, OneToOne.           *)

Rows(r, k) == {f \in form : f.rec = r /\ f.kind = k}

\* put, up to the save: the employee may write the preference only.
LoadForm(u, q, r, k) ==
    /\ u \in active /\ req[q].step = "new" /\ Found(r)
    /\ u \in Staff \/ (k = "preference" /\ u = record[r].employee)
    /\ req' = [req EXCEPT ![q] = [step |-> "form", rec |-> r, kind |-> k, row |-> Rows(r, k)]]
    /\ UNCHANGED <<record, form, item, document, told, owned, active>>

UpdateForm(q) ==
    /\ req[q].step = "form" /\ req[q].row # {}
    /\ \E f \in req[q].row :
           form' = {g \in form : g.id # f.id} \cup {[f EXCEPT !.text = q]}
    /\ req' = [req EXCEPT ![q] = [step |-> "done"]]
    /\ UNCHANGED <<record, item, document, told, owned, active>>

\* Seeded fault: the column is a plain foreign key.
CreateManyForms(q) ==
    /\ req[q].step = "form" /\ req[q].row = {}
    /\ form' = form \cup {[rec |-> req[q].rec, kind |-> req[q].kind, id |-> q, text |-> q]}
    /\ req' = [req EXCEPT ![q].step = "done"]
    /\ UNCHANGED <<record, item, document, told, owned, active>>

\* The second of two that found no row violates the OneToOne and answers 500.
CreateForm(q) ==
    /\ req[q].step = "form" /\ req[q].row = {}
    /\ IF Rows(req[q].rec, req[q].kind) = {}
       THEN /\ form' = form \cup
                   {[rec |-> req[q].rec, kind |-> req[q].kind, id |-> q, text |-> q]}
            /\ req' = [req EXCEPT ![q].step = "done"]
       ELSE form' = form /\ req' = [req EXCEPT ![q].step = "failed"]
    /\ UNCHANGED <<record, item, document, told, owned, active>>

-----------------------------------------------------------------------------
(* What hangs off a record.                                                 *)

\* The serializers of clearance items and of stages have `offboarding` among
\* their read-only fields and the views do not pass it to save: the row is
\* inserted without it, which the column refuses.
Given(field, readOnly, payload) == IF field \in readOnly THEN None ELSE payload

\* Seeded fault: the field may be written.
ReadOnlyNothing(k) == {}

ReadOnly(k) == IF k = "document" THEN {} ELSE {"offboarding"}

Inserted(k, r) ==
    LET parent == Given("offboarding", ReadOnly(k), r)
    IN  IF parent = None THEN {} ELSE {[rec |-> parent, kind |-> k]}

AddItem(k, r) ==
    /\ Exists(r)
    /\ item' = item \cup Inserted(k, r)
    /\ UNCHANGED <<record, form, document, req, told, owned, active>>

\* The record of a document is only looked up by its key.
AddDocument(d, r) ==
    /\ document[d] = None /\ Exists(r)
    /\ document' = [document EXCEPT ![d] =
           [rec |-> Given("offboarding", ReadOnly("document"), r), gone |-> FALSE]]
    /\ UNCHANGED <<record, form, item, req, told, owned, active>>

DeleteDocument(d) ==
    /\ document[d] # None /\ ~document[d].gone
    /\ document' = [document EXCEPT ![d].gone = TRUE]
    /\ UNCHANGED <<record, form, item, req, told, owned, active>>

-----------------------------------------------------------------------------
(* The two messages.                                                        *)

\* ClearanceOwnerNotifyView: publish_event is called with the wrong arguments,
\* its TypeError is swallowed and the row is written directly, whoever the
\* owner is.
TellOwner(o) ==
    /\ owned[o] < MaxTold
    /\ owned' = [owned EXCEPT ![o] = @ + 1]
    /\ UNCHANGED <<record, form, item, document, req, told, active>>

\* Seeded fault: the initiator is appended without a look at the list.
ReadersWithInitiator(r) ==
    [e \in Emp |-> (IF e \in Staff \cap active THEN 1 ELSE 0)
                   + (IF e = record[r].by THEN 1 ELSE 0)]

\* The active staff, and the initiator if he is not among them, once each.
Readers(r) ==
    [e \in Emp |-> IF e \in (Staff \cap active) \cup {record[r].by} THEN 1 ELSE 0]

\* ClearanceReportView: the list is read ...
LoadReport(u, q, r) ==
    /\ u \in active /\ req[q].step = "new" /\ Found(r)
    /\ req' = [req EXCEPT ![q] = [step |-> "report", rec |-> r, left |-> Readers(r)]]
    /\ UNCHANGED <<record, form, item, document, told, owned, active>>

\* ... and one row is created after the other,
Tell(q, e) ==
    /\ req[q].step = "report" /\ req[q].left[e] > 0
    /\ told' = [told EXCEPT ![e, q] = @ + 1]
    /\ req' = [req EXCEPT ![q].left[e] = @ - 1]
    /\ UNCHANGED <<record, form, item, document, owned, active>>

\* until the list is empty or the database does not answer.
EndReport(q) ==
    /\ req[q].step = "report"
    /\ req' = [req EXCEPT ![q].step =
           IF \A e \in Emp : req[q].left[e] = 0 THEN "done" ELSE "failed"]
    /\ UNCHANGED <<record, form, item, document, told, owned, active>>

\* The employee leaves: the account is switched off (Accounts).
Leave(e) ==
    /\ e \in active /\ active' = active \ {e}
    /\ UNCHANGED <<record, form, item, document, req, told, owned>>

Next ==
    \/ \E u, e \in Emp, r \in Rec, s \in Status : Submit(u, e, r, s)
    \/ \E u \in Emp, q \in Req, r \in Rec : LoadPatch(u, q, r) \/ LoadReport(u, q, r)
    \/ \E u \in Emp, q \in Req, r \in Rec, k \in Kinds : LoadForm(u, q, r, k)
    \/ \E q \in Req : SavePatch(q) \/ UpdateForm(q) \/ CreateForm(q) \/ EndReport(q)
    \/ \E q \in Req, e \in Emp : Tell(q, e)
    \/ \E r \in Rec : Delete(r)
    \/ \E k \in {"clearance", "stage"}, r \in Rec : AddItem(k, r)
    \/ \E d \in Doc, r \in Rec : AddDocument(d, r)
    \/ \E d \in Doc : DeleteDocument(d)
    \/ \E e \in Emp : TellOwner(e) \/ Leave(e)

Spec == Init /\ [][Next]_vars

-----------------------------------------------------------------------------
\* One preference and one interview per record, whatever requests overlap; and
\* what a record has been given in clearance items and stages is nothing, though
\* it can be completed (views.py:157-178, 196-207, 335-345).
OneOfEach ==
    /\ \A r \in Rec, k \in Kinds : Cardinality(Rows(r, k)) <= 1
    /\ item = {}

\* A report tells nobody twice, and when it is answered with success the
\* initiator and everybody of the staff who is still there has his row
\* (views.py:469-510).
ToldOnce ==
    \A q \in Req :
        /\ \A e \in Emp : told[e, q] <= 1
        /\ (req[q].step = "done" /\ "left" \in DOMAIN req[q]) =>
               \A e \in (Staff \cap active) \cup {record[req[q].rec].by} : told[e, q] = 1

\* A deleted record changes, or comes back, only by a change that had loaded it
\* while it was still there (views.py:115-131 against delete).
DeletedStaysStep ==
    \A r \in Rec : Exists(r) /\ record[r].gone /\ record'[r] # record[r] =>
        \E q \in Req : /\ req[q].step = "patch" /\ req'[q].step = "done"
                       /\ req[q].rec = r /\ ~req[q].row.gone
DeletedStays == [][DeletedStaysStep]_vars
=============================================================================
