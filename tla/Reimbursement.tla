--------------------------- MODULE Reimbursement ---------------------------
(***************************************************************************)
(* Reimbursement claims and the company expenses their approval books      *)
(* (apps/expenses).                                                        *)
(*                                                                         *)
(* Every action of the two view sets loads its row in one statement and    *)
(* writes it in a later one.  The workflow actions write the columns they  *)
(* name; a PATCH writes every column of the row as it was loaded.  Approve *)
(* and mark-paid write their rows in one transaction, but read the claim   *)
(* before it begins.  Who may act never changes what the action does, so   *)
(* people are left out: the owner and the privileged are always there.     *)
(***************************************************************************)
EXTENDS Integers, FiniteSets

CONSTANTS
  Request,  \* the server's request threads
  Claim,    \* EmployeeReimbursement rows that may come to exist
  Expense,  \* CompanyExpense rows that may come to exist
  Manual,   \* those of them that may be entered by hand
  Amount,   \* the amounts a claim or an expense may have
  None      \* no row

ASSUME ReimbursementAssumption ==
  /\ Amount \subseteq Nat \ {0}
  /\ Manual \subseteq Expense
  /\ None \notin Claim \cup Expense

VARIABLES
  claim,    \* Claim -> status, amount_claimed, linked_expense, is_deleted
  expense,  \* Expense -> status, amount, the claim it was made for, is_deleted
  logged,   \* Claim -> to_status of its latest audit log
  req,      \* what each request thread is doing
  tainted,  \* claims and expenses written from an outdated row
  unlogged  \* claims whose audit logs came out of order, or not at all

vars == <<claim, expense, logged, req, tainted, unlogged>>

ClaimStatus == {"DRAFT", "SUBMITTED", "INFO_REQUESTED", "APPROVED", "REJECTED", "PAID"}
ExpenseStatus == {"DRAFT", "SUBMITTED", "APPROVED", "REJECTED", "REIMBURSED"}
NoClaim == [status |-> "NONE", amount |-> 0, expense |-> None, deleted |-> FALSE]
NoExpense == [status |-> "NONE", amount |-> 0, claim |-> None, deleted |-> FALSE]

At(w, pc) == req[w].pc = pc
Becomes(w, r) == req' = [req EXCEPT ![w] = r]
Done(w) == Becomes(w, [pc |-> "Idle"])

Live(row) == row.status # "NONE" /\ ~ row.deleted
BookedFor(c) == {e \in Expense : expense[e].claim = c}

\* Seeded fault: paying sets the status the company expense has, not PAID.
ClaimMovesMixed ==
  [submit       |-> [from |-> {"DRAFT", "INFO_REQUESTED"}, to |-> "SUBMITTED"],
   request_info |-> [from |-> {"SUBMITTED"}, to |-> "INFO_REQUESTED"],
   approve      |-> [from |-> {"SUBMITTED"}, to |-> "APPROVED"],
   reject       |-> [from |-> {"SUBMITTED"}, to |-> "REJECTED"],
   mark_paid    |-> [from |-> {"APPROVED"}, to |-> "REIMBURSED"]]

\* What the claim actions require of the status they load, and set it to.
ClaimMoves ==
  [submit       |-> [from |-> {"DRAFT", "INFO_REQUESTED"}, to |-> "SUBMITTED"],
   request_info |-> [from |-> {"SUBMITTED"}, to |-> "INFO_REQUESTED"],
   approve      |-> [from |-> {"SUBMITTED"}, to |-> "APPROVED"],
   reject       |-> [from |-> {"SUBMITTED"}, to |-> "REJECTED"],
   mark_paid    |-> [from |-> {"APPROVED"}, to |-> "PAID"]]

\* The same for the actions on company expenses.
ExpenseMoves ==
  [submit    |-> [from |-> {"DRAFT"}, to |-> "SUBMITTED"],
   approve   |-> [from |-> {"SUBMITTED"}, to |-> "APPROVED"],
   reject    |-> [from |-> {"SUBMITTED"}, to |-> "REJECTED"],
   reimburse |-> [from |-> {"APPROVED"}, to |-> "REIMBURSED"]]

\* The columns thread w decided on, or will write back, are not the row's.
StaleClaim(w) ==
  LET now == claim[req[w].claim]
      row == req[w].row
  IN IF req[w].op \in {"approve", "patch"} THEN now # row ELSE now.status # row.status
StaleExpense(w) ==
  LET now == expense[req[w].expense]
      row == req[w].row
  IN IF req[w].op = "patch" THEN now # row ELSE now.status # row.status

Taints(stale, x) == tainted' = IF stale THEN tainted \cup {x} ELSE tainted

\* A change of claim c's status is committed, its audit log yet to be written.
LogsPending(c) == {w \in Request : At(w, "Log") /\ req[w].claim = c}
ChangesStatus(c) ==
  unlogged' = IF LogsPending(c) = {} THEN unlogged ELSE unlogged \cup {c}
----------------------------------------------------------------------------
Init ==
  /\ claim = [c \in Claim |-> NoClaim]
  /\ expense = [e \in Expense |-> NoExpense]
  /\ logged = [c \in Claim |-> "NONE"]
  /\ req = [w \in Request |-> [pc |-> "Idle"]]
  /\ tainted = {} /\ unlogged = {}

\* perform_create: the claim and its first audit log, in one transaction.
CreateClaim(c, a) ==
  /\ claim[c] = NoClaim
  /\ claim' = [claim EXCEPT ![c] = [NoClaim EXCEPT !.status = "DRAFT", !.amount = a]]
  /\ logged' = [logged EXCEPT ![c] = "DRAFT"]
  /\ UNCHANGED <<expense, req, tainted, unlogged>>

CreateExpense(e, a) ==
  /\ expense[e] = NoExpense
  /\ expense' = [expense EXCEPT ![e] = [NoExpense EXCEPT !.status = "DRAFT", !.amount = a]]
  /\ UNCHANGED <<claim, logged, req, tainted, unlogged>>

\* Seeded fault: a rejected claim may be submitted again.
ClaimLoadReopens(w, c, op) ==
  /\ At(w, "Idle") /\ Live(claim[c])
  /\ claim[c].status \in ClaimMoves[op].from \cup
       IF op = "submit" THEN {"REJECTED"} ELSE {}
  /\ Becomes(w, [pc |-> "Claim", op |-> op, claim |-> c, row |-> claim[c]])
  /\ UNCHANGED <<claim, expense, logged, tainted, unlogged>>

\* get_object, and the action's test of the status.
ClaimLoad(w, c, op) ==
  /\ At(w, "Idle") /\ Live(claim[c])
  /\ claim[c].status \in ClaimMoves[op].from
  /\ Becomes(w, [pc |-> "Claim", op |-> op, claim |-> c, row |-> claim[c]])
  /\ UNCHANGED <<claim, expense, logged, tainted, unlogged>>

\* Seeded fault: the statuses of the entry are swapped.
LoggingSwapped(w) ==
  [pc |-> "Log", claim |-> req[w].claim, from |-> ClaimMoves[req[w].op].to,
   to |-> req[w].row.status]

\* The audit log the action still has to write.
Logging(w) ==
  [pc |-> "Log", claim |-> req[w].claim, from |-> req[w].row.status,
   to |-> ClaimMoves[req[w].op].to]

\* submit, request_info and reject: claim.save(update_fields=["status", ...]).
ClaimSave(w) ==
  /\ At(w, "Claim") /\ req[w].op \in {"submit", "request_info", "reject"}
  /\ LET c == req[w].claim
     IN /\ claim' = [claim EXCEPT ![c].status = ClaimMoves[req[w].op].to]
        /\ Taints(StaleClaim(w), c) /\ ChangesStatus(c)
  /\ Becomes(w, Logging(w))
  /\ UNCHANGED <<expense, logged>>

\* if not claim.linked_expense, on the claim as it was loaded.
BooksExpense(row) == row.expense = None

\* Seeded fault: the amount is left at its default.
BookedEmpty(c, row) == [status |-> "APPROVED", amount |-> 0, claim |-> c, deleted |-> FALSE]

\* The row CompanyExpense.objects.create writes for an approved claim.
Booked(c, row) == [status |-> "APPROVED", amount |-> row.amount, claim |-> c, deleted |-> FALSE]

\* Seeded fault: the expense is created, but claim.linked_expense is not saved.
ClaimApproveUnlinked(w) ==
  /\ At(w, "Claim") /\ req[w].op = "approve"
  /\ LET c == req[w].claim
     IN /\ \E e \in Expense :
             /\ expense[e] = NoExpense
             /\ expense' = [expense EXCEPT ![e] = Booked(c, req[w].row)]
        /\ claim' = [claim EXCEPT ![c].status = "APPROVED"]
        /\ logged' = [logged EXCEPT ![c] = "APPROVED"]
        /\ Taints(StaleClaim(w), c) /\ ChangesStatus(c)
  /\ Done(w)

\* approve: one transaction books the expense, decides the claim and logs it.
ClaimApprove(w) ==
  /\ At(w, "Claim") /\ req[w].op = "approve"
  /\ LET c == req[w].claim
         row == req[w].row
         link(e) == claim' = [claim EXCEPT ![c] =
                      [@ EXCEPT !.status = "APPROVED", !.expense = e]]
     IN /\ IF BooksExpense(row)
           THEN \E e \in Expense : /\ expense[e] = NoExpense
                                   /\ expense' = [expense EXCEPT ![e] = Booked(c, row)]
                                   /\ link(e)
           ELSE link(row.expense) /\ UNCHANGED expense
        /\ logged' = [logged EXCEPT ![c] = "APPROVED"]
        /\ Taints(StaleClaim(w), c) /\ ChangesStatus(c)
  /\ Done(w)

\* Seeded fault: the linked expense is not kept in sync.
NotSynced(row) == expense

\* "Keep CompanyExpense in sync": the linked expense, whatever its status.
InSync(row) ==
  IF row.expense = None THEN expense
  ELSE [expense EXCEPT ![row.expense].status = "REIMBURSED"]

\* mark_paid: one transaction for the claim and its expense.
ClaimPay(w) ==
  /\ At(w, "Claim") /\ req[w].op = "mark_paid"
  /\ LET c == req[w].claim
     IN /\ claim' = [claim EXCEPT ![c].status = "PAID"]
        /\ expense' = InSync(req[w].row)
        /\ Taints(StaleClaim(w), c) /\ ChangesStatus(c)
  /\ Becomes(w, Logging(w))
  /\ UNCHANGED logged

\* _log_status_change.
ClaimLog(w) ==
  /\ At(w, "Log")
  /\ logged' = [logged EXCEPT ![req[w].claim] = req[w].to]
  /\ Done(w)
  /\ UNCHANGED <<claim, expense, tainted, unlogged>>

\* A PATCH of a claim in whatever status: loaded ...
ClaimPatchLoad(w, c) ==
  /\ At(w, "Idle") /\ Live(claim[c])
  /\ Becomes(w, [pc |-> "Patch", op |-> "patch", claim |-> c, row |-> claim[c]])
  /\ UNCHANGED <<claim, expense, logged, tainted, unlogged>>

\* ... and saved, every column of it.
ClaimPatchSave(w, a) ==
  /\ At(w, "Patch")
  /\ LET c == req[w].claim
     IN /\ claim' = [claim EXCEPT ![c] = [req[w].row EXCEPT !.amount = a]]
        /\ Taints(StaleClaim(w), c)
  /\ Done(w)
  /\ UNCHANGED <<expense, logged, unlogged>>

\* destroy: soft_delete writes is_deleted alone, in whatever status.
ClaimDelete(c) ==
  /\ Live(claim[c])
  /\ claim' = [claim EXCEPT ![c].deleted = TRUE]
  /\ UNCHANGED <<expense, logged, req, tainted, unlogged>>

\* Seeded fault: an approved expense may be rejected.
ExpenseLoadReverses(w, e, op) ==
  /\ At(w, "Idle") /\ Live(expense[e])
  /\ expense[e].status \in ExpenseMoves[op].from \cup
       IF op = "reject" THEN {"APPROVED"} ELSE {}
  /\ Becomes(w, [pc |-> "Expense", op |-> op, expense |-> e, row |-> expense[e]])
  /\ UNCHANGED <<claim, expense, logged, tainted, unlogged>>

\* submit, approve, reject and reimburse of a company expense.
ExpenseLoad(w, e, op) ==
  /\ At(w, "Idle") /\ Live(expense[e])
  /\ expense[e].status \in ExpenseMoves[op].from
  /\ Becomes(w, [pc |-> "Expense", op |-> op, expense |-> e, row |-> expense[e]])
  /\ UNCHANGED <<claim, expense, logged, tainted, unlogged>>

ExpenseSave(w) ==
  /\ At(w, "Expense")
  /\ expense' = [expense EXCEPT ![req[w].expense].status = ExpenseMoves[req[w].op].to]
  /\ Taints(StaleExpense(w), req[w].expense)
  /\ Done(w)
  /\ UNCHANGED <<claim, logged, unlogged>>

ExpensePatchLoad(w, e) ==
  /\ At(w, "Idle") /\ Live(expense[e])
  /\ Becomes(w, [pc |-> "ExpensePatch", op |-> "patch", expense |-> e, row |-> expense[e]])
  /\ UNCHANGED <<claim, expense, logged, tainted, unlogged>>

ExpensePatchSave(w, a) ==
  /\ At(w, "ExpensePatch")
  /\ expense' = [expense EXCEPT ![req[w].expense] = [req[w].row EXCEPT !.amount = a]]
  /\ Taints(StaleExpense(w), req[w].expense)
  /\ Done(w)
  /\ UNCHANGED <<claim, logged, unlogged>>

ExpenseDelete(e) ==
  /\ Live(expense[e])
  /\ expense' = [expense EXCEPT ![e].deleted = TRUE]
  /\ UNCHANGED <<claim, logged, req, tainted, unlogged>>

\* A thread dies between two statements that are not of one transaction.
Die(w) ==
  /\ ~ At(w, "Idle")
  /\ unlogged' = IF At(w, "Log") THEN unlogged \cup {req[w].claim} ELSE unlogged
  /\ Done(w)
  /\ UNCHANGED <<claim, expense, logged, tainted>>

ClaimActions(w) ==
  \/ \E c \in Claim, op \in DOMAIN ClaimMoves : ClaimLoad(w, c, op)
  \/ ClaimSave(w) \/ ClaimApprove(w) \/ ClaimPay(w) \/ ClaimLog(w)
  \/ \E c \in Claim : ClaimPatchLoad(w, c)
  \/ \E a \in Amount : ClaimPatchSave(w, a)
ExpenseActions(w) ==
  \/ \E e \in Expense, op \in DOMAIN ExpenseMoves : ExpenseLoad(w, e, op)
  \/ ExpenseSave(w)
  \/ \E e \in Expense : ExpensePatchLoad(w, e)
  \/ \E a \in Amount : ExpensePatchSave(w, a)

Next ==
  \/ \E c \in Claim, a \in Amount : CreateClaim(c, a)
  \/ \E e \in Manual, a \in Amount : CreateExpense(e, a)
  \/ \E w \in Request : ClaimActions(w) \/ ExpenseActions(w) \/ Die(w)
  \/ \E c \in Claim : ClaimDelete(c)
  \/ \E e \in Expense : ExpenseDelete(e)

Spec == Init /\ [][Next]_vars
----------------------------------------------------------------------------
ClaimRow == [status : ClaimStatus \cup {"NONE"}, amount : Amount \cup {0},
             expense : Expense \cup {None}, deleted : BOOLEAN]
ExpenseRow == [status : ExpenseStatus \cup {"NONE"}, amount : Amount \cup {0},
               claim : Claim \cup {None}, deleted : BOOLEAN]

\* What a request thread carries from one statement to the next.
IdleReq == [pc : {"Idle"}]
ClaimReq == [pc : {"Claim"}, op : DOMAIN ClaimMoves, claim : Claim, row : ClaimRow]
PatchReq == [pc : {"Patch"}, op : {"patch"}, claim : Claim, row : ClaimRow]
LogReq == [pc : {"Log"}, claim : Claim, from : ClaimStatus, to : ClaimStatus]
ExpenseReq == [pc : {"Expense"}, op : DOMAIN ExpenseMoves, expense : Expense, row : ExpenseRow]
ExpensePatchReq == [pc : {"ExpensePatch"}, op : {"patch"}, expense : Expense, row : ExpenseRow]
Req == IdleReq \cup ClaimReq \cup PatchReq \cup LogReq \cup ExpenseReq \cup ExpensePatchReq

\* Claims, expenses and audit logs hold what their columns allow.
TypeOK ==
  /\ claim \in [Claim -> ClaimRow] /\ expense \in [Expense -> ExpenseRow]
  /\ logged \in [Claim -> ClaimStatus \cup {"NONE"}]
  /\ req \in [Request -> Req]
  /\ tainted \subseteq Claim \cup Expense /\ unlogged \subseteq Claim

\* A row that a thread holds still says what nothing may change behind its
\* back: which expense belongs to which claim, and, once a claim is approved
\* and as long as it is written from current rows, the expense it is linked to.
HeldRowHolds(w) ==
  LET row == req[w].row
  IN /\ req[w].pc \in {"Claim", "Patch"} =>
          /\ row.expense # None => expense[row.expense].claim = req[w].claim
          /\ row.status \in {"APPROVED", "PAID"} /\ req[w].claim \notin tainted
               => row.expense # None /\ row.expense = claim[req[w].claim].expense
     /\ At(w, "Claim") => row.status \in ClaimMoves[req[w].op].from
     /\ req[w].pc \in {"Expense", "ExpensePatch"} =>
          /\ row.status # "NONE" /\ expense[req[w].expense].status # "NONE"
          /\ row.claim = expense[req[w].expense].claim
     /\ At(w, "Expense") => row.status \in ExpenseMoves[req[w].op].from

\* See HeldRowHolds: it does for every thread.
HeldRowsHold == \A w \in Request : HeldRowHolds(w)

\* The expense a claim is linked to was booked for that claim, outdated rows
\* or not.
LinksHold ==
  \A c \in Claim : claim[c].expense # None => expense[claim[c].expense].claim = c

\* A claim is booked once and only by its approval, and the expense booked is
\* the one it is linked to, however its decisions, edits and payment interleave,
\* unless a request wrote the claim back from an outdated row
\* (EmployeeReimbursementViewSet.approve).
BookedOnce ==
  \A c \in Claim \ tainted :
    /\ claim[c].status \in {"APPROVED", "PAID"} => claim[c].expense # None
    /\ BookedFor(c) = {claim[c].expense} \ {None}
    /\ claim[c].expense # None => claim[c].status \in {"APPROVED", "PAID"}

\* Paying a claim leaves its expense reimbursed for good, whatever is done to
\* the expense in between, unless either was written from an outdated row;
\* until it is paid the expense is one that may be reimbursed.
PaidIsReimbursed ==
  \A c \in Claim \ tainted :
    claim[c].expense \in Expense \ tainted =>
      /\ expense[claim[c].expense].status \in {"APPROVED", "REIMBURSED"}
      /\ claim[c].status = "PAID" => expense[claim[c].expense].status = "REIMBURSED"

\* An approval books the amount the claim stands at, not the one it was loaded
\* with, unless the claim was edited in between.
BooksTheAmount(c) ==
  claim[c].status # "APPROVED" /\ claim'[c].status = "APPROVED"
    => expense'[claim'[c].expense].amount = claim'[c].amount
ApprovalBooksTheAmount ==
  [][claim' # claim => \A c \in Claim \ tainted' : BooksTheAmount(c)]_vars

\* The workflow of the view set's docstring: a decided claim is never reopened
\* and a paid one never moves, unless written from an outdated row.
Workflow ==
  {<<"NONE", "DRAFT">>, <<"DRAFT", "SUBMITTED">>, <<"SUBMITTED", "INFO_REQUESTED">>,
   <<"INFO_REQUESTED", "SUBMITTED">>, <<"SUBMITTED", "APPROVED">>,
   <<"SUBMITTED", "REJECTED">>, <<"APPROVED", "PAID">>}

\* See Workflow: the status follows it along every behaviour.
MovesAlong(c) ==
  claim'[c].status # claim[c].status => <<claim[c].status, claim'[c].status>> \in Workflow
FollowsWorkflow == [][claim' # claim => \A c \in Claim \ tainted' : MovesAlong(c)]_vars

\* A company expense is decided once and reimbursed only when approved, also
\* when it is the payment of a claim that reimburses it, which tests nothing.
DecidedInTurn(e) ==
  expense'[e].status # expense[e].status =>
    \/ \E op \in DOMAIN ExpenseMoves : /\ expense[e].status \in ExpenseMoves[op].from
                                       /\ expense'[e].status = ExpenseMoves[op].to
    \/ expense[e].status = "NONE" /\ expense'[e].status \in {"DRAFT", "APPROVED"}
    \/ expense'[e].claim \in tainted'
ExpensesDecidedOnce ==
  [][expense' # expense => \A e \in Expense \ tainted' : DecidedInTurn(e)]_vars

\* The audit trail has no gap: once the request that moved a claim is through,
\* the latest entry names the claim's status, and until then the request is
\* about to write it, unless a request died before its entry, two moves
\* overlapped, or the claim was written from an outdated row.
TrailIsComplete ==
  \A c \in Claim \ (tainted \cup unlogged) :
    /\ LogsPending(c) = {} => logged[c] = claim[c].status
    /\ \A w \in LogsPending(c) : req[w].to = claim[c].status

\* A claim, its expense and its trail tell the same story at every moment,
\* whatever the threads hold.
BooksAgree ==
  /\ TypeOK /\ HeldRowsHold /\ LinksHold
  /\ BookedOnce /\ PaidIsReimbursed /\ TrailIsComplete

\* Decisions are made once and about what is there: claims follow the workflow,
\* expenses are decided once, and the amount approved is the amount booked.
DecidedOnce == FollowsWorkflow /\ ExpensesDecidedOnce /\ ApprovalBooksTheAmount
=============================================================================
