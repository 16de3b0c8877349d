------------------------ MODULE ReimbursementProofs ------------------------
(***************************************************************************)
(* Theorems about Reimbursement for every set of requests, claims,         *)
(* expenses and amounts: BooksAgree is inductive, and the decisions follow *)
(* the workflow.  The section order is: what the tables of moves allow,    *)
(* types, the rows that threads hold, bookings, payments, the trail, the   *)
(* theorems.                                                               *)
(***************************************************************************)
EXTENDS Reimbursement, TLAPS

(***************************************************************************)
(* The tables of moves                                                     *)
(***************************************************************************)
\* The five actions on a claim, the statuses they leave and the one they set.
LEMMA ClaimTable ==
  /\ DOMAIN ClaimMoves = {"submit", "request_info", "approve", "reject", "mark_paid"}
  /\ ClaimMoves["submit"].from = {"DRAFT", "INFO_REQUESTED"}
  /\ ClaimMoves["submit"].to = "SUBMITTED"
  /\ ClaimMoves["request_info"].from = {"SUBMITTED"}
  /\ ClaimMoves["request_info"].to = "INFO_REQUESTED"
  /\ ClaimMoves["approve"].from = {"SUBMITTED"}
  /\ ClaimMoves["approve"].to = "APPROVED"
  /\ ClaimMoves["reject"].from = {"SUBMITTED"}
  /\ ClaimMoves["reject"].to = "REJECTED"
  /\ ClaimMoves["mark_paid"].from = {"APPROVED"}
  /\ ClaimMoves["mark_paid"].to = "PAID"
  BY DEF ClaimMoves

\* The four actions on an expense, likewise.
LEMMA ExpenseTable ==
  /\ DOMAIN ExpenseMoves = {"submit", "approve", "reject", "reimburse"}
  /\ ExpenseMoves["submit"].from = {"DRAFT"}
  /\ ExpenseMoves["submit"].to = "SUBMITTED"
  /\ ExpenseMoves["approve"].from = {"SUBMITTED"}
  /\ ExpenseMoves["approve"].to = "APPROVED"
  /\ ExpenseMoves["reject"].from = {"SUBMITTED"}
  /\ ExpenseMoves["reject"].to = "REJECTED"
  /\ ExpenseMoves["reimburse"].from = {"APPROVED"}
  /\ ExpenseMoves["reimburse"].to = "REIMBURSED"
  BY DEF ExpenseMoves

\* Every action sets a status of its own table.
LEMMA MovesTo ==
  /\ \A op \in DOMAIN ClaimMoves :
       ClaimMoves[op].to \in ClaimStatus /\ ClaimMoves[op].from \subseteq ClaimStatus
  /\ \A op \in DOMAIN ExpenseMoves :
       ExpenseMoves[op].to \in ExpenseStatus /\ ExpenseMoves[op].from \subseteq ExpenseStatus
  BY ClaimTable, ExpenseTable DEF ClaimStatus, ExpenseStatus

(***************************************************************************)
(* Types                                                                   *)
(***************************************************************************)
\* The program counter of a request tells which fields it carries.
LEMMA Shape ==
  ASSUME NEW r \in Req
  PROVE  /\ r.pc = "Claim" => r \in ClaimReq
         /\ r.pc = "Patch" => r \in PatchReq
         /\ r.pc = "Log" => r \in LogReq
         /\ r.pc = "Expense" => r \in ExpenseReq
         /\ r.pc = "ExpensePatch" => r \in ExpensePatchReq
         /\ r.pc \in {"Idle", "Claim", "Patch", "Log", "Expense", "ExpensePatch"}
  BY DEF Req, IdleReq, ClaimReq, PatchReq, LogReq, ExpenseReq, ExpensePatchReq

\* What the statements of a thread read is typed.
LEMMA Held ==
  ASSUME TypeOK, NEW w \in Request
  PROVE  /\ req[w] \in Req
         /\ req[w].pc \in {"Claim", "Patch"} =>
              req[w].claim \in Claim /\ req[w].row \in ClaimRow
         /\ At(w, "Claim") => req[w].op \in DOMAIN ClaimMoves
         /\ At(w, "Patch") => req[w].op = "patch"
         /\ At(w, "Log") =>
              req[w].claim \in Claim /\ req[w].from \in ClaimStatus /\ req[w].to \in ClaimStatus
         /\ req[w].pc \in {"Expense", "ExpensePatch"} =>
              req[w].expense \in Expense /\ req[w].row \in ExpenseRow
         /\ At(w, "Expense") => req[w].op \in DOMAIN ExpenseMoves
         /\ At(w, "ExpensePatch") => req[w].op = "patch"
<1>1. req[w] \in Req
  BY DEF TypeOK
<1> QED
  BY <1>1, Shape DEF At, ClaimReq, PatchReq, LogReq, ExpenseReq, ExpensePatchReq

\* The initial state is well typed.
LEMMA TypeInit == Init => TypeOK
  BY ReimbursementAssumption
     DEF ReimbursementAssumption, Init, TypeOK, ClaimRow, ExpenseRow, NoClaim, NoExpense,
         ClaimStatus, ExpenseStatus, Req, IdleReq

\* The threads of claims keep the state well typed.
LEMMA TypeClaim ==
  ASSUME TypeOK, HeldRowsHold, NEW w \in Request, ClaimActions(w)
  PROVE  TypeOK'
<1> USE ReimbursementAssumption DEF ReimbursementAssumption
<1>0. [pc |-> "Idle"] \in Req
  BY DEF Req, IdleReq
<1>1. CASE \E c \in Claim, op \in DOMAIN ClaimMoves : ClaimLoad(w, c, op)
  <2>1. PICK c \in Claim, op \in DOMAIN ClaimMoves : ClaimLoad(w, c, op)
    BY <1>1
  <2>2. [pc |-> "Claim", op |-> op, claim |-> c, row |-> claim[c]] \in Req
    BY DEF TypeOK, Req, ClaimReq
  <2> QED
    BY <2>1, <2>2 DEF ClaimLoad, TypeOK, Becomes
<1>2. CASE ClaimSave(w)
  <2>1. /\ req[w].claim \in Claim /\ ClaimMoves[req[w].op].to \in ClaimStatus
        /\ req[w].row.status \in ClaimStatus
    BY <1>2, Held, MovesTo DEF ClaimSave, At, HeldRowsHold, HeldRowHolds
  <2>2. Logging(w) \in Req
    BY <2>1 DEF Req, LogReq, Logging
  <2> QED
    BY <1>2, <2>1, <2>2 DEF ClaimSave, TypeOK, Becomes, ClaimRow, Taints, ChangesStatus
<1>3. CASE ClaimApprove(w)
  <2>1. req[w].claim \in Claim /\ req[w].row \in ClaimRow
    BY <1>3, Held DEF ClaimApprove, At
  <2>2. claim' \in [Claim -> ClaimRow] /\ expense' \in [Expense -> ExpenseRow]
    <3>1. "APPROVED" \in ClaimStatus /\ "APPROVED" \in ExpenseStatus
      BY DEF ClaimStatus, ExpenseStatus
    <3>2. CASE BooksExpense(req[w].row)
      <4>1. PICK e \in Expense :
              /\ expense' = [expense EXCEPT ![e] = Booked(req[w].claim, req[w].row)]
              /\ claim' = [claim EXCEPT ![req[w].claim] =
                             [@ EXCEPT !.status = "APPROVED", !.expense = e]]
        BY <1>3, <3>2 DEF ClaimApprove
      <4>2. Booked(req[w].claim, req[w].row) \in ExpenseRow
        BY <2>1, <3>1 DEF Booked, ExpenseRow, ClaimRow
      <4> QED
        BY <2>1, <3>1, <4>1, <4>2 DEF TypeOK, ClaimRow
    <3>3. CASE ~ BooksExpense(req[w].row)
      <4>1. [claim[req[w].claim] EXCEPT !.status = "APPROVED", !.expense = req[w].row.expense]
              \in ClaimRow
        BY <2>1, <3>1 DEF TypeOK, ClaimRow
      <4> QED
        BY <1>3, <2>1, <3>3, <4>1 DEF ClaimApprove, TypeOK
    <3> QED
      BY <3>2, <3>3
  <2>3. logged' \in [Claim -> ClaimStatus \cup {"NONE"}] /\ req' \in [Request -> Req]
    BY <1>3, <1>0, <2>1 DEF ClaimApprove, TypeOK, Done, Becomes, ClaimStatus
  <2> QED
    BY <1>3, <2>1, <2>2, <2>3 DEF ClaimApprove, TypeOK, Taints, ChangesStatus
<1>4. CASE ClaimPay(w)
  <2>1. /\ req[w].claim \in Claim /\ req[w].row \in ClaimRow
        /\ req[w].row.status \in ClaimStatus /\ ClaimMoves[req[w].op].to \in ClaimStatus
    BY <1>4, Held, MovesTo DEF ClaimPay, At, HeldRowsHold, HeldRowHolds
  <2>2. Logging(w) \in Req
    BY <2>1 DEF Req, LogReq, Logging
  <2>3. expense' \in [Expense -> ExpenseRow]
    <3>1. CASE req[w].row.expense = None
      BY <1>4, <3>1 DEF ClaimPay, InSync, TypeOK
    <3>2. CASE req[w].row.expense # None
      <4>1. req[w].row.expense \in Expense
        BY <2>1, <3>2 DEF ClaimRow
      <4>2. [expense[req[w].row.expense] EXCEPT !.status = "REIMBURSED"] \in ExpenseRow
        BY <4>1 DEF TypeOK, ExpenseRow, ExpenseStatus
      <4> QED
        BY <1>4, <3>2, <4>1, <4>2 DEF ClaimPay, InSync, TypeOK
    <3> QED
      BY <3>1, <3>2
  <2>4. claim' \in [Claim -> ClaimRow]
    BY <1>4, <2>1 DEF ClaimPay, TypeOK, ClaimRow, ClaimStatus
  <2> QED
    BY <1>4, <2>1, <2>2, <2>3, <2>4 DEF ClaimPay, TypeOK, Becomes, Taints, ChangesStatus
<1>5. CASE ClaimLog(w)
  BY <1>0, <1>5, Held DEF ClaimLog, TypeOK, Done, Becomes
<1>6. CASE \E c \in Claim : ClaimPatchLoad(w, c)
  <2>1. PICK c \in Claim : ClaimPatchLoad(w, c)
    BY <1>6
  <2>2. [pc |-> "Patch", op |-> "patch", claim |-> c, row |-> claim[c]] \in Req
    BY DEF TypeOK, Req, PatchReq
  <2> QED
    BY <2>1, <2>2 DEF ClaimPatchLoad, TypeOK, Becomes
<1>7. CASE \E a \in Amount : ClaimPatchSave(w, a)
  <2>1. PICK a \in Amount : ClaimPatchSave(w, a)
    BY <1>7
  <2>2. req[w].claim \in Claim /\ [req[w].row EXCEPT !.amount = a] \in ClaimRow
    BY <2>1, Held DEF ClaimPatchSave, At, ClaimRow
  <2> QED
    BY <1>0, <2>1, <2>2 DEF ClaimPatchSave, TypeOK, Done, Becomes, Taints
<1> QED
  BY <1>1, <1>2, <1>3, <1>4, <1>5, <1>6, <1>7 DEF ClaimActions

\* The threads of expenses keep the state well typed.
LEMMA TypeExpense ==
  ASSUME TypeOK, NEW w \in Request, ExpenseActions(w)
  PROVE  TypeOK'
<1> USE ReimbursementAssumption DEF ReimbursementAssumption
<1>0. [pc |-> "Idle"] \in Req
  BY DEF Req, IdleReq
<1>1. CASE \E e \in Expense, op \in DOMAIN ExpenseMoves : ExpenseLoad(w, e, op)
  <2>1. PICK e \in Expense, op \in DOMAIN ExpenseMoves : ExpenseLoad(w, e, op)
    BY <1>1
  <2>2. [pc |-> "Expense", op |-> op, expense |-> e, row |-> expense[e]] \in Req
    BY DEF TypeOK, Req, ExpenseReq
  <2> QED
    BY <2>1, <2>2 DEF ExpenseLoad, TypeOK, Becomes
<1>2. CASE ExpenseSave(w)
  <2>1. req[w].expense \in Expense /\ ExpenseMoves[req[w].op].to \in ExpenseStatus
    BY <1>2, Held, MovesTo DEF ExpenseSave, At
  <2> QED
    BY <1>0, <1>2, <2>1 DEF ExpenseSave, TypeOK, Done, Becomes, ExpenseRow, Taints
<1>3. CASE \E e \in Expense : ExpensePatchLoad(w, e)
  <2>1. PICK e \in Expense : ExpensePatchLoad(w, e)
    BY <1>3
  <2>2. [pc |-> "ExpensePatch", op |-> "patch", expense |-> e, row |-> expense[e]] \in Req
    BY DEF TypeOK, Req, ExpensePatchReq
  <2> QED
    BY <2>1, <2>2 DEF ExpensePatchLoad, TypeOK, Becomes
<1>4. CASE \E a \in Amount : ExpensePatchSave(w, a)
  <2>1. PICK a \in Amount : ExpensePatchSave(w, a)
    BY <1>4
  <2>2. req[w].expense \in Expense /\ [req[w].row EXCEPT !.amount = a] \in ExpenseRow
    BY <2>1, Held DEF ExpensePatchSave, At, ExpenseRow
  <2> QED
    BY <1>0, <2>1, <2>2 DEF ExpensePatchSave, TypeOK, Done, Becomes, Taints
<1> QED
  BY <1>1, <1>2, <1>3, <1>4 DEF ExpenseActions

\* Creation, deletion and the death of a thread keep the state well typed.
LEMMA TypeRest ==
  ASSUME TypeOK,
         \/ \E c \in Claim, a \in Amount : CreateClaim(c, a)
         \/ \E e \in Manual, a \in Amount : CreateExpense(e, a)
         \/ \E w \in Request : Die(w)
         \/ \E c \in Claim : ClaimDelete(c)
         \/ \E e \in Expense : ExpenseDelete(e)
  PROVE  TypeOK'
<1> USE ReimbursementAssumption DEF ReimbursementAssumption, TypeOK
<1>1. CASE \E c \in Claim, a \in Amount : CreateClaim(c, a)
  <2>1. PICK c \in Claim, a \in Amount : CreateClaim(c, a)
    BY <1>1
  <2>2. [NoClaim EXCEPT !.status = "DRAFT", !.amount = a] \in ClaimRow
    BY DEF NoClaim, ClaimRow, ClaimStatus
  <2> QED
    BY <2>1, <2>2 DEF CreateClaim, ClaimStatus
<1>2. CASE \E e \in Manual, a \in Amount : CreateExpense(e, a)
  <2>1. PICK e \in Manual, a \in Amount : CreateExpense(e, a)
    BY <1>2
  <2>2. [NoExpense EXCEPT !.status = "DRAFT", !.amount = a] \in ExpenseRow
    BY DEF NoExpense, ExpenseRow, ExpenseStatus
  <2> QED
    BY <2>1, <2>2 DEF CreateExpense
<1>3. CASE \E w \in Request : Die(w)
  <2>1. PICK w \in Request : Die(w)
    BY <1>3
  <2>2. [pc |-> "Idle"] \in Req
    BY DEF Req, IdleReq
  <2>3. At(w, "Log") => req[w].claim \in Claim
    BY Held
  <2> QED
    BY <2>1, <2>2, <2>3 DEF Die, Done, Becomes
<1>4. CASE \E c \in Claim : ClaimDelete(c)
  <2>1. PICK c \in Claim : ClaimDelete(c)
    BY <1>4
  <2>2. [claim[c] EXCEPT !.deleted = TRUE] \in ClaimRow
    <3>1. \A r \in ClaimRow : [r EXCEPT !.deleted = TRUE] \in ClaimRow
      BY DEF ClaimRow
    <3> QED
      BY <3>1
  <2> QED
    BY <2>1, <2>2 DEF ClaimDelete
<1>5. CASE \E e \in Expense : ExpenseDelete(e)
  <2>1. PICK e \in Expense : ExpenseDelete(e)
    BY <1>5
  <2>2. [expense[e] EXCEPT !.deleted = TRUE] \in ExpenseRow
    <3>1. \A r \in ExpenseRow : [r EXCEPT !.deleted = TRUE] \in ExpenseRow
      BY DEF ExpenseRow
    <3> QED
      BY <3>1
  <2> QED
    BY <2>1, <2>2 DEF ExpenseDelete
<1> QED
  BY <1>1, <1>2, <1>3, <1>4, <1>5

\* Every step keeps the state well typed.
LEMMA TypeStep == TypeOK /\ HeldRowsHold /\ [Next]_vars => TypeOK'
<1> SUFFICES ASSUME TypeOK, HeldRowsHold, [Next]_vars
             PROVE  TypeOK'
  OBVIOUS
<1>1. CASE Next
  BY <1>1, TypeClaim, TypeExpense, TypeRest DEF Next
<1>2. CASE UNCHANGED vars
  BY <1>2 DEF vars, TypeOK
<1> QED
  BY <1>1, <1>2
(***************************************************************************)
(* What a step does to the rows                                            *)
(***************************************************************************)
\* Nothing is ever taken out of tainted or unlogged.
LEMMA SetsGrow ==
  ASSUME Next
  PROVE  tainted \subseteq tainted' /\ unlogged \subseteq unlogged'
  BY DEF Next, CreateClaim, CreateExpense, ClaimActions, ExpenseActions, Die, ClaimDelete,
         ExpenseDelete, ClaimLoad, ClaimSave, ClaimApprove, ClaimPay, ClaimLog, ClaimPatchLoad,
         ClaimPatchSave, ExpenseLoad, ExpenseSave, ExpensePatchLoad, ExpensePatchSave, Taints,
         ChangesStatus

\* An expense that exists stays one and keeps the claim it was made for.
LEMMA ExpenseStays ==
  ASSUME BooksAgree, Next, NEW e \in Expense, expense[e] # NoExpense
  PROVE  /\ expense'[e].claim = expense[e].claim
         /\ expense[e].status # "NONE" => expense'[e].status # "NONE"
<1> DEFINE P == /\ expense'[e].claim = expense[e].claim
                /\ expense[e].status # "NONE" => expense'[e].status # "NONE"
<1>0. expense \in [Expense -> ExpenseRow] /\ TypeOK
  BY DEF BooksAgree, TypeOK
<1>1. ASSUME expense' = expense PROVE P
  BY <1>1
<1>2. ASSUME NEW f \in Manual, NEW a \in Amount, CreateExpense(f, a) PROVE P
  BY <1>0, <1>2, ReimbursementAssumption DEF CreateExpense, ReimbursementAssumption
<1>3. ASSUME NEW f \in Expense, ExpenseDelete(f) PROVE P
  BY <1>0, <1>3 DEF ExpenseDelete, ExpenseRow
<1>4. ASSUME NEW w \in Request, ClaimApprove(w) PROVE P
  BY <1>0, <1>4 DEF ClaimApprove
<1>5. ASSUME NEW w \in Request, ClaimPay(w) PROVE P
  BY <1>0, <1>5 DEF ClaimPay, InSync, ExpenseRow
<1>6. ASSUME NEW w \in Request, ExpenseSave(w) PROVE P
  <2>1. ExpenseMoves[req[w].op].to \in ExpenseStatus
    BY <1>0, <1>6, Held, MovesTo DEF ExpenseSave
  <2> QED
    BY <1>0, <1>6, <2>1 DEF ExpenseSave, ExpenseRow, ExpenseStatus
<1>7. ASSUME NEW w \in Request, NEW a \in Amount, ExpensePatchSave(w, a) PROVE P
  <2>1. /\ req[w].row.status # "NONE" /\ req[w].row.claim = expense[req[w].expense].claim
        /\ req[w].row \in ExpenseRow
    BY <1>0, <1>7, Held DEF ExpensePatchSave, BooksAgree, HeldRowsHold, HeldRowHolds, At
  <2> QED
    BY <1>0, <1>7, <2>1 DEF ExpensePatchSave, ExpenseRow
<1>8. P
  <2> HIDE DEF P
  <2>1. /\ \A c \in Claim, a \in Amount : CreateClaim(c, a) => P
        /\ \A c \in Claim : ClaimDelete(c) => P
        /\ \A w \in Request, c \in Claim, op \in DOMAIN ClaimMoves : ClaimLoad(w, c, op) => P
        /\ \A w \in Request, c \in Claim : ClaimPatchLoad(w, c) => P
        /\ \A w \in Request, f \in Expense, op \in DOMAIN ExpenseMoves :
             ExpenseLoad(w, f, op) => P
        /\ \A w \in Request, f \in Expense : ExpensePatchLoad(w, f) => P
        /\ \A w \in Request : ClaimSave(w) \/ ClaimLog(w) \/ Die(w) => P
        /\ \A w \in Request, a \in Amount : ClaimPatchSave(w, a) => P
    BY <1>1 DEF CreateClaim, ClaimDelete, ClaimLoad, ClaimPatchLoad, ExpenseLoad,
       ExpensePatchLoad, ClaimSave, ClaimLog, Die, ClaimPatchSave
  <2> QED
    BY <1>2, <1>3, <1>4, <1>5, <1>6, <1>7, <2>1, Zenon DEF Next, ClaimActions, ExpenseActions
<1> QED
  BY <1>8
\* The claim is not touched; no expense is booked for it or taken from it.
ClaimRests(c) ==
  /\ claim'[c].status = claim[c].status /\ claim'[c].expense = claim[c].expense
  /\ BookedFor(c)' = BookedFor(c)

\* The claim is new.
ClaimEnters(c) ==
  /\ claim[c] = NoClaim /\ BookedFor(c)' = BookedFor(c)
  /\ claim'[c].status = "DRAFT" /\ claim'[c].expense = None

\* The claim is submitted, queried or rejected.
ClaimMoved(c) ==
  /\ <<claim[c].status, claim'[c].status>> \in
       {<<"DRAFT", "SUBMITTED">>, <<"SUBMITTED", "INFO_REQUESTED">>,
        <<"INFO_REQUESTED", "SUBMITTED">>, <<"SUBMITTED", "REJECTED">>}
  /\ claim'[c].expense = claim[c].expense /\ BookedFor(c)' = BookedFor(c)

\* The claim is approved, and an expense that did not exist is booked for it.
ClaimBooked(c) ==
  /\ claim[c].status = "SUBMITTED" /\ claim'[c].status = "APPROVED"
  /\ claim[c].expense = None /\ claim'[c].amount = claim[c].amount
  /\ \E e \in Expense :
       /\ claim'[c].expense = e
       /\ expense[e] = NoExpense /\ expense'[e] = Booked(c, claim[c])
       /\ BookedFor(c)' = BookedFor(c) \cup {e}

\* The claim is paid and its expense reimbursed.
ClaimPaid(c) ==
  /\ claim[c].status = "APPROVED" /\ claim'[c].status = "PAID"
  /\ claim[c].expense \in Expense /\ claim'[c].expense = claim[c].expense
  /\ expense'[claim[c].expense].status = "REIMBURSED"
  /\ BookedFor(c)' = BookedFor(c)

ClaimStep(c) ==
  ClaimRests(c) \/ ClaimEnters(c) \/ ClaimMoved(c) \/ ClaimBooked(c) \/ ClaimPaid(c)

\* As long as no expense changes its claim, BookedFor stays.
LEMMA BookingsStay ==
  ASSUME NEW c \in Claim, \A e \in Expense : expense'[e].claim = c <=> expense[e].claim = c
  PROVE  BookedFor(c)' = BookedFor(c)
  BY DEF BookedFor

\* What a statement of a claim's thread does to a claim that is not written
\* from an outdated row.
LEMMA ClaimSaves ==
  ASSUME BooksAgree, NEW w \in Request, ClaimSave(w), NEW c \in Claim \ tainted'
  PROVE  ClaimStep(c)
<1>1. /\ req[w].claim \in Claim /\ req[w].row.status \in ClaimMoves[req[w].op].from
      /\ req[w].op \in {"submit", "request_info", "reject"} /\ At(w, "Claim")
      /\ claim \in [Claim -> ClaimRow]
  BY Held DEF BooksAgree, TypeOK, HeldRowsHold, HeldRowHolds, ClaimSave, At
<1>2. claim'[c].expense = claim[c].expense /\ BookedFor(c)' = BookedFor(c)
  BY <1>1 DEF ClaimSave, ClaimRow, BookedFor
<1>3. CASE req[w].claim = c
  <2>1. claim[c].status = req[w].row.status /\ claim'[c].status = ClaimMoves[req[w].op].to
    BY <1>1, <1>3 DEF ClaimSave, Taints, StaleClaim, ClaimRow
  <2> QED
    BY <1>1, <1>2, <2>1, ClaimTable DEF ClaimStep, ClaimMoved
<1>4. CASE req[w].claim # c
  BY <1>1, <1>2, <1>4 DEF ClaimSave, ClaimStep, ClaimRests
<1> QED
  BY <1>3, <1>4

\* An approval books the claim, and what other claims have booked stays.
LEMMA ClaimApproves ==
  ASSUME BooksAgree, NEW w \in Request, ClaimApprove(w), NEW c \in Claim \ tainted'
  PROVE  ClaimStep(c)
<1> DEFINE d == req[w].claim
           row == req[w].row
<1>1. /\ d \in Claim /\ row.status = "SUBMITTED" /\ row \in ClaimRow
      /\ row.expense # None => expense[row.expense].claim = d
      /\ claim \in [Claim -> ClaimRow] /\ expense \in [Expense -> ExpenseRow]
  BY Held, ClaimTable
     DEF BooksAgree, TypeOK, HeldRowsHold, HeldRowHolds, ClaimApprove, At
<1>2. c \notin tainted /\ (d = c => claim[c] = row)
  BY <1>1 DEF ClaimApprove, Taints, StaleClaim
<1>3. CASE BooksExpense(row)
  <2>1. PICK e \in Expense : /\ expense[e] = NoExpense
                             /\ expense' = [expense EXCEPT ![e] = Booked(d, row)]
                             /\ claim' = [claim EXCEPT ![d] =
                                            [@ EXCEPT !.status = "APPROVED", !.expense = e]]
    BY <1>3 DEF ClaimApprove
  <2>2. expense[e].claim = None /\ expense'[e].claim = d /\ None \notin Claim
    BY <1>1, <2>1, ReimbursementAssumption DEF NoExpense, Booked, ReimbursementAssumption
  <2>3. CASE d = c
    <3>1. BookedFor(c)' = BookedFor(c) \cup {e}
      BY <1>1, <2>1, <2>2, <2>3 DEF BookedFor
    <3> QED
      BY <1>1, <1>2, <1>3, <2>1, <2>3, <3>1 DEF ClaimStep, ClaimBooked, BooksExpense, ClaimRow
  <2>4. CASE d # c
    <3>1. BookedFor(c)' = BookedFor(c)
      BY <1>1, <2>1, <2>2, <2>4 DEF BookedFor
    <3> QED
      BY <1>1, <2>1, <2>4, <3>1 DEF ClaimStep, ClaimRests
  <2> QED
    BY <2>3, <2>4
<1>4. CASE ~ BooksExpense(row)
  <2>1. d # c
    BY <1>1, <1>2, <1>4 DEF BooksAgree, BookedOnce, BooksExpense
  <2>2. expense' = expense /\ claim'[c] = claim[c]
    BY <1>1, <1>4, <2>1 DEF ClaimApprove
  <2> QED
    BY <2>2 DEF ClaimStep, ClaimRests, BookedFor
<1> QED
  BY <1>3, <1>4

\* A payment reimburses the expense along with the claim.
LEMMA ClaimPays ==
  ASSUME BooksAgree, NEW w \in Request, ClaimPay(w), NEW c \in Claim \ tainted'
  PROVE  ClaimStep(c)
<1> DEFINE d == req[w].claim
           row == req[w].row
<1>1. /\ d \in Claim /\ row.status = "APPROVED" /\ row \in ClaimRow
      /\ d \notin tainted => row.expense # None /\ row.expense = claim[d].expense
      /\ claim \in [Claim -> ClaimRow] /\ expense \in [Expense -> ExpenseRow]
      /\ req[w].op = "mark_paid"
  BY Held, ClaimTable DEF BooksAgree, TypeOK, HeldRowsHold, HeldRowHolds, ClaimPay, At
<1>2. c \notin tainted /\ (d = c => claim[c].status = row.status)
  BY <1>1 DEF ClaimPay, Taints, StaleClaim
<1>3. BookedFor(c)' = BookedFor(c)
  BY <1>1 DEF ClaimPay, InSync, BookedFor, ExpenseRow
<1>4. CASE d = c
  <2>1. row.expense \in Expense /\ row.expense = claim[c].expense /\ row.expense # None
    BY <1>1, <1>2, <1>4 DEF ClaimRow
  <2>2. expense'[row.expense].status = "REIMBURSED"
    BY <1>1, <2>1 DEF ClaimPay, InSync, ExpenseRow
  <2>3. claim'[c].status = "PAID" /\ claim'[c].expense = claim[c].expense
    BY <1>1, <1>4 DEF ClaimPay, ClaimRow
  <2> QED
    BY <1>1, <1>2, <1>3, <1>4, <2>1, <2>2, <2>3 DEF ClaimStep, ClaimPaid
<1>5. CASE d # c
  BY <1>1, <1>3, <1>5 DEF ClaimPay, ClaimStep, ClaimRests
<1> QED
  BY <1>4, <1>5

\* Every step is one of five to a claim that is not written from an outdated
\* row.
LEMMA ClaimSteps ==
  ASSUME BooksAgree, Next, NEW c \in Claim \ tainted'
  PROVE  ClaimStep(c)
<1> DEFINE P == ClaimStep(c)
<1>0. claim \in [Claim -> ClaimRow] /\ expense \in [Expense -> ExpenseRow] /\ TypeOK
  BY DEF BooksAgree, TypeOK
<1>1. ASSUME claim'[c].status = claim[c].status, claim'[c].expense = claim[c].expense,
             \A e \in Expense : expense'[e].claim = c <=> expense[e].claim = c
      PROVE  P
  BY <1>1, BookingsStay DEF ClaimStep, ClaimRests
<1>2. ASSUME claim' = claim, expense' = expense PROVE P
  BY <1>1, <1>2
<1>3. ASSUME NEW d \in Claim, NEW a \in Amount, CreateClaim(d, a) PROVE P
  <2>1. BookedFor(c)' = BookedFor(c)
    BY <1>3 DEF CreateClaim, BookedFor
  <2>2. CASE d = c
    BY <1>0, <1>3, <2>1, <2>2 DEF CreateClaim, ClaimStep, ClaimEnters, NoClaim
  <2>3. CASE d # c
    BY <1>0, <1>3, <2>1, <2>3 DEF CreateClaim, ClaimStep, ClaimRests
  <2> QED
    BY <2>2, <2>3
<1>4. ASSUME NEW e \in Manual, NEW a \in Amount, CreateExpense(e, a) PROVE P
  <2>1. None \notin Claim /\ e \in Expense
    BY ReimbursementAssumption DEF ReimbursementAssumption
  <2> QED
    BY <1>0, <1>1, <1>4, <2>1 DEF CreateExpense, NoExpense
<1>5. ASSUME NEW d \in Claim, ClaimDelete(d) PROVE P
  BY <1>0, <1>1, <1>5 DEF ClaimDelete, ClaimRow
<1>6. ASSUME NEW e \in Expense, ExpenseDelete(e) PROVE P
  BY <1>0, <1>1, <1>6 DEF ExpenseDelete, ExpenseRow
<1>7. ASSUME NEW w \in Request, ExpenseSave(w) PROVE P
  BY <1>0, <1>1, <1>7 DEF ExpenseSave, ExpenseRow
<1>8. ASSUME NEW w \in Request, NEW a \in Amount, ExpensePatchSave(w, a) PROVE P
  <2>1. req[w].row.claim = expense[req[w].expense].claim /\ req[w].row \in ExpenseRow
    BY <1>0, <1>8, Held DEF ExpensePatchSave, BooksAgree, HeldRowsHold, HeldRowHolds, At
  <2> QED
    BY <1>0, <1>1, <1>8, <2>1 DEF ExpensePatchSave, ExpenseRow
<1>9. ASSUME NEW w \in Request, NEW a \in Amount, ClaimPatchSave(w, a) PROVE P
  <2>1. req[w].claim \in Claim /\ req[w].row \in ClaimRow /\ At(w, "Patch")
        /\ req[w].op = "patch"
    BY <1>0, <1>9, Held DEF ClaimPatchSave, At
  <2>2. req[w].claim = c => claim[c] = req[w].row
    BY <1>9, <2>1 DEF ClaimPatchSave, Taints, StaleClaim
  <2> QED
    BY <1>0, <1>1, <1>9, <2>1, <2>2 DEF ClaimPatchSave, ClaimRow
<1> QED
  <2> HIDE DEF P
  <2>1. /\ \A w \in Request, d \in Claim, op \in DOMAIN ClaimMoves : ClaimLoad(w, d, op) => P
        /\ \A w \in Request, d \in Claim : ClaimPatchLoad(w, d) => P
        /\ \A w \in Request, f \in Expense, op \in DOMAIN ExpenseMoves :
             ExpenseLoad(w, f, op) => P
        /\ \A w \in Request, f \in Expense : ExpensePatchLoad(w, f) => P
        /\ \A w \in Request : ClaimLog(w) \/ Die(w) => P
    BY <1>2 DEF ClaimLoad, ClaimPatchLoad, ExpenseLoad, ExpensePatchLoad, ClaimLog, Die
  <2>2. \A w \in Request : ClaimSave(w) \/ ClaimApprove(w) \/ ClaimPay(w) => P
    BY ClaimSaves, ClaimApproves, ClaimPays DEF P
  <2>3. P
    BY <1>3, <1>4, <1>5, <1>6, <1>7, <1>8, <1>9, <2>1, <2>2, Zenon
       DEF Next, ClaimActions, ExpenseActions
  <2> QED
    BY <2>3 DEF P
\* What a step may do to an expense: nothing to its status, make it, take it
\* along its own workflow, or reimburse it with the claim it was booked for,
\* which was approved and is linked to it unless it was written from an
\* outdated row.
ExpenseRests(e) == expense'[e].status = expense[e].status
ExpenseMade(e) == expense[e] = NoExpense /\ expense'[e].status \in {"DRAFT", "APPROVED"}
ExpenseMoved(e) ==
  \E op \in DOMAIN ExpenseMoves : /\ expense[e].status \in ExpenseMoves[op].from
                                  /\ expense'[e].status = ExpenseMoves[op].to
ExpensePaid(e) ==
  /\ expense'[e].status = "REIMBURSED"
  /\ expense'[e].claim \in Claim
  /\ expense'[e].claim \notin tainted' => claim[expense'[e].claim].expense = e

ExpenseStep(e) == ExpenseRests(e) \/ ExpenseMade(e) \/ ExpenseMoved(e) \/ ExpensePaid(e)

\* Every step is one of these to an expense that is not written from an
\* outdated row.
LEMMA ExpenseSteps ==
  ASSUME BooksAgree, Next, NEW e \in Expense \ tainted'
  PROVE  ExpenseStep(e)
<1> DEFINE P == ExpenseStep(e)
<1>0. claim \in [Claim -> ClaimRow] /\ expense \in [Expense -> ExpenseRow] /\ TypeOK
  BY DEF BooksAgree, TypeOK
<1>1. ASSUME expense'[e].status = expense[e].status PROVE P
  BY <1>1 DEF ExpenseStep, ExpenseRests
<1>2. ASSUME NEW f \in Manual, NEW a \in Amount, CreateExpense(f, a) PROVE P
  <2>1. CASE f = e
    BY <1>0, <1>2, <2>1 DEF CreateExpense, ExpenseStep, ExpenseMade, NoExpense
  <2>2. CASE f # e
    BY <1>0, <1>1, <1>2, <2>2 DEF CreateExpense
  <2> QED
    BY <2>1, <2>2
<1>3. ASSUME NEW f \in Expense, ExpenseDelete(f) PROVE P
  BY <1>0, <1>1, <1>3 DEF ExpenseDelete, ExpenseRow
<1>4. ASSUME NEW w \in Request, ClaimApprove(w) PROVE P
  <2>1. CASE expense' = expense
    BY <1>1, <2>1
  <2>2. CASE \E f \in Expense : /\ expense[f] = NoExpense
                                /\ expense' = [expense EXCEPT ![f] = Booked(req[w].claim, req[w].row)]
    BY <1>0, <2>2 DEF ExpenseStep, ExpenseMade, ExpenseRests, Booked
  <2> QED
    BY <1>4, <2>1, <2>2 DEF ClaimApprove
<1>5. ASSUME NEW w \in Request, ClaimPay(w) PROVE P
  <2>1. CASE req[w].row.expense = e /\ e # None
    <3>1. /\ req[w].claim \in Claim /\ expense[e].claim = req[w].claim
          /\ req[w].row.status = "APPROVED"
          /\ req[w].claim \notin tainted => claim[req[w].claim].expense = e
      BY <1>0, <1>5, <2>1, Held, ClaimTable
         DEF ClaimPay, BooksAgree, HeldRowsHold, HeldRowHolds, At
    <3>2. expense'[e].status = "REIMBURSED" /\ expense'[e].claim = expense[e].claim
      BY <1>0, <1>5, <2>1 DEF ClaimPay, InSync, ExpenseRow
    <3>3. tainted \subseteq tainted'
      BY <1>5 DEF ClaimPay, Taints
    <3> QED
      BY <3>1, <3>2, <3>3 DEF ExpenseStep, ExpensePaid
  <2>2. CASE ~ (req[w].row.expense = e /\ e # None)
    <3>1. e # None
      BY ReimbursementAssumption DEF ReimbursementAssumption
    <3> QED
      BY <1>0, <1>1, <1>5, <2>2, <3>1 DEF ClaimPay, InSync
  <2> QED
    BY <2>1, <2>2
<1>6. ASSUME NEW w \in Request, ExpenseSave(w) PROVE P
  <2>1. /\ req[w].expense \in Expense /\ req[w].op \in DOMAIN ExpenseMoves
        /\ req[w].row.status \in ExpenseMoves[req[w].op].from
    BY <1>0, <1>6, Held DEF ExpenseSave, BooksAgree, HeldRowsHold, HeldRowHolds, At
  <2>2. CASE req[w].expense = e
    <3>1. req[w].op # "patch"
      BY <2>1, ExpenseTable
    <3>2. expense[e].status = req[w].row.status
      BY <1>6, <2>2, <3>1 DEF ExpenseSave, Taints, StaleExpense
    <3>3. expense'[e].status = ExpenseMoves[req[w].op].to
      BY <1>0, <1>6, <2>2 DEF ExpenseSave, ExpenseRow
    <3> QED
      BY <2>1, <3>2, <3>3 DEF ExpenseStep, ExpenseMoved
  <2>3. CASE req[w].expense # e
    BY <1>0, <1>1, <1>6, <2>3 DEF ExpenseSave
  <2> QED
    BY <2>2, <2>3
<1>7. ASSUME NEW w \in Request, NEW a \in Amount, ExpensePatchSave(w, a) PROVE P
  <2>1. req[w].expense \in Expense /\ req[w].row \in ExpenseRow /\ req[w].op = "patch"
    BY <1>0, <1>7, Held DEF ExpensePatchSave, At
  <2>2. req[w].expense = e => expense[e] = req[w].row
    BY <1>7, <2>1 DEF ExpensePatchSave, Taints, StaleExpense
  <2> QED
    BY <1>0, <1>1, <1>7, <2>1, <2>2 DEF ExpensePatchSave, ExpenseRow
<1> QED
  <2> HIDE DEF P
  <2>1. /\ \A c \in Claim, a \in Amount : CreateClaim(c, a) => P
        /\ \A c \in Claim : ClaimDelete(c) => P
        /\ \A w \in Request, c \in Claim, op \in DOMAIN ClaimMoves : ClaimLoad(w, c, op) => P
        /\ \A w \in Request, c \in Claim : ClaimPatchLoad(w, c) => P
        /\ \A w \in Request, f \in Expense, op \in DOMAIN ExpenseMoves :
             ExpenseLoad(w, f, op) => P
        /\ \A w \in Request, f \in Expense : ExpensePatchLoad(w, f) => P
        /\ \A w \in Request : ClaimSave(w) \/ ClaimLog(w) \/ Die(w) => P
        /\ \A w \in Request, a \in Amount : ClaimPatchSave(w, a) => P
    BY <1>1 DEF CreateClaim, ClaimDelete, ClaimLoad, ClaimPatchLoad, ExpenseLoad,
       ExpensePatchLoad, ClaimSave, ClaimLog, Die, ClaimPatchSave
  <2>2. P
    BY <1>2, <1>3, <1>4, <1>5, <1>6, <1>7, <2>1, Zenon DEF Next, ClaimActions, ExpenseActions
  <2> QED
    BY <2>2 DEF P

\* What a step does to a thread: it loads current rows, goes on without one,
\* or is somebody else's.
LoadsClaim(w) ==
  \E c \in Claim :
    /\ req'[w].pc \in {"Claim", "Patch"} /\ req'[w].claim = c /\ req'[w].row = claim[c]
    /\ req'[w].pc = "Claim" => claim[c].status \in ClaimMoves[req'[w].op].from
LoadsExpense(w) ==
  \E e \in Expense :
    /\ req'[w].pc \in {"Expense", "ExpensePatch"}
    /\ req'[w].expense = e /\ req'[w].row = expense[e] /\ expense[e].status # "NONE"
    /\ req'[w].pc = "Expense" => expense[e].status \in ExpenseMoves[req'[w].op].from

RequestStep(w) ==
  \/ req'[w] = req[w]
  \/ req'[w].pc \in {"Idle", "Log"}
  \/ UNCHANGED <<claim, expense, tainted>> /\ (LoadsClaim(w) \/ LoadsExpense(w))

\* Every step is one of these for every thread.
LEMMA RequestSteps ==
  ASSUME BooksAgree, Next, NEW w \in Request
  PROVE  RequestStep(w)
<1> DEFINE P == RequestStep(w)
<1> USE DEF RequestStep, LoadsClaim, LoadsExpense
<1>0. req \in [Request -> Req]
  BY DEF BooksAgree, TypeOK
<1>1. ASSUME req' = req PROVE P
  BY <1>1
<1>2. ASSUME NEW v \in Request, Done(v) \/ Becomes(v, Logging(v)) PROVE P
  BY <1>0, <1>2 DEF Done, Becomes, Logging
<1>3. ASSUME NEW v \in Request, NEW c \in Claim, NEW op \in DOMAIN ClaimMoves,
             ClaimLoad(v, c, op)
      PROVE  P
  BY <1>0, <1>3 DEF ClaimLoad, Becomes, At
<1>4. ASSUME NEW v \in Request, NEW c \in Claim, ClaimPatchLoad(v, c) PROVE P
  BY <1>0, <1>4 DEF ClaimPatchLoad, Becomes, At
<1>5. ASSUME NEW v \in Request, NEW e \in Expense, NEW op \in DOMAIN ExpenseMoves,
             ExpenseLoad(v, e, op)
      PROVE  P
  BY <1>0, <1>5 DEF ExpenseLoad, Becomes, At, Live
<1>6. ASSUME NEW v \in Request, NEW e \in Expense, ExpensePatchLoad(v, e) PROVE P
  BY <1>0, <1>6 DEF ExpensePatchLoad, Becomes, At, Live
<1>7. P
  <2> HIDE DEF P
  <2>1. /\ \A c \in Claim, a \in Amount : CreateClaim(c, a) => P
        /\ \A e \in Manual, a \in Amount : CreateExpense(e, a) => P
        /\ \A c \in Claim : ClaimDelete(c) => P
        /\ \A e \in Expense : ExpenseDelete(e) => P
    BY <1>1 DEF CreateClaim, CreateExpense, ClaimDelete, ExpenseDelete
  <2>2. \A v \in Request : /\ ClaimSave(v) \/ ClaimApprove(v) \/ ClaimPay(v) => P
                           /\ ClaimLog(v) \/ ExpenseSave(v) \/ Die(v) => P
                           /\ \A a \in Amount : ClaimPatchSave(v, a) => P
                           /\ \A a \in Amount : ExpensePatchSave(v, a) => P
    BY <1>2 DEF ClaimSave, ClaimApprove, ClaimPay, ClaimLog, ExpenseSave, Die, ClaimPatchSave,
       ExpensePatchSave
  <2> QED
    BY <1>3, <1>4, <1>5, <1>6, <2>1, <2>2, Zenon DEF Next, ClaimActions, ExpenseActions
<1> QED
  BY <1>7

(***************************************************************************)
(* BooksAgree, one conjunct after the other                                *)
(***************************************************************************)
\* An expense linked or held stays the claim's.
LEMMA LinksStay ==
  ASSUME BooksAgree, Next, NEW e \in Expense, NEW c \in Claim, expense[e].claim = c
  PROVE  expense'[e].claim = c
<1>1. expense[e] # NoExpense
  BY ReimbursementAssumption DEF ReimbursementAssumption, NoExpense
<1> QED
  BY <1>1, ExpenseStays

\* Rows that threads hold hold on.
LEMMA HeldRowsStep ==
  ASSUME BooksAgree, Next
  PROVE  HeldRowsHold'
<1> SUFFICES ASSUME NEW w \in Request
             PROVE  HeldRowHolds(w)'
  BY DEF HeldRowsHold
<1>0. /\ claim \in [Claim -> ClaimRow] /\ expense \in [Expense -> ExpenseRow] /\ TypeOK
      /\ HeldRowHolds(w) /\ LinksHold /\ BookedOnce
  BY DEF BooksAgree, TypeOK, HeldRowsHold
<1>1. CASE req'[w] = req[w]
  <2>1. req[w].pc \in {"Claim", "Patch"} =>
          /\ req[w].row.expense # None => expense'[req[w].row.expense].claim = req[w].claim
          /\ req[w].row.status \in {"APPROVED", "PAID"} /\ req[w].claim \notin tainted'
               => /\ req[w].row.expense # None
                  /\ req[w].row.expense = claim'[req[w].claim].expense
    <3> SUFFICES ASSUME req[w].pc \in {"Claim", "Patch"}
                 PROVE  /\ req[w].row.expense # None =>
                             expense'[req[w].row.expense].claim = req[w].claim
                        /\ req[w].row.status \in {"APPROVED", "PAID"} /\ req[w].claim \notin tainted'
                             => /\ req[w].row.expense # None
                                /\ req[w].row.expense = claim'[req[w].claim].expense
      OBVIOUS
    <3>1. req[w].claim \in Claim /\ req[w].row \in ClaimRow
      BY <1>0, Held
    <3>2. req[w].row.expense # None => expense'[req[w].row.expense].claim = req[w].claim
      BY <1>0, <3>1, LinksStay DEF HeldRowHolds, ClaimRow
    <3>3. ASSUME req[w].row.status \in {"APPROVED", "PAID"}, req[w].claim \notin tainted'
          PROVE  req[w].row.expense # None /\ req[w].row.expense = claim'[req[w].claim].expense
      <4>1. req[w].claim \notin tainted
        BY <3>3, SetsGrow
      <4>2. req[w].row.expense # None /\ req[w].row.expense = claim[req[w].claim].expense
        BY <1>0, <3>3, <4>1 DEF HeldRowHolds
      <4>3. claim[req[w].claim].status \in {"APPROVED", "PAID"}
        BY <1>0, <3>1, <4>1, <4>2 DEF BookedOnce
      <4>4. ClaimStep(req[w].claim)
        BY <3>1, <3>3, ClaimSteps
      <4> QED
        BY <4>2, <4>3, <4>4
           DEF ClaimStep, ClaimRests, ClaimEnters, ClaimMoved, ClaimBooked, ClaimPaid, NoClaim
    <3> QED
      BY <3>2, <3>3
  <2>2. req[w].pc \in {"Expense", "ExpensePatch"} =>
          /\ expense'[req[w].expense].status # "NONE"
          /\ req[w].row.claim = expense'[req[w].expense].claim
    BY <1>0, Held, ExpenseStays DEF HeldRowHolds, NoExpense
  <2> QED
    BY <1>0, <1>1, <2>1, <2>2 DEF HeldRowHolds, At
<1>2. CASE req'[w].pc \in {"Idle", "Log"}
  BY <1>2 DEF HeldRowHolds, At
<1>3. CASE UNCHANGED <<claim, expense, tainted>> /\ LoadsClaim(w)
  BY <1>0, <1>3 DEF LoadsClaim, HeldRowHolds, At, LinksHold, BookedOnce
<1>4. CASE UNCHANGED <<claim, expense, tainted>> /\ LoadsExpense(w)
  BY <1>0, <1>4 DEF LoadsExpense, HeldRowHolds, At
<1> QED
  BY <1>1, <1>2, <1>3, <1>4, RequestSteps DEF RequestStep
\* A link, old or new, is to an expense of the claim.
LEMMA LinksStep ==
  ASSUME BooksAgree, Next
  PROVE  LinksHold'
<1> DEFINE P == \A c \in Claim :
                  claim'[c].expense # None => expense'[claim'[c].expense].claim = c
<1>0. /\ claim \in [Claim -> ClaimRow] /\ expense \in [Expense -> ExpenseRow] /\ TypeOK
      /\ LinksHold
  BY DEF BooksAgree, TypeOK
<1>1. ASSUME \A c \in Claim : claim'[c].expense = claim[c].expense PROVE P
  BY <1>0, <1>1, LinksStay DEF LinksHold, ClaimRow
<1>2. ASSUME claim' = claim PROVE P
  BY <1>1, <1>2
<1>3. ASSUME NEW d \in Claim, NEW a \in Amount, CreateClaim(d, a) PROVE P
  <2>1. claim'[d].expense = None /\ \A c \in Claim \ {d} : claim'[c] = claim[c]
    BY <1>0, <1>3 DEF CreateClaim, NoClaim
  <2> QED
    BY <1>0, <2>1, LinksStay DEF LinksHold, ClaimRow
<1>4. ASSUME NEW d \in Claim, ClaimDelete(d) PROVE P
  BY <1>0, <1>1, <1>4 DEF ClaimDelete, ClaimRow
<1>5. ASSUME NEW w \in Request, ClaimSave(w) \/ ClaimPay(w) PROVE P
  BY <1>0, <1>1, <1>5 DEF ClaimSave, ClaimPay, ClaimRow
<1>6. ASSUME NEW w \in Request, ClaimApprove(w) PROVE P
  <2> DEFINE d == req[w].claim
             row == req[w].row
  <2>1. /\ d \in Claim /\ row \in ClaimRow
        /\ row.expense # None => expense[row.expense].claim = d
    BY <1>0, <1>6, Held DEF BooksAgree, HeldRowsHold, HeldRowHolds, ClaimApprove, At
  <2>2. \A c \in Claim \ {d} : claim'[c] = claim[c]
    BY <1>0, <1>6 DEF ClaimApprove
  <2>3. claim'[d].expense # None => expense'[claim'[d].expense].claim = d
    <3>1. CASE BooksExpense(row)
      <4>1. PICK e \in Expense :
              /\ expense' = [expense EXCEPT ![e] = Booked(d, row)]
              /\ claim' = [claim EXCEPT ![d] = [@ EXCEPT !.status = "APPROVED", !.expense = e]]
        BY <1>6, <3>1 DEF ClaimApprove
      <4>2. claim'[d].expense = e /\ expense'[e].claim = d
        BY <1>0, <2>1, <4>1 DEF Booked, ClaimRow
      <4> QED
        BY <4>2
    <3>2. CASE ~ BooksExpense(row)
      <4>1. claim'[d].expense = row.expense /\ expense' = expense
        BY <1>0, <1>6, <2>1, <3>2 DEF ClaimApprove, ClaimRow
      <4> QED
        BY <2>1, <3>2, <4>1 DEF BooksExpense
    <3> QED
      BY <3>1, <3>2
  <2> QED
    BY <1>0, <2>2, <2>3, LinksStay DEF LinksHold, ClaimRow
<1>7. ASSUME NEW w \in Request, NEW a \in Amount, ClaimPatchSave(w, a) PROVE P
  <2> DEFINE d == req[w].claim
             row == req[w].row
  <2>1. /\ d \in Claim /\ row \in ClaimRow
        /\ row.expense # None => expense[row.expense].claim = d
    BY <1>0, <1>7, Held DEF BooksAgree, HeldRowsHold, HeldRowHolds, ClaimPatchSave, At
  <2>2. /\ \A c \in Claim \ {d} : claim'[c] = claim[c]
        /\ claim'[d].expense = row.expense /\ expense' = expense
    BY <1>0, <1>7, <2>1 DEF ClaimPatchSave, ClaimRow
  <2> QED
    BY <1>0, <2>1, <2>2 DEF LinksHold
<1>8. P
  <2> HIDE DEF P
  <2>1. /\ \A e \in Manual, a \in Amount : CreateExpense(e, a) => P
        /\ \A e \in Expense : ExpenseDelete(e) => P
        /\ \A w \in Request, c \in Claim, op \in DOMAIN ClaimMoves : ClaimLoad(w, c, op) => P
        /\ \A w \in Request, c \in Claim : ClaimPatchLoad(w, c) => P
        /\ \A w \in Request : /\ ClaimLog(w) \/ Die(w) => P
                              /\ ExpenseActions(w) => P
    BY <1>2 DEF CreateExpense, ExpenseDelete, ClaimLoad, ClaimPatchLoad, ClaimLog, Die,
       ExpenseActions, ExpenseLoad, ExpenseSave, ExpensePatchLoad, ExpensePatchSave
  <2> QED
    BY <1>3, <1>4, <1>5, <1>6, <1>7, <2>1, Zenon DEF Next, ClaimActions
<1> QED
  BY <1>8 DEF LinksHold

\* A claim is booked once, and by its approval.
LEMMA BookedOnceStep ==
  ASSUME BooksAgree, Next
  PROVE  BookedOnce'
<1> SUFFICES ASSUME NEW c \in Claim \ tainted'
             PROVE  /\ claim'[c].status \in {"APPROVED", "PAID"} => claim'[c].expense # None
                    /\ BookedFor(c)' = {claim'[c].expense} \ {None}
                    /\ claim'[c].expense # None => claim'[c].status \in {"APPROVED", "PAID"}
  BY DEF BookedOnce
<1>1. c \in Claim \ tainted
  BY SetsGrow
<1>2. /\ claim[c].status \in {"APPROVED", "PAID"} => claim[c].expense # None
      /\ BookedFor(c) = {claim[c].expense} \ {None}
      /\ claim[c].expense # None => claim[c].status \in {"APPROVED", "PAID"}
  BY <1>1 DEF BooksAgree, BookedOnce
<1>3. CASE ClaimRests(c)
  BY <1>2, <1>3 DEF ClaimRests
<1>4. CASE ClaimEnters(c)
  BY <1>2, <1>4 DEF ClaimEnters, NoClaim
<1>5. CASE ClaimMoved(c)
  BY <1>2, <1>5 DEF ClaimMoved
<1>6. CASE ClaimBooked(c)
  BY <1>2, <1>6, ReimbursementAssumption DEF ClaimBooked, ReimbursementAssumption
<1>7. CASE ClaimPaid(c)
  BY <1>2, <1>7, ReimbursementAssumption DEF ClaimPaid, ReimbursementAssumption
<1> QED
  BY <1>3, <1>4, <1>5, <1>6, <1>7, ClaimSteps DEF ClaimStep

\* An approved claim's expense may be reimbursed, and a paid one's is.
LEMMA PaidIsReimbursedStep ==
  ASSUME BooksAgree, Next
  PROVE  PaidIsReimbursed'
<1> SUFFICES ASSUME NEW c \in Claim \ tainted', claim'[c].expense \in Expense \ tainted'
             PROVE  /\ expense'[claim'[c].expense].status \in {"APPROVED", "REIMBURSED"}
                    /\ claim'[c].status = "PAID"
                         => expense'[claim'[c].expense].status = "REIMBURSED"
  BY DEF PaidIsReimbursed
<1> DEFINE e == claim'[c].expense
<1>1. c \in Claim \ tainted /\ e \in Expense \ tainted /\ e # None
  BY SetsGrow, ReimbursementAssumption DEF ReimbursementAssumption
<1>2. claim[c].expense = e =>
        /\ expense[e].status \in {"APPROVED", "REIMBURSED"} /\ expense[e] # NoExpense
        /\ claim[c].status = "PAID" => expense[e].status = "REIMBURSED"
  BY <1>1 DEF BooksAgree, PaidIsReimbursed, NoExpense
<1>3. claim[c].expense = e =>
        /\ expense'[e].status \in {"APPROVED", "REIMBURSED"}
        /\ expense[e].status = "REIMBURSED" => expense'[e].status = "REIMBURSED"
  BY <1>1, <1>2, ExpenseSteps, ExpenseTable
     DEF ExpenseStep, ExpenseRests, ExpenseMade, ExpenseMoved, ExpensePaid
<1>4. CASE ClaimRests(c)
  BY <1>2, <1>3, <1>4 DEF ClaimRests
<1>5. CASE ClaimEnters(c)
  BY <1>1, <1>5 DEF ClaimEnters
<1>6. CASE ClaimMoved(c)
  BY <1>3, <1>6 DEF ClaimMoved
<1>7. CASE ClaimBooked(c)
  BY <1>7 DEF ClaimBooked, Booked
<1>8. CASE ClaimPaid(c)
  BY <1>8 DEF ClaimPaid
<1> QED
  BY <1>4, <1>5, <1>6, <1>7, <1>8, ClaimSteps DEF ClaimStep
\* The trail of a claim is left alone by a step that neither moves the claim
\* nor begins, writes or drops an entry of it.
LEMMA TrailRests ==
  ASSUME BooksAgree, NEW c \in Claim \ (tainted \cup unlogged),
         claim'[c].status = claim[c].status, logged'[c] = logged[c],
         \A w \in Request : (req'[w].pc = "Log" /\ req'[w].claim = c) \/ (At(w, "Log") /\ req[w].claim = c)
           => req'[w] = req[w]
  PROVE  /\ LogsPending(c)' = {} => logged'[c] = claim'[c].status
         /\ \A w \in LogsPending(c)' : req'[w].to = claim'[c].status
<1>1. LogsPending(c)' = LogsPending(c)
  BY DEF LogsPending, At
<1>2. \A w \in LogsPending(c) : req'[w] = req[w]
  BY DEF LogsPending
<1> QED
  BY <1>1, <1>2 DEF BooksAgree, TrailIsComplete

\* A move of a claim begins an entry that names its new status.
LEMMA TrailBegins ==
  ASSUME BooksAgree, NEW w \in Request, ClaimSave(w) \/ ClaimPay(w),
         NEW c \in Claim \ (tainted' \cup unlogged')
  PROVE  /\ LogsPending(c)' = {} => logged'[c] = claim'[c].status
         /\ \A v \in LogsPending(c)' : req'[v].to = claim'[c].status
<1>0. /\ req \in [Request -> Req] /\ claim \in [Claim -> ClaimRow]
      /\ req[w].claim \in Claim /\ At(w, "Claim") /\ c \notin tainted \cup unlogged
      /\ ChangesStatus(req[w].claim) /\ logged' = logged /\ Becomes(w, Logging(w))
  BY Held DEF BooksAgree, TypeOK, ClaimSave, ClaimPay, Taints, ChangesStatus, At
<1>1. claim' = [claim EXCEPT ![req[w].claim].status = ClaimMoves[req[w].op].to]
  BY ClaimTable DEF ClaimSave, ClaimPay
<1>2. CASE req[w].claim = c
  <2>1. LogsPending(c) = {}
    BY <1>0, <1>2 DEF ChangesStatus
  <2>2. LogsPending(c)' = {w}
    BY <1>0, <1>2, <2>1 DEF LogsPending, Becomes, Logging, At
  <2>3. req'[w].to = claim'[c].status
    BY <1>0, <1>1, <1>2 DEF Becomes, Logging, ClaimRow
  <2> QED
    BY <2>2, <2>3
<1>3. CASE req[w].claim # c
  BY <1>0, <1>1, <1>3, TrailRests DEF Becomes, Logging, At
<1> QED
  BY <1>2, <1>3

\* Once nothing is pending the trail names the status of the claim.
LEMMA TrailStep ==
  ASSUME BooksAgree, Next
  PROVE  TrailIsComplete'
<1> SUFFICES ASSUME NEW c \in Claim \ (tainted' \cup unlogged')
             PROVE  /\ LogsPending(c)' = {} => logged'[c] = claim'[c].status
                    /\ \A w \in LogsPending(c)' : req'[w].to = claim'[c].status
  BY DEF TrailIsComplete
<1> DEFINE P == /\ LogsPending(c)' = {} => logged'[c] = claim'[c].status
                /\ \A w \in LogsPending(c)' : req'[w].to = claim'[c].status
<1>0. /\ c \in Claim \ (tainted \cup unlogged) /\ TypeOK
      /\ req \in [Request -> Req] /\ claim \in [Claim -> ClaimRow]
      /\ logged \in [Claim -> ClaimStatus \cup {"NONE"}]
      /\ LogsPending(c) = {} => logged[c] = claim[c].status
      /\ \A w \in LogsPending(c) : req[w].to = claim[c].status
  BY SetsGrow DEF BooksAgree, TypeOK, TrailIsComplete
<1>1. ASSUME req' = req, logged' = logged, claim'[c].status = claim[c].status PROVE P
  BY <1>0, <1>1, TrailRests
<1>2. ASSUME NEW w \in Request, NEW r, req' = [req EXCEPT ![w] = r], r.pc # "Log",
             ~ At(w, "Log"), logged' = logged, claim'[c].status = claim[c].status
      PROVE  P
  BY <1>0, <1>2, TrailRests DEF At
<1>2a. ASSUME NEW w \in Request, Done(w), ~ At(w, "Log"), logged' = logged,
              claim'[c].status = claim[c].status
       PROVE  P
  <2>1. [pc |-> "Idle"].pc # "Log"
    OBVIOUS
  <2> QED
    BY <1>2, <1>2a, <2>1 DEF Done, Becomes
<1>3. ASSUME NEW d \in Claim, NEW a \in Amount, CreateClaim(d, a) PROVE P
  <2>1. CASE d = c
    <3>1. claim'[c].status = "DRAFT" /\ logged'[c] = "DRAFT"
      BY <1>0, <1>3, <2>1 DEF CreateClaim, NoClaim
    <3>2. \A w \in LogsPending(c) : req[w].to \in ClaimStatus /\ req[w].to = "NONE"
      BY <1>0, <1>3, <2>1, Held DEF LogsPending, CreateClaim, NoClaim
    <3>3. LogsPending(c)' = {}
      BY <1>3, <3>2 DEF CreateClaim, LogsPending, At, ClaimStatus
    <3> QED
      BY <3>1, <3>3
  <2>2. CASE d # c
    BY <1>0, <1>3, <2>2, TrailRests DEF CreateClaim
  <2> QED
    BY <2>1, <2>2
<1>4. ASSUME NEW d \in Claim, ClaimDelete(d) PROVE P
  BY <1>0, <1>1, <1>4 DEF ClaimDelete, ClaimRow
<1>5. ASSUME NEW w \in Request, ClaimApprove(w) PROVE P
  <2>1. req[w].claim \in Claim /\ At(w, "Claim") /\ req' = [req EXCEPT ![w] = [pc |-> "Idle"]]
    BY <1>0, <1>5, Held DEF ClaimApprove, Done, Becomes, At
  <2>2. CASE req[w].claim = c
    <3>1. LogsPending(c) = {}
      BY <1>0, <1>5, <2>2 DEF ClaimApprove, ChangesStatus
    <3>2. LogsPending(c)' = {}
      BY <1>0, <2>1, <3>1 DEF LogsPending, At
    <3>3. PICK x : claim' = [claim EXCEPT ![c] = [@ EXCEPT !.status = "APPROVED", !.expense = x]]
      BY <1>5, <2>2 DEF ClaimApprove
    <3>4. claim'[c].status = "APPROVED"
      BY <1>0, <3>3 DEF ClaimRow
    <3>5. logged'[c] = "APPROVED"
      BY <1>0, <1>5, <2>2 DEF ClaimApprove
    <3> QED
      BY <3>2, <3>4, <3>5
  <2>3. CASE req[w].claim # c
    <3>1. claim'[c] = claim[c] /\ logged'[c] = logged[c]
      BY <1>0, <1>5, <2>1, <2>3 DEF ClaimApprove
    <3> QED
      BY <1>0, <2>1, <3>1, TrailRests DEF At
  <2> QED
    BY <2>2, <2>3
<1>6. ASSUME NEW w \in Request, ClaimLog(w) PROVE P
  <2>1. req[w].claim \in Claim /\ At(w, "Log") /\ req' = [req EXCEPT ![w] = [pc |-> "Idle"]]
    BY <1>0, <1>6, Held DEF ClaimLog, Done, Becomes
  <2>2. CASE req[w].claim = c
    <3>1. logged'[c] = claim[c].status /\ claim' = claim
      BY <1>0, <1>6, <2>1, <2>2 DEF ClaimLog, LogsPending
    <3>2. \A v \in LogsPending(c)' : v \in LogsPending(c) /\ req'[v] = req[v]
      BY <1>0, <2>1 DEF LogsPending, At
    <3> QED
      BY <1>0, <3>1, <3>2
  <2>3. CASE req[w].claim # c
    BY <1>0, <1>6, <2>1, <2>3, TrailRests DEF ClaimLog
  <2> QED
    BY <2>2, <2>3
<1>7. ASSUME NEW w \in Request, Die(w) PROVE P
  <2>1. ~ (At(w, "Log") /\ req[w].claim = c) /\ req' = [req EXCEPT ![w] = [pc |-> "Idle"]]
    BY <1>7 DEF Die, Done, Becomes
  <2> QED
    BY <1>0, <1>7, <2>1, TrailRests DEF Die
<1>8. ASSUME NEW w \in Request, NEW a \in Amount, ClaimPatchSave(w, a) PROVE P
  <2>1. /\ req[w].claim \in Claim /\ req[w].row \in ClaimRow /\ At(w, "Patch")
        /\ req[w].op = "patch"
    BY <1>0, <1>8, Held DEF ClaimPatchSave, At
  <2>2. req[w].claim = c => claim[c] = req[w].row
    BY <1>8, <2>1 DEF ClaimPatchSave, Taints, StaleClaim
  <2>3. claim'[c].status = claim[c].status
    BY <1>0, <1>8, <2>1, <2>2 DEF ClaimPatchSave, ClaimRow
  <2> QED
    BY <1>2a, <1>8, <2>1, <2>3 DEF ClaimPatchSave, At
<1>9. ASSUME NEW w \in Request, ExpenseSave(w) \/ \E a \in Amount : ExpensePatchSave(w, a)
      PROVE  P
  BY <1>2a, <1>9 DEF ExpenseSave, ExpensePatchSave, At
<1>10. ASSUME NEW w \in Request, NEW d \in Claim,
              ClaimPatchLoad(w, d) \/ \E op \in DOMAIN ClaimMoves : ClaimLoad(w, d, op)
       PROVE  P
  BY <1>2, <1>10 DEF ClaimLoad, ClaimPatchLoad, Becomes, At
<1>11. ASSUME NEW w \in Request, NEW e \in Expense,
              ExpensePatchLoad(w, e) \/ \E op \in DOMAIN ExpenseMoves : ExpenseLoad(w, e, op)
       PROVE  P
  BY <1>2, <1>11 DEF ExpenseLoad, ExpensePatchLoad, Becomes, At
<1>12. P
  <2> HIDE DEF P
  <2>1. /\ \A e \in Manual, a \in Amount : CreateExpense(e, a) => P
        /\ \A e \in Expense : ExpenseDelete(e) => P
    BY <1>1 DEF CreateExpense, ExpenseDelete
  <2>2. \A w \in Request : ClaimSave(w) \/ ClaimPay(w) => P
    BY TrailBegins DEF P
  <2> QED
    BY <1>3, <1>4, <1>5, <1>6, <1>7, <1>8, <1>9, <1>10, <1>11, <2>1, <2>2, Zenon
       DEF Next, ClaimActions, ExpenseActions
<1> QED
  BY <1>12
(***************************************************************************)
(* The theorems                                                            *)
(***************************************************************************)
\* BooksAgree holds at the start ...
LEMMA BooksInit == Init => BooksAgree
<1> SUFFICES ASSUME Init
             PROVE  BooksAgree
  OBVIOUS
<1>1. TypeOK
  BY TypeInit
<1>2. HeldRowsHold /\ LinksHold
  BY DEF Init, HeldRowsHold, HeldRowHolds, LinksHold, At, NoClaim
<1>3. BookedOnce /\ PaidIsReimbursed
  BY ReimbursementAssumption
     DEF ReimbursementAssumption, Init, BookedOnce, BookedFor, PaidIsReimbursed, NoClaim, NoExpense
<1>4. TrailIsComplete
  BY DEF Init, TrailIsComplete, LogsPending, At, NoClaim
<1> QED
  BY <1>1, <1>2, <1>3, <1>4 DEF BooksAgree

\* ... and every step keeps it.
LEMMA BooksStep == BooksAgree /\ [Next]_vars => BooksAgree'
<1> SUFFICES ASSUME BooksAgree, [Next]_vars
             PROVE  BooksAgree'
  OBVIOUS
<1>1. CASE Next
  <2>1. TypeOK'
    BY TypeStep DEF BooksAgree
  <2> QED
    BY <1>1, <2>1, HeldRowsStep, LinksStep, BookedOnceStep, PaidIsReimbursedStep, TrailStep
       DEF BooksAgree
<1>2. CASE UNCHANGED vars
  BY <1>2 DEF vars, BooksAgree, TypeOK, HeldRowsHold, HeldRowHolds, LinksHold, BookedOnce,
     BookedFor, PaidIsReimbursed, TrailIsComplete, LogsPending, At
<1> QED
  BY <1>1, <1>2

\* A claim, its expense and its audit trail tell the same story at every
\* moment, whatever the threads of EmployeeReimbursementViewSet and
\* CompanyExpenseViewSet hold in their hands, for every number of threads.
THEOREM ClaimBooksAgree == Spec => []BooksAgree
<1>1. Init => BooksAgree
  BY BooksInit
<1>2. BooksAgree /\ [Next]_vars => BooksAgree'
  BY BooksStep
<1> QED
  BY <1>1, <1>2, PTL DEF Spec

\* Rows, logs and threads are always well typed.
THEOREM TypeCorrect == Spec => []TypeOK
<1>1. BooksAgree => TypeOK
  BY DEF BooksAgree
<1> QED
  BY <1>1, ClaimBooksAgree, PTL

\* A claim that is not written from an outdated row is booked exactly once, and
\* only when approved.
THEOREM ClaimsBookedOnce == Spec => []BookedOnce
<1>1. BooksAgree => BookedOnce
  BY DEF BooksAgree
<1> QED
  BY <1>1, ClaimBooksAgree, PTL

\* A paid claim's expense is reimbursed, and stays it.
THEOREM PaidClaimsReimbursed == Spec => []PaidIsReimbursed
<1>1. BooksAgree => PaidIsReimbursed
  BY DEF BooksAgree
<1> QED
  BY <1>1, ClaimBooksAgree, PTL

\* The audit trail has no gap but those that overlapping requests and deaths
\* leave.
THEOREM TrailsComplete == Spec => []TrailIsComplete
<1>1. BooksAgree => TrailIsComplete
  BY DEF BooksAgree
<1> QED
  BY <1>1, ClaimBooksAgree, PTL

\* The three facts about a step that DecidedOnce puts together.
LEMMA Decisions ==
  ASSUME BooksAgree, Next
  PROVE  /\ \A c \in Claim \ tainted' : MovesAlong(c) /\ BooksTheAmount(c)
         /\ \A e \in Expense \ tainted' : DecidedInTurn(e)
<1>1. ASSUME NEW c \in Claim \ tainted'
      PROVE  MovesAlong(c) /\ BooksTheAmount(c)
  <2>1. ClaimStep(c)
    BY ClaimSteps
  <2> QED
    BY <2>1 DEF ClaimStep, ClaimRests, ClaimEnters, ClaimMoved, ClaimBooked, ClaimPaid, NoClaim,
       Booked, MovesAlong, BooksTheAmount, Workflow
<1>2. ASSUME NEW e \in Expense \ tainted'
      PROVE  DecidedInTurn(e)
  <2>1. ExpenseStep(e)
    BY ExpenseSteps
  <2>2. CASE ExpenseRests(e) \/ ExpenseMoved(e)
    BY <2>2 DEF ExpenseRests, ExpenseMoved, DecidedInTurn
  <2>3. CASE ExpenseMade(e)
    BY <2>3 DEF ExpenseMade, NoExpense, DecidedInTurn
  <2>4. CASE ExpensePaid(e) /\ expense'[e].claim \notin tainted'
    <3> DEFINE c == expense'[e].claim
    <3>1. /\ c \in Claim \ tainted /\ e \in Expense \ tainted
          /\ claim[c].expense = e /\ expense'[e].status = "REIMBURSED"
      BY <2>4, SetsGrow DEF ExpensePaid
    <3>2. expense[e].status \in {"APPROVED", "REIMBURSED"}
      BY <3>1 DEF BooksAgree, PaidIsReimbursed
    <3> QED
      BY <3>1, <3>2, ExpenseTable DEF DecidedInTurn
  <2> QED
    BY <2>1, <2>2, <2>3, <2>4 DEF ExpenseStep, DecidedInTurn
<1> QED
  BY <1>1, <1>2

\* A decided claim is not reopened, a decided expense is not decided again, and
\* the amount an approval books is the amount the claim stands at.
THEOREM DecisionsHold == Spec => DecidedOnce
<1> DEFINE Follows == \A c \in Claim \ tainted' : MovesAlong(c)
           Amounts == \A c \in Claim \ tainted' : BooksTheAmount(c)
           InTurn == \A e \in Expense \ tainted' : DecidedInTurn(e)
<1>1. BooksAgree /\ [Next]_vars =>
        /\ [claim' # claim => Follows]_vars
        /\ [expense' # expense => InTurn]_vars
        /\ [claim' # claim => Amounts]_vars
  BY Decisions
<1> QED
  BY <1>1, ClaimBooksAgree, PTL
     DEF Spec, DecidedOnce, FollowsWorkflow, ExpensesDecidedOnce, ApprovalBooksTheAmount
=============================================================================
