---------------------------- MODULE LeaveLedger ----------------------------
(***************************************************************************)
(* Leave requests, the leave balances they are charged to and the          *)
(* attendance rows an approval writes (apps/attendance).                   *)
(*                                                                         *)
(* The views are plain APIViews on an autocommit PostgreSQL connection: no *)
(* transaction and no row lock spans two ORM statements.  A request is     *)
(* therefore a process that reads a row in one step and writes it back in  *)
(* a later one; between the two any other request may run, and a request   *)
(* may die after any statement.                                            *)
(*                                                                         *)
(* used_days is kept as a bag of charges (how many times each request's    *)
(* days_count was added), so that a double charge and a lost update are    *)
(* visible; UsedDays is the number the column holds.                       *)
(*                                                                         *)
(* Three history variables name the accidents:                             *)
(*   dirty    requests holding an image another request has overwritten    *)
(*   tainted  what was written from such an outdated image                 *)
(*   died     leave whose review died after APPROVED, before the charge    *)
(***************************************************************************)
EXTENDS Integers, FiniteSets, FiniteSetsExt

CONSTANTS
  Request,     \* the server's request threads
  Person,      \* employees
  Ceo,         \* those whose designation is "ceo"
  Leave,       \* LeaveRequest rows that may come to exist
  Owner,       \* Leave -> Person: LeaveRequest.employee
  MayReview,   \* Leave -> SUBSET Person: who passes the authorization block
  Balance,     \* LeaveBalance rows, one per (employee, leave type, year)
  BalanceOf,   \* Leave -> Balance: the row of (employee, type, start_date.year)
  MaxDays,     \* Balance -> Nat: LeaveType.max_days, 0 for no quota
  Emergency,   \* the requests with is_emergency and a medical certificate
  DaysCount,   \* Leave -> Nat: LeaveRequest.days_count
  Totals,      \* the total_days an administrator may assign
  LastDay,     \* the model's calendar is 1..LastDay
  Dates,       \* Leave -> SUBSET 1..LastDay: start_date..end_date
  Corrections  \* the (employee, date, status, check_in given) HR may post

ASSUME LeaveAssumption ==
  /\ Ceo \subseteq Person
  /\ Owner \in [Leave -> Person]
  /\ MayReview \in [Leave -> SUBSET Person]
  /\ BalanceOf \in [Leave -> Balance]
  /\ MaxDays \in [Balance -> Nat]
  /\ DaysCount \in [Leave -> Nat \ {0}]
  /\ Emergency \subseteq Leave
  /\ Totals \subseteq Nat
  /\ LastDay \in Nat \ {0}
  /\ Dates \in [Leave -> SUBSET (1..LastDay)]
  /\ Corrections \subseteq
       Person \X (1..LastDay)
         \X {"PRESENT", "ABSENT", "HALF_DAY", "WFH", "ON_LEAVE", "HOLIDAY", "WEEKEND"}
         \X BOOLEAN

VARIABLES
  leave,       \* Leave -> LeaveRequest.status, "NONE" before it is submitted
  balance,     \* Balance -> the row: exists, total_days, used_days
  attendance,  \* (employee, date) -> AttendanceRecord: status, check_in set
  today,       \* date.today()
  req,         \* what each request thread is doing
  dirty, tainted, died

vars == <<leave, balance, attendance, today, req, dirty, tainted, died>>

Day == 1..LastDay
AttendanceKey == Person \X Day
Status == {"NONE", "PENDING", "APPROVED", "REJECTED", "CANCELLED"}
DayStatus == {"NONE", "PRESENT", "ABSENT", "HALF_DAY", "WFH", "ON_LEAVE", "HOLIDAY", "WEEKEND"}

\* What a check-in makes of a day, and all that an approved leave respects: a
\* half day, worked or not, is none of it.
WholeDay == {"PRESENT", "WFH"}
Charges == [Leave -> Nat]

\* A request thread between two statements, with what it has read so far.
IdleReq     == [pc : {"Idle"}]
LeaveReq    == [pc : {"AutoApprove", "Cancel", "LoadBalance"}, leave : Leave]
ApplyReq    == [pc : {"Quota", "Insert"}, leave : Leave, total : Nat, used : Charges]
DecideReq   == [pc : {"Decide"}, leave : Leave, verdict : {"APPROVED", "REJECTED"}]
ChargeReq   == [pc : {"Charge"}, leave : Leave, used : Charges]
DaysReq     == [pc : {"Days"}, leave : Leave, todo : SUBSET Day]
SaveDayReq  == [pc : {"SaveDay"}, leave : Leave, todo : SUBSET Day, day : Day]
CheckInReq  == [pc : {"CheckIn"}, who : Person, day : Day, as : WholeDay]

Req == IdleReq \cup LeaveReq \cup ApplyReq \cup DecideReq \cup ChargeReq
         \cup DaysReq \cup SaveDayReq \cup CheckInReq

\* Names of what a request reads and what a write changes.
LeaveRow(l) == <<"leave", l>>
UsedDays(b) == <<"used_days", b>>
Quota(b)    == <<"quota", b>>
DayRow(k)   == <<"attendance", k>>

\* What request r has read and will write back, or rely on, later.
Held(r) ==
  CASE r.pc \in {"AutoApprove", "Decide", "Cancel"} -> {LeaveRow(r.leave)}
    [] r.pc = "Charge" -> {UsedDays(BalanceOf[r.leave])}
    [] r.pc = "SaveDay" -> {DayRow(<<Owner[r.leave], r.day>>)}
    [] r.pc = "CheckIn" -> {DayRow(<<r.who, r.day>>)}
    [] r.pc \in {"Quota", "Insert"} -> {Quota(BalanceOf[r.leave])}
    [] OTHER -> {}

Outdated(X) == {v \in Request : Held(req[v]) \cap X # {}}

\* Request w commits a write of X and lets go of the image it held.
Writes(w, X) ==
  /\ dirty' = (dirty \cup Outdated(X)) \ {w}
  /\ tainted' = IF w \in dirty THEN tainted \cup Held(req[w]) ELSE tainted

\* Request w commits nothing in this step.
WritesNothing(w) == dirty' = dirty \ {w} /\ UNCHANGED tainted

Becomes(w, r) == req' = [req EXCEPT ![w] = r]
Done(w) == Becomes(w, [pc |-> "Idle"])
At(w, pc) == req[w].pc = pc

Days(used, L) == MapThenSumSet(LAMBDA l : used[l] * DaysCount[l], L)
ChargedTo(b) == {l \in Leave : BalanceOf[l] = b}

\* The owner's PENDING requests of the same type and year, excluding none.
PendingDays(b) ==
  Days([l \in Leave |-> 1], {l \in ChargedTo(b) : leave[l] = "PENDING"})
----------------------------------------------------------------------------
Init ==
  /\ leave = [l \in Leave |-> "NONE"]
  /\ balance = [b \in Balance |->
       [exists |-> FALSE, total |-> 0, used |-> [l \in Leave |-> 0]]]
  /\ attendance = [k \in AttendanceKey |-> [status |-> "NONE", in |-> FALSE]]
  /\ today = 1
  /\ req = [w \in Request |-> [pc |-> "Idle"]]
  /\ dirty = {} /\ tainted = {} /\ died = {}

\* LeaveRequestSerializer.validate reads the balance row, or the type's
\* max_days when there is none.  A submission makes a row of its own.
ApplyReadBalance(w, l) ==
  /\ At(w, "Idle") /\ leave[l] = "NONE"
  /\ \A v \in Request : req[v].pc \in {"Quota", "Insert"} => req[v].leave # l
  /\ LET row == balance[BalanceOf[l]]
     IN Becomes(w, [pc |-> "Quota", leave |-> l, used |-> row.used,
                    total |-> IF row.exists THEN row.total
                              ELSE MaxDays[BalanceOf[l]]])
  /\ UNCHANGED <<leave, balance, attendance, today, dirty, tainted, died>>

\* Seeded fault: the aggregate over pending requests is forgotten.
QuotaIgnoresPending(l, total, used) ==
  total > 0 => Days(used, ChargedTo(BalanceOf[l])) + DaysCount[l] <= total

\* ... then sums the pending requests; a total of 0 means no quota.
QuotaAllows(l, total, used) ==
  LET b == BalanceOf[l]
  IN total > 0 =>
       Days(used, ChargedTo(b)) + PendingDays(b) + DaysCount[l] <= total

ApplyCheckQuota(w) ==
  /\ At(w, "Quota")
  /\ LET r == req[w]
     IN IF QuotaAllows(r.leave, r.total, r.used)
        THEN Becomes(w, [r EXCEPT !.pc = "Insert"]) /\ UNCHANGED dirty
        ELSE Done(w) /\ dirty' = dirty \ {w}
  /\ UNCHANGED <<leave, balance, attendance, today, tainted, died>>

\* serializer.save(employee=request.user); the CEO's own request goes on.
ApplyInsert(w) ==
  /\ At(w, "Insert")
  /\ LET l == req[w].leave
     IN /\ leave' = [leave EXCEPT ![l] = "PENDING"]
        /\ Writes(w, {LeaveRow(l), Quota(BalanceOf[l])})
        /\ IF Owner[l] \in Ceo
           THEN Becomes(w, [pc |-> "AutoApprove", leave |-> l])
           ELSE Done(w)
  /\ UNCHANGED <<balance, attendance, today, died>>

\* The CEO's leave.save(): every column from the object held in memory.
ApplyAutoApprove(w) ==
  /\ At(w, "AutoApprove")
  /\ LET l == req[w].leave
     IN /\ leave' = [leave EXCEPT ![l] = "APPROVED"]
        /\ Writes(w, {LeaveRow(l), Quota(BalanceOf[l])})
  /\ Done(w)
  /\ UNCHANGED <<balance, attendance, today, died>>

\* Seeded fault: the PENDING guard lets an approved request through.
ReviewLoadDecided(w, l, who, verdict) ==
  /\ At(w, "Idle") /\ leave[l] \in {"PENDING", "APPROVED"}
  /\ who \in MayReview[l]
  /\ who = Owner[l] => who \in Ceo
  /\ Becomes(w, [pc |-> "Decide", leave |-> l, verdict |-> verdict])
  /\ UNCHANGED <<leave, balance, attendance, today, dirty, tainted, died>>

\* LeaveReviewView reads the request: PENDING, a reviewer the authorization
\* block accepts, and nobody but the CEO on a request of their own.
ReviewLoad(w, l, who, verdict) ==
  /\ At(w, "Idle") /\ leave[l] = "PENDING"
  /\ who \in MayReview[l]
  /\ who = Owner[l] => who \in Ceo
  /\ Becomes(w, [pc |-> "Decide", leave |-> l, verdict |-> verdict])
  /\ UNCHANGED <<leave, balance, attendance, today, dirty, tainted, died>>

\* Seeded fault: the default of the getattr the other way round.
ExemptUnlessSet(l) == TRUE

\* getattr(leave, "exempt_from_balance", False): LeaveRequest has no such
\* attribute (only its serializer computes one), so nothing is ever exempt.
ExemptFromBalance(l) == FALSE

\* Seeded fault: the deduction outside the if status == APPROVED.
ReviewDecideChargesAlways(w) ==
  /\ At(w, "Decide")
  /\ LET l == req[w].leave
     IN /\ leave' = [leave EXCEPT ![l] = req[w].verdict]
        /\ Writes(w, {LeaveRow(l), Quota(BalanceOf[l])})
        /\ Becomes(w, [pc |-> "LoadBalance", leave |-> l])
  /\ UNCHANGED <<balance, attendance, today, died>>

\* leave.save(update_fields=["status", ...]); only an approval goes on.
ReviewDecide(w) ==
  /\ At(w, "Decide")
  /\ LET l == req[w].leave
     IN /\ leave' = [leave EXCEPT ![l] = req[w].verdict]
        /\ Writes(w, {LeaveRow(l), Quota(BalanceOf[l])})
        /\ IF req[w].verdict = "REJECTED" THEN Done(w)
           ELSE IF ExemptFromBalance(l)
           THEN Becomes(w, [pc |-> "Days", leave |-> l, todo |-> Dates[l]])
           ELSE Becomes(w, [pc |-> "LoadBalance", leave |-> l])
  /\ UNCHANGED <<balance, attendance, today, died>>

\* LeaveBalance.objects.get_or_create(...): the row is now in memory.
ReviewLoadBalance(w) ==
  /\ At(w, "LoadBalance")
  /\ LET b == BalanceOf[req[w].leave]
     IN /\ balance' = IF balance[b].exists THEN balance
                      ELSE [balance EXCEPT ![b] =
                              [@ EXCEPT !.exists = TRUE, !.total = MaxDays[b]]]
        /\ Becomes(w, [pc |-> "Charge", leave |-> req[w].leave,
                       used |-> balance[b].used])
  /\ UNCHANGED <<leave, attendance, today, dirty, tainted, died>>

\* Seeded fault: the days are taken away.
AddNegative(used, l) == [used EXCEPT ![l] = @ - 1]

\* Seeded fault: curr_used is forgotten.
AddToZero(used, l) == [m \in Leave |-> IF m = l THEN 1 ELSE 0]

\* balance.used_days = curr_used + days_add, computed from the row in memory.
Add(used, l) == [used EXCEPT ![l] = @ + 1]

ReviewCharge(w) ==
  /\ At(w, "Charge")
  /\ LET l == req[w].leave
         b == BalanceOf[l]
     IN /\ balance' = [balance EXCEPT ![b].used = Add(req[w].used, l)]
        /\ Writes(w, {UsedDays(b), Quota(b)})
        /\ Becomes(w, [pc |-> "Days", leave |-> l, todo |-> Dates[l]])
  /\ UNCHANGED <<leave, attendance, today, died>>

\* Seeded fault: WFH is missing from the tuple.
KeepsOfficeDay(status) == status = "PRESENT"

\* A day marked as worked in whole is left alone; a half day is not.
KeepsDay(status) == status \in WholeDay

\* The loop over start_date..end_date: get_or_create the day's row, then save
\* it as ON_LEAVE.
ReviewLoadDay(w) ==
  /\ At(w, "Days")
  /\ LET r == req[w]
     IN \/ r.todo = {} /\ Done(w) /\ UNCHANGED <<attendance, dirty>>
        \/ \E d \in r.todo :
             LET k == <<Owner[r.leave], d>>
                 new == attendance[k].status = "NONE"
             IN /\ \A e \in r.todo : d <= e
                /\ IF KeepsDay(attendance[k].status)
                   THEN Becomes(w, [r EXCEPT !.todo = @ \ {d}])
                   ELSE Becomes(w, [pc |-> "SaveDay", leave |-> r.leave,
                                    todo |-> r.todo \ {d}, day |-> d])
                /\ attendance' = IF new
                                 THEN [attendance EXCEPT ![k].status = "ON_LEAVE"]
                                 ELSE attendance
                /\ dirty' = IF new THEN dirty \cup Outdated({DayRow(k)}) ELSE dirty
  /\ UNCHANGED <<leave, balance, today, tainted, died>>

ReviewSaveDay(w) ==
  /\ At(w, "SaveDay")
  /\ LET r == req[w]
         k == <<Owner[r.leave], r.day>>
     IN /\ attendance' = [attendance EXCEPT ![k].status = "ON_LEAVE"]
        /\ Writes(w, {DayRow(k)})
        /\ Becomes(w, [pc |-> "Days", leave |-> r.leave, todo |-> r.todo])
  /\ UNCHANGED <<leave, balance, today, died>>

\* Seeded fault: the status guard is dropped.
CancelLoadAny(w, l) ==
  /\ At(w, "Idle") /\ leave[l] # "NONE"
  /\ Becomes(w, [pc |-> "Cancel", leave |-> l])
  /\ UNCHANGED <<leave, balance, attendance, today, dirty, tainted, died>>

\* LeaveRequestDetailView.delete: the owner withdraws a request; the charge of
\* an approved one stays on the balance and its attendance rows stay ON_LEAVE.
CancelLoad(w, l) ==
  /\ At(w, "Idle") /\ leave[l] \in {"PENDING", "APPROVED"}
  /\ Becomes(w, [pc |-> "Cancel", leave |-> l])
  /\ UNCHANGED <<leave, balance, attendance, today, dirty, tainted, died>>

CancelSave(w) ==
  /\ At(w, "Cancel")
  /\ LET l == req[w].leave
     IN /\ leave' = [leave EXCEPT ![l] = "CANCELLED"]
        /\ Writes(w, {LeaveRow(l), Quota(BalanceOf[l])})
  /\ Done(w)
  /\ UNCHANGED <<balance, attendance, today, died>>

\* CheckInView.post on today's row: created on the spot, or loaded and, unless
\* it has a check_in already, saved in a second statement.
CheckIn(w, who, as) ==
  /\ At(w, "Idle")
  /\ LET k == <<who, today>>
     IN /\ ~ attendance[k].in
        /\ IF attendance[k].status = "NONE"
           THEN /\ attendance' = [attendance EXCEPT ![k] = [status |-> as, in |-> TRUE]]
                /\ dirty' = dirty \cup Outdated({DayRow(k)})
                /\ UNCHANGED req
           ELSE /\ Becomes(w, [pc |-> "CheckIn", who |-> who, day |-> today, as |-> as])
                /\ UNCHANGED <<attendance, dirty>>
  /\ UNCHANGED <<leave, balance, today, tainted, died>>

CheckInSave(w) ==
  /\ At(w, "CheckIn")
  /\ LET k == <<req[w].who, req[w].day>>
     IN /\ attendance' = [attendance EXCEPT ![k] = [status |-> req[w].as, in |-> TRUE]]
        /\ Writes(w, {DayRow(k)})
  /\ Done(w)
  /\ UNCHANGED <<leave, balance, today, died>>

\* AttendanceTrackerView.post: one update_or_create of any day by a manager.
TrackerPost(c) ==
  /\ attendance' = [attendance EXCEPT ![<<c[1], c[2]>>] =
                                         [status |-> c[3], in |-> c[4]]]
  /\ dirty' = dirty \cup Outdated({DayRow(<<c[1], c[2]>>)})
  /\ UNCHANGED <<leave, balance, today, req, tainted, died>>

\* get_or_create of a fresh balance row: MyLeaveBalancesView.get and the
\* allocation of a policy rule.
OpenBalance(b, total) ==
  /\ ~ balance[b].exists
  /\ balance' = [balance EXCEPT ![b] = [@ EXCEPT !.exists = TRUE, !.total = total]]
  /\ dirty' = dirty \cup Outdated({Quota(b)})
  /\ UNCHANGED <<leave, attendance, today, req, tainted, died>>

\* LeaveAssignView.post and LeaveBalanceAssignView.post: update_or_create of
\* total_days under the row lock Django takes; used_days is not written.
AssignBalance(b, total) ==
  /\ balance' = [balance EXCEPT ![b] = [@ EXCEPT !.exists = TRUE, !.total = total]]
  /\ dirty' = dirty \cup Outdated({Quota(b)})
  /\ UNCHANGED <<leave, attendance, today, req, tainted, died>>

NextDay ==
  /\ today < LastDay
  /\ today' = today + 1
  /\ UNCHANGED <<leave, balance, attendance, req, dirty, tainted, died>>

\* A request thread is killed, or a statement raises, between two commits.
Die(w) ==
  /\ ~ At(w, "Idle")
  /\ died' = IF req[w].pc \in {"LoadBalance", "Charge"}
             THEN died \cup {req[w].leave} ELSE died
  /\ Done(w)
  /\ dirty' = dirty \ {w}
  /\ UNCHANGED <<leave, balance, attendance, today, tainted>>

Apply(w) ==
  \/ \E l \in Leave : ApplyReadBalance(w, l)
  \/ ApplyCheckQuota(w) \/ ApplyInsert(w) \/ ApplyAutoApprove(w)
Review(w) ==
  \/ \E l \in Leave, who \in Person, v \in {"APPROVED", "REJECTED"} :
       ReviewLoad(w, l, who, v)
  \/ ReviewDecide(w) \/ ReviewLoadBalance(w) \/ ReviewCharge(w)
  \/ ReviewLoadDay(w) \/ ReviewSaveDay(w)
Cancel(w) == (\E l \in Leave : CancelLoad(w, l)) \/ CancelSave(w)
ClockIn(w) ==
  \/ \E p \in {Owner[l] : l \in Leave}, s \in WholeDay : CheckIn(w, p, s)
  \/ CheckInSave(w)
Administer ==
  \/ \E c \in Corrections : TrackerPost(c)
  \/ \E b \in Balance : \/ \E t \in Totals \cup {MaxDays[b]} : OpenBalance(b, t)
                        \/ \E t \in Totals : AssignBalance(b, t)

Handlers(w) == Apply(w) \/ Review(w) \/ Cancel(w) \/ ClockIn(w)
Next == (\E w \in Request : Handlers(w) \/ Die(w)) \/ Administer \/ NextDay

Spec == Init /\ [][Next]_vars
----------------------------------------------------------------------------
\* Every table and every request in flight holds what its columns allow; no
\* used_days is ever negative.
TypeOK ==
  /\ leave \in [Leave -> Status]
  /\ balance \in [Balance -> [exists : BOOLEAN, total : Nat, used : Charges]]
  /\ attendance \in [AttendanceKey -> [status : DayStatus, in : BOOLEAN]]
  /\ today \in Day
  /\ req \in [Request -> Req]
  /\ dirty \subseteq Request
  /\ died \subseteq Leave

ChargeCount(l) == balance[BalanceOf[l]].used[l]
Charging(w, l) == req[w].pc \in {"LoadBalance", "Charge"} /\ req[w].leave = l
BeingCharged(l) == \E w \in Request : Charging(w, l)

\* A request that nobody overwrote under a reviewer's feet is charged at most
\* once, however many reviewers approve, cancel and die around it and however
\* its balance row is raced (LeaveReviewView.post).
ChargedAtMostOnce ==
  \A l \in Leave : LeaveRow(l) \notin tainted => ChargeCount(l) <= 1

\* Only an approval charges: a request that is not yet decided, or rejected,
\* has cost its owner nothing.
NoChargeWithoutApproval ==
  \A l \in Leave :
    /\ LeaveRow(l) \notin tainted
    /\ leave[l] \in {"NONE", "PENDING", "REJECTED"}
    => ChargeCount(l) = 0

\* An approved request is on its owner's balance once its review is over, unless
\* the review died in between, or a row was overwritten from an old image.  The
\* CEO's requests, approved on submission, are the exception the code makes.
ApprovedIsCharged ==
  \A l \in Leave :
    /\ leave[l] = "APPROVED" /\ Owner[l] \notin Ceo
    /\ LeaveRow(l) \notin tainted /\ UsedDays(BalanceOf[l]) \notin tainted
    /\ l \notin died /\ ~ BeingCharged(l)
    => ChargeCount(l) = 1

\* A step that saves a current image of a balance takes no charge off it.
KeepsCharges ==
  \A b \in Balance :
    UsedDays(b) \notin tainted' =>
      \A l \in Leave : balance'[b].used[l] >= balance[b].used[l]

\* Two reviews of the same balance lose no charge as long as neither saves an
\* image of the row the other has already changed (LeaveReviewView.post).
NoChargeLost == [][KeepsCharges]_vars

\* The moves of a request's status the views' guards intend.
Moves == {<<"NONE", "PENDING">>, <<"PENDING", "APPROVED">>,
          <<"PENDING", "REJECTED">>, <<"PENDING", "CANCELLED">>,
          <<"APPROVED", "CANCELLED">>}

\* A step moves a request's status by one of Moves, or taints its row.
MovesOnly ==
  \A l \in Leave :
    leave'[l] # leave[l] =>
      <<leave[l], leave'[l]>> \in Moves \/ LeaveRow(l) \in tainted'

\* A decision is never reopened or reversed, except by a request that decides
\* on an image of the row which another has overwritten.
DecisionsAreFinal == [][MovesOnly]_vars

\* A step that inserts a submission leaves the balance it was checked against
\* within the quota, if nobody has changed that balance since.
HonoursQuota ==
  \A w \in Request, l \in Leave :
    /\ w \notin dirty /\ At(w, "Insert") /\ req[w].leave = l
    /\ leave[l] = "NONE" /\ leave'[l] = "PENDING"
    => LET b == BalanceOf[l]
       IN req[w].total > 0 =>
            Days(balance[b].used, ChargedTo(b)) + PendingDays(b)' <= req[w].total

\* A submission that goes through leaves the balance within its quota, unless
\* the balance or another submission changed while it was being validated.
QuotaHonoured == [][HonoursQuota]_vars

\* Approving leave over a day marked PRESENT or WFH keeps that day, unless its
\* row changes between the loop's read and its save.  Of any other day, a half
\* day that was worked included, it makes leave, and leaves the check-in there.
WholeDayKept ==
  [][\A w \in Request, k \in AttendanceKey :
       ReviewLoadDay(w) \/ ReviewSaveDay(w) =>
         /\ attendance[k].status \in WholeDay /\ w \notin dirty
              => attendance'[k] = attendance[k]
         /\ attendance'[k] # attendance[k] =>
              attendance'[k] = [attendance[k] EXCEPT !.status = "ON_LEAVE"]]_vars

\* What makes the ledger safe, as an inductive invariant.  A clean request's
\* image is the row itself; ...
Undecided == {"NONE", "PENDING", "REJECTED"}

ImagesAreCurrent ==
  \A w \in Request \ dirty :
    /\ At(w, "Decide") => leave[req[w].leave] = "PENDING"
    /\ At(w, "AutoApprove") => leave[req[w].leave] = "PENDING"
    /\ At(w, "Cancel") => leave[req[w].leave] \in {"PENDING", "APPROVED"}
    /\ At(w, "Charge") => req[w].used = balance[BalanceOf[req[w].leave]].used

\* ... a submission is a row of its own until it is inserted, and only a
\* chief executive's goes on from there ...
SubmissionsAreFresh ==
  \A w \in Request :
    /\ req[w].pc \in {"Quota", "Insert"} =>
         /\ leave[req[w].leave] = "NONE"
         /\ \A v \in Request \ {w} :
              req[v].pc \in {"Quota", "Insert"} => req[v].leave # req[w].leave
    /\ At(w, "AutoApprove") => Owner[req[w].leave] \in Ceo
    /\ req[w].pc \in {"AutoApprove", "Decide", "Cancel"} =>
         leave[req[w].leave] # "NONE"

\* ... and of an untainted request, every count of its charges, on the balance
\* or in an image about to be saved there, is at most 1, and 0 until a review
\* has approved it and charged it.
CountIsRight(l, n) ==
  /\ n \in {0, 1}
  /\ BeingCharged(l) \/ leave[l] \in Undecided => n = 0

CountsAreRight ==
  \A l \in Leave : LeaveRow(l) \notin tainted =>
    /\ BeingCharged(l) => leave[l] \in {"APPROVED", "CANCELLED"}
    /\ \A v, w \in Request : Charging(v, l) /\ Charging(w, l) => v = w
    /\ CountIsRight(l, ChargeCount(l))
    /\ \A w \in Request :
         At(w, "Charge") /\ BalanceOf[req[w].leave] = BalanceOf[l]
           => CountIsRight(l, req[w].used[l])

\* The inductive invariant: types, current images, fresh submissions, right
\* counts and charged approvals together.
LedgerInv ==
  /\ TypeOK
  /\ ImagesAreCurrent
  /\ SubmissionsAreFresh
  /\ CountsAreRight
  /\ ApprovedIsCharged

\* The abstract decision is the status; charged are those on their balance.
Lifecycle == INSTANCE LeaveLifecycle
  WITH decision <- leave, charged <- {l \in Leave : ChargeCount(l) > 0}

\* Serving one request at a time, leave management keeps LeaveLifecycle's
\* promise: decided once, charged at most once and only while approved.
LifecycleSpec == Lifecycle!Spec

\* "Skip balance deduction if exempt (emergency leave with proof)"
\* (attendance/views.py:1225): emergency leave with a certificate is never
\* charged.
EmergencyNotCharged == \A l \in Emergency : ChargeCount(l) = 0
=============================================================================
