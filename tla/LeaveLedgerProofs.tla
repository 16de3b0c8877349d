------------------------- MODULE LeaveLedgerProofs -------------------------
(***************************************************************************)
(* Theorems about LeaveLedger for every set of requests, employees, leave  *)
(* requests and balances.  The section order is: types, what a held image  *)
(* is worth, the inductive invariant of the ledger, the safety theorems,   *)
(* the worked days, one request at a time, and last the quota.             *)
(***************************************************************************)
EXTENDS LeaveLedger, Sums, TLAPS

(***************************************************************************)
(* Types                                                                   *)
(***************************************************************************)
\* The program counter of a request tells which fields it carries.
LEMMA Shape ==
  ASSUME NEW r \in Req
  PROVE  /\ r.pc = "Idle" => r \in IdleReq
         /\ r.pc \in {"AutoApprove", "Cancel", "LoadBalance"} => r \in LeaveReq
         /\ r.pc \in {"Quota", "Insert"} => r \in ApplyReq
         /\ r.pc = "Decide" => r \in DecideReq
         /\ r.pc = "Charge" => r \in ChargeReq
         /\ r.pc = "Days" => r \in DaysReq
         /\ r.pc = "SaveDay" => r \in SaveDayReq
         /\ r.pc = "CheckIn" => r \in CheckInReq
         /\ r.pc \in {"Idle", "AutoApprove", "Cancel", "LoadBalance", "Quota",
                      "Insert", "Decide", "Charge", "Days", "SaveDay", "CheckIn"}
  BY DEF Req, IdleReq, LeaveReq, ApplyReq, DecideReq, ChargeReq, DaysReq,
         SaveDayReq, CheckInReq

\* The initial state is well typed.
LEMMA TypeInit == Init => TypeOK
  BY LeaveAssumption DEF LeaveAssumption, Init, TypeOK, Status, DayStatus,
     Charges, AttendanceKey, Day, Req, IdleReq

\* Marking a day keeps the attendance rows well typed.
LEMMA MarkedDay ==
  ASSUME TypeOK, NEW k \in AttendanceKey
  PROVE  [attendance EXCEPT ![k].status = "ON_LEAVE"]
           \in [AttendanceKey -> [status : DayStatus, in : BOOLEAN]]
  BY DEF TypeOK, DayStatus

\* A request that goes on to a well-formed state keeps req well typed.
LEMMA NewReq ==
  ASSUME TypeOK, NEW w \in Request, NEW r \in Req, Becomes(w, r)
  PROVE  req' \in [Request -> Req]
  BY DEF TypeOK, Becomes

\* The handlers of a submission keep the state well typed.
LEMMA TypeApply ==
  ASSUME TypeOK, NEW w \in Request, Apply(w)
  PROVE  TypeOK'
<1> USE LeaveAssumption DEF LeaveAssumption, At
<1>1. CASE \E l \in Leave : ApplyReadBalance(w, l)
  <2>1. PICK l \in Leave : ApplyReadBalance(w, l)
    BY <1>1
  <2>2. req' \in [Request -> Req]
    BY <2>1 DEF ApplyReadBalance, TypeOK, Becomes, Req, ApplyReq
  <2> QED
    BY <2>1, <2>2 DEF ApplyReadBalance, TypeOK
<1>2. CASE ApplyCheckQuota(w)
  <2>1. req[w] \in ApplyReq
    BY <1>2, Shape DEF ApplyCheckQuota, TypeOK
  <2>2. req' \in [Request -> Req]
    <3>1. [pc |-> "Idle"] \in Req /\ [req[w] EXCEPT !.pc = "Insert"] \in Req
      BY <2>1 DEF Req, IdleReq, ApplyReq
    <3> QED
      BY <1>2, <3>1 DEF ApplyCheckQuota, TypeOK, Becomes, Done
  <2> QED
    BY <1>2, <2>2 DEF ApplyCheckQuota, TypeOK
<1>3. CASE ApplyInsert(w)
  <2>1. req[w] \in ApplyReq
    BY <1>3, Shape DEF ApplyInsert, TypeOK
  <2>2. req' \in [Request -> Req]
    <3>1. /\ [pc |-> "Idle"] \in Req
          /\ [pc |-> "AutoApprove", leave |-> req[w].leave] \in Req
      BY <2>1 DEF Req, IdleReq, LeaveReq, ApplyReq
    <3>2. \/ Becomes(w, [pc |-> "Idle"])
          \/ Becomes(w, [pc |-> "AutoApprove", leave |-> req[w].leave])
      BY <1>3 DEF ApplyInsert, Done
    <3> QED
      BY <3>1, <3>2, NewReq
  <2>3. leave' \in [Leave -> Status] /\ dirty' \subseteq Request
    BY <1>3, <2>1 DEF ApplyInsert, TypeOK, ApplyReq, Status, Writes, Outdated
  <2> QED
    BY <1>3, <2>2, <2>3 DEF ApplyInsert, TypeOK
<1>4. CASE ApplyAutoApprove(w)
  <2>1. req[w] \in LeaveReq
    BY <1>4, Shape DEF ApplyAutoApprove, TypeOK
  <2>2. req' \in [Request -> Req]
    BY <1>4, <2>1 DEF ApplyAutoApprove, TypeOK, Becomes, Done, Req, IdleReq
  <2>3. leave' \in [Leave -> Status] /\ dirty' \subseteq Request
    BY <1>4, <2>1 DEF ApplyAutoApprove, TypeOK, LeaveReq, Status, Writes, Outdated
  <2> QED
    BY <1>4, <2>2, <2>3 DEF ApplyAutoApprove, TypeOK
<1> QED
  BY <1>1, <1>2, <1>3, <1>4 DEF Apply

\* The handlers of a review keep the state well typed.
LEMMA TypeReview ==
  ASSUME TypeOK, NEW w \in Request, Review(w)
  PROVE  TypeOK'
<1> USE LeaveAssumption DEF LeaveAssumption, At
<1>1. CASE \E l \in Leave, who \in Person, v \in {"APPROVED", "REJECTED"} :
             ReviewLoad(w, l, who, v)
  <2>1. PICK l \in Leave, who \in Person, v \in {"APPROVED", "REJECTED"} :
          ReviewLoad(w, l, who, v)
    BY <1>1
  <2>2. req' \in [Request -> Req]
    BY <2>1 DEF ReviewLoad, TypeOK, Becomes, Req, DecideReq
  <2> QED
    BY <2>1, <2>2 DEF ReviewLoad, TypeOK
<1>2. CASE ReviewDecide(w)
  <2>1. req[w] \in DecideReq
    BY <1>2, Shape DEF ReviewDecide, TypeOK
  <2>2. req' \in [Request -> Req]
    <3> DEFINE l == req[w].leave
    <3>1. /\ [pc |-> "Idle"] \in Req
          /\ [pc |-> "LoadBalance", leave |-> l] \in Req
          /\ [pc |-> "Days", leave |-> l, todo |-> Dates[l]] \in Req
      BY <2>1 DEF Req, IdleReq, LeaveReq, DecideReq, DaysReq, Day
    <3>2. \/ Becomes(w, [pc |-> "Idle"])
          \/ Becomes(w, [pc |-> "LoadBalance", leave |-> l])
          \/ Becomes(w, [pc |-> "Days", leave |-> l, todo |-> Dates[l]])
      BY <1>2 DEF ReviewDecide, Done
    <3> QED
      BY <3>1, <3>2, NewReq
  <2>3. leave' \in [Leave -> Status] /\ dirty' \subseteq Request
    BY <1>2, <2>1 DEF ReviewDecide, TypeOK, DecideReq, Status, Writes, Outdated
  <2> QED
    BY <1>2, <2>2, <2>3 DEF ReviewDecide, TypeOK
<1>3. CASE ReviewLoadBalance(w)
  <2>1. req[w] \in LeaveReq
    BY <1>3, Shape DEF ReviewLoadBalance, TypeOK
  <2>2. req' \in [Request -> Req]
    <3>1. [pc |-> "Charge", leave |-> req[w].leave,
           used |-> balance[BalanceOf[req[w].leave]].used] \in Req
      BY <2>1 DEF TypeOK, Req, LeaveReq, ChargeReq
    <3> QED
      BY <1>3, <3>1, NewReq DEF ReviewLoadBalance
  <2>3. balance' \in [Balance -> [exists : BOOLEAN, total : Nat, used : Charges]]
    BY <1>3, <2>1 DEF ReviewLoadBalance, TypeOK, LeaveReq
  <2> QED
    BY <1>3, <2>2, <2>3 DEF ReviewLoadBalance, TypeOK
<1>4. CASE ReviewCharge(w)
  <2>1. req[w] \in ChargeReq
    BY <1>4, Shape DEF ReviewCharge, TypeOK
  <2>2. req' \in [Request -> Req]
    <3>1. [pc |-> "Days", leave |-> req[w].leave, todo |-> Dates[req[w].leave]] \in Req
      BY <2>1 DEF Req, ChargeReq, DaysReq, Day
    <3> QED
      BY <1>4, <3>1, NewReq DEF ReviewCharge
  <2>3. Add(req[w].used, req[w].leave) \in Charges
    BY <2>1 DEF ChargeReq, Charges, Add
  <2>4. balance' \in [Balance -> [exists : BOOLEAN, total : Nat, used : Charges]]
    BY <1>4, <2>1, <2>3 DEF ReviewCharge, TypeOK, ChargeReq
  <2>5. dirty' \subseteq Request
    BY <1>4 DEF ReviewCharge, TypeOK, Writes, Outdated
  <2> QED
    BY <1>4, <2>2, <2>4, <2>5 DEF ReviewCharge, TypeOK
<1>5. CASE ReviewLoadDay(w)
  <2>1. req[w] \in DaysReq
    BY <1>5, Shape DEF ReviewLoadDay, TypeOK
  <2>2. req' \in [Request -> Req]
        /\ attendance' \in [AttendanceKey -> [status : DayStatus, in : BOOLEAN]]
    <3>1. CASE req[w].todo = {} /\ Done(w) /\ UNCHANGED <<attendance, dirty>>
      BY <3>1 DEF TypeOK, Becomes, Done, Req, IdleReq
    <3>2. CASE req[w].todo # {}
      <4>1. PICK d \in req[w].todo :
              /\ \/ Becomes(w, [req[w] EXCEPT !.todo = @ \ {d}])
                 \/ Becomes(w, [pc |-> "SaveDay", leave |-> req[w].leave,
                                todo |-> req[w].todo \ {d}, day |-> d])
              /\ \/ attendance' = [attendance EXCEPT
                                     ![<<Owner[req[w].leave], d>>].status = "ON_LEAVE"]
                 \/ attendance' = attendance
        BY <1>5, <3>2 DEF ReviewLoadDay
      <4>2. /\ d \in Day /\ req[w].leave \in Leave
            /\ [req[w] EXCEPT !.todo = @ \ {d}] \in DaysReq
        BY <2>1 DEF DaysReq
      <4>3. [pc |-> "SaveDay", leave |-> req[w].leave,
             todo |-> req[w].todo \ {d}, day |-> d] \in SaveDayReq
        BY <2>1, <4>2 DEF DaysReq, SaveDayReq
      <4>4. req' \in [Request -> Req]
        BY <4>1, <4>2, <4>3 DEF TypeOK, Becomes, Req
      <4>5. attendance' \in [AttendanceKey -> [status : DayStatus, in : BOOLEAN]]
        <5> DEFINE k == <<Owner[req[w].leave], d>>
        <5>1. k \in AttendanceKey
          BY <4>2 DEF AttendanceKey
        <5>2. \/ attendance' = [attendance EXCEPT ![k].status = "ON_LEAVE"]
              \/ attendance' = attendance
          BY <4>1
        <5> HIDE DEF k
        <5> QED
          BY <5>1, <5>2, MarkedDay DEF TypeOK
      <4> QED
        BY <4>4, <4>5
    <3> QED
      BY <1>5, <3>1, <3>2 DEF ReviewLoadDay
  <2>4. dirty' \subseteq Request
    BY <1>5 DEF ReviewLoadDay, TypeOK, Outdated
  <2> QED
    BY <1>5, <2>2, <2>4 DEF ReviewLoadDay, TypeOK
<1>6. CASE ReviewSaveDay(w)
  <2>1. req[w] \in SaveDayReq
    BY <1>6, Shape DEF ReviewSaveDay, TypeOK
  <2>2. req' \in [Request -> Req]
    <3>1. [pc |-> "Days", leave |-> req[w].leave, todo |-> req[w].todo] \in Req
      BY <2>1 DEF Req, DaysReq, SaveDayReq
    <3> QED
      BY <1>6, <3>1, NewReq DEF ReviewSaveDay
  <2>3. attendance' \in [AttendanceKey -> [status : DayStatus, in : BOOLEAN]]
    <3> DEFINE k == <<Owner[req[w].leave], req[w].day>>
    <3>1. k \in AttendanceKey
      BY <2>1 DEF AttendanceKey, SaveDayReq
    <3>2. attendance' = [attendance EXCEPT ![k].status = "ON_LEAVE"]
      BY <1>6 DEF ReviewSaveDay
    <3> HIDE DEF k
    <3> QED
      BY <3>1, <3>2, MarkedDay
  <2>4. dirty' \subseteq Request
    BY <1>6 DEF ReviewSaveDay, TypeOK, Writes, Outdated
  <2> QED
    BY <1>6, <2>2, <2>3, <2>4 DEF ReviewSaveDay, TypeOK
<1> QED
  BY <1>1, <1>2, <1>3, <1>4, <1>5, <1>6 DEF Review

\* Cancelling, clocking in and the administrators' actions keep the types.
LEMMA TypeOther ==
  ASSUME TypeOK,
         \/ \E w \in Request : Cancel(w) \/ ClockIn(w) \/ Die(w)
         \/ Administer
         \/ NextDay
  PROVE  TypeOK'
<1> USE LeaveAssumption DEF LeaveAssumption, At
<1>1. ASSUME NEW w \in Request, NEW l \in Leave, CancelLoad(w, l)
      PROVE  TypeOK'
  <2>1. req' \in [Request -> Req]
    BY <1>1 DEF CancelLoad, TypeOK, Becomes, Req, LeaveReq
  <2> QED
    BY <1>1, <2>1 DEF CancelLoad, TypeOK
<1>2. ASSUME NEW w \in Request, CancelSave(w)
      PROVE  TypeOK'
  <2>1. req[w] \in LeaveReq
    BY <1>2, Shape DEF CancelSave, TypeOK
  <2>2. req' \in [Request -> Req]
    BY <1>2 DEF CancelSave, TypeOK, Becomes, Done, Req, IdleReq
  <2>3. leave' \in [Leave -> Status] /\ dirty' \subseteq Request
    BY <1>2, <2>1 DEF CancelSave, TypeOK, LeaveReq, Status, Writes, Outdated
  <2> QED
    BY <1>2, <2>2, <2>3 DEF CancelSave, TypeOK
<1>3. ASSUME NEW w \in Request, NEW p \in Person, NEW s \in WholeDay, CheckIn(w, p, s)
      PROVE  TypeOK'
  <2>1. <<p, today>> \in AttendanceKey
    BY DEF TypeOK, AttendanceKey
  <2>2. [pc |-> "CheckIn", who |-> p, day |-> today, as |-> s] \in Req
    BY DEF TypeOK, Req, CheckInReq
  <2>3. req' \in [Request -> Req]
    BY <1>3, <2>2 DEF CheckIn, TypeOK, Becomes
  <2>4. attendance' \in [AttendanceKey -> [status : DayStatus, in : BOOLEAN]]
    <3> DEFINE k == <<p, today>>
    <3> DEFINE row == [status |-> s, in |-> TRUE]
    <3>1. \/ attendance' = [attendance EXCEPT ![k] = row]
          \/ attendance' = attendance
      <4>1. CASE attendance[k].status = "NONE"
        BY <1>3, <4>1, Zenon DEF CheckIn
      <4>2. CASE attendance[k].status # "NONE"
        BY <1>3, <4>2 DEF CheckIn
      <4> QED
        BY <4>1, <4>2
    <3>2. k \in AttendanceKey /\ s \in DayStatus
      BY <2>1 DEF WholeDay, DayStatus
    <3>3. row \in [status : DayStatus, in : BOOLEAN]
      BY <3>2
    <3> HIDE DEF k, row
    <3> QED
      BY <3>1, <3>2, <3>3 DEF TypeOK
  <2>5. dirty' \subseteq Request
    BY <1>3 DEF CheckIn, TypeOK, Outdated
  <2> QED
    BY <1>3, <2>3, <2>4, <2>5 DEF CheckIn, TypeOK
<1>4. ASSUME NEW w \in Request, CheckInSave(w)
      PROVE  TypeOK'
  <2>1. req[w] \in CheckInReq
    BY <1>4, Shape DEF CheckInSave, TypeOK
  <2>2. req' \in [Request -> Req]
    BY <1>4 DEF CheckInSave, TypeOK, Becomes, Done, Req, IdleReq
  <2>3. /\ <<req[w].who, req[w].day>> \in AttendanceKey
        /\ req[w].as \in DayStatus
    BY <2>1 DEF CheckInReq, AttendanceKey, WholeDay, DayStatus
  <2>4. attendance' \in [AttendanceKey -> [status : DayStatus, in : BOOLEAN]]
    BY <1>4, <2>3 DEF CheckInSave, TypeOK
  <2>5. dirty' \subseteq Request
    BY <1>4 DEF CheckInSave, TypeOK, Writes, Outdated
  <2> QED
    BY <1>4, <2>2, <2>4, <2>5 DEF CheckInSave, TypeOK
<1>5. ASSUME NEW c \in Corrections, TrackerPost(c)
      PROVE  TypeOK'
  <2>1. /\ <<c[1], c[2]>> \in AttendanceKey
        /\ c[3] \in DayStatus /\ c[4] \in BOOLEAN
    BY DEF AttendanceKey, Day, DayStatus
  <2>2. attendance' \in [AttendanceKey -> [status : DayStatus, in : BOOLEAN]]
    <3> DEFINE k == <<c[1], c[2]>>
    <3>1. attendance' = [attendance EXCEPT ![k] = [status |-> c[3], in |-> c[4]]]
      BY <1>5 DEF TrackerPost
    <3>2. k \in AttendanceKey
      BY <2>1
    <3> HIDE DEF k
    <3> QED
      BY <2>1, <3>1, <3>2 DEF TypeOK
  <2>3. dirty' \subseteq Request
    BY <1>5 DEF TrackerPost, TypeOK, Outdated
  <2> QED
    BY <1>5, <2>2, <2>3 DEF TrackerPost, TypeOK
<1>6. ASSUME NEW b \in Balance, NEW t \in Nat, OpenBalance(b, t) \/ AssignBalance(b, t)
      PROVE  TypeOK'
  <2>1. balance' \in [Balance -> [exists : BOOLEAN, total : Nat, used : Charges]]
    <3>1. [balance[b] EXCEPT !.exists = TRUE, !.total = t]
            \in [exists : BOOLEAN, total : Nat, used : Charges]
      BY DEF TypeOK
    <3> QED
      BY <1>6, <3>1 DEF OpenBalance, AssignBalance, TypeOK
  <2>2. dirty' \subseteq Request
    BY <1>6 DEF OpenBalance, AssignBalance, TypeOK, Outdated
  <2> QED
    BY <1>6, <2>1, <2>2 DEF OpenBalance, AssignBalance, TypeOK
<1>7. CASE NextDay
  BY <1>7 DEF NextDay, TypeOK, Day
<1>8. ASSUME NEW w \in Request, Die(w)
      PROVE  TypeOK'
  <2>1. req' \in [Request -> Req]
    BY <1>8 DEF Die, TypeOK, Becomes, Done, Req, IdleReq
  <2>2. died' \subseteq Leave
    <3>1. CASE req[w].pc = "LoadBalance"
      BY <1>8, <3>1, Shape DEF Die, TypeOK, LeaveReq
    <3>2. CASE req[w].pc = "Charge"
      BY <1>8, <3>2, Shape DEF Die, TypeOK, ChargeReq
    <3> QED
      BY <1>8, <3>1, <3>2 DEF Die, TypeOK
  <2> QED
    BY <1>8, <2>1, <2>2 DEF Die, TypeOK
<1>9. ASSUME Administer
      PROVE  TypeOK'
  BY <1>5, <1>6, <1>9 DEF Administer
<1>10. ASSUME NEW w \in Request, Cancel(w)
       PROVE  TypeOK'
  BY <1>1, <1>2, <1>10 DEF Cancel
<1>11. ASSUME NEW w \in Request, ClockIn(w)
       PROVE  TypeOK'
  BY <1>3, <1>4, <1>11 DEF ClockIn
<1> QED
  BY <1>7, <1>8, <1>9, <1>10, <1>11

\* Every step keeps the state well typed.
LEMMA TypeStep == TypeOK /\ [Next]_vars => TypeOK'
<1>1. ASSUME TypeOK, UNCHANGED vars
      PROVE  TypeOK'
  BY <1>1 DEF vars, TypeOK
<1> QED
  BY <1>1, TypeApply, TypeReview, TypeOther DEF Next, Handlers

\* The tables and the requests in flight hold what their columns allow.
THEOREM TypeCorrect == Spec => []TypeOK
  BY TypeInit, TypeStep, PTL DEF Spec

(***************************************************************************)
(* The ledger: LedgerInv is inductive.                                     *)
(***************************************************************************)
\* The empty tables satisfy the ledger invariant.
LEMMA LedgerInit == Init => LedgerInv
<1> SUFFICES ASSUME Init PROVE LedgerInv
  OBVIOUS
<1>1. TypeOK
  BY TypeInit
<1>2. \A l \in Leave : ChargeCount(l) = 0 /\ ~ BeingCharged(l)
  BY LeaveAssumption DEF LeaveAssumption, Init, ChargeCount, BeingCharged, Charging
<1>3. ImagesAreCurrent /\ SubmissionsAreFresh /\ ApprovedIsCharged
  BY DEF Init, ImagesAreCurrent, SubmissionsAreFresh, ApprovedIsCharged, At
<1>4. CountsAreRight
  BY <1>2 DEF Init, CountsAreRight, CountIsRight, At, BeingCharged
<1> QED
  BY <1>1, <1>3, <1>4 DEF LedgerInv

\* A step that writes neither a request row nor a charge, and in which every
\* thread stays where it is, or goes where the ledger no longer depends on it.
Bystander ==
  /\ UNCHANGED leave
  /\ \A b \in Balance : balance'[b].used = balance[b].used
  /\ tainted \subseteq tainted' /\ died \subseteq died'
  /\ \A v \in Request :
       \/ req'[v] = req[v] /\ (v \notin dirty' => v \notin dirty)
       \/ /\ req'[v].pc \in {"Idle", "Days", "SaveDay", "CheckIn"}
          /\ \A l \in Leave : Charging(v, l) => l \in died'

\* A step in which every thread stands by, and which changes no ledger row,
\* keeps the ledger invariant.
LEMMA BystanderStep ==
  ASSUME LedgerInv, TypeOK', Bystander
  PROVE  LedgerInv'
<1>0. BalanceOf \in [Leave -> Balance]
  BY LeaveAssumption DEF LeaveAssumption
<1> USE <1>0
<1>1. ImagesAreCurrent'
  BY Shape DEF LedgerInv, ImagesAreCurrent, Bystander, At, TypeOK, ChargeReq
<1>2. SubmissionsAreFresh'
  BY DEF LedgerInv, SubmissionsAreFresh, Bystander, At
<1>3. \A l \in Leave : ChargeCount(l)' = ChargeCount(l)
  BY DEF Bystander, ChargeCount
<1>4. \A l \in Leave, v \in Request : Charging(v, l)' => Charging(v, l)
  BY DEF Bystander, Charging
<1>5. \A l \in Leave : BeingCharged(l)' => BeingCharged(l)
  BY <1>4 DEF BeingCharged
<1>6. \A v \in Request : At(v, "Charge")' => req'[v] = req[v]
  BY DEF Bystander, At
<1>7. CountsAreRight'
  <2> SUFFICES ASSUME NEW l \in Leave, LeaveRow(l) \notin tainted'
      PROVE  /\ BeingCharged(l)' => leave'[l] \in {"APPROVED", "CANCELLED"}
             /\ \A v, u \in Request : Charging(v, l)' /\ Charging(u, l)' => v = u
             /\ CountIsRight(l, ChargeCount(l))'
             /\ \A v \in Request :
                  At(v, "Charge")' /\ BalanceOf[req'[v].leave] = BalanceOf[l]
                    => CountIsRight(l, req[v].used[l])'
    BY DEF CountsAreRight
  <2> QED
    BY <1>3, <1>4, <1>5, <1>6 DEF LedgerInv, CountsAreRight, CountIsRight, Bystander, At
<1>8. ApprovedIsCharged'
  <2> SUFFICES ASSUME NEW l \in Leave,
                      leave'[l] = "APPROVED" /\ Owner[l] \notin Ceo,
                      LeaveRow(l) \notin tainted', UsedDays(BalanceOf[l]) \notin tainted',
                      l \notin died', ~ BeingCharged(l)'
      PROVE  ChargeCount(l)' = 1
    BY DEF ApprovedIsCharged
  <2>1. ~ BeingCharged(l)
    BY DEF BeingCharged, Charging, Bystander
  <2> QED
    BY <2>1, <1>3 DEF LedgerInv, ApprovedIsCharged, Bystander
<1> QED
  BY <1>1, <1>2, <1>7, <1>8 DEF LedgerInv

\* The usual way to be a bystander: one thread moves, writing no ledger row.
LEMMA OneMoves ==
  ASSUME TypeOK, NEW w \in Request, NEW r, Becomes(w, r),
         r.pc \in {"Idle", "Days", "SaveDay", "CheckIn"},
         req[w].pc \notin {"LoadBalance", "Charge"},
         UNCHANGED <<leave, balance, died>>,
         tainted \subseteq tainted', dirty \ {w} \subseteq dirty'
  PROVE  Bystander
  BY DEF Bystander, Becomes, TypeOK, Charging

\* Attendance, the administrators, the calendar and a dying thread only stand by.
LEMMA BystanderActions ==
  ASSUME TypeOK, NEW w \in Request,
         \/ ApplyCheckQuota(w) /\ req'[w].pc = "Idle"
         \/ ReviewLoadDay(w) \/ ReviewSaveDay(w) \/ ClockIn(w) \/ Die(w)
  PROVE  Bystander
<1> USE DEF At
<1>1. CASE ApplyCheckQuota(w) /\ req'[w].pc = "Idle"
  BY <1>1 DEF ApplyCheckQuota, Bystander, Done, Becomes, TypeOK, Charging
<1>2. CASE ReviewLoadDay(w)
  <2>1. req[w] \in DaysReq
    BY <1>2, Shape DEF ReviewLoadDay, TypeOK
  <2>2. CASE Done(w)
    BY <1>2, <2>2, OneMoves DEF ReviewLoadDay, Done
  <2>3. CASE ~ Done(w)
    <3>1. PICK d \in req[w].todo :
            \/ Becomes(w, [req[w] EXCEPT !.todo = @ \ {d}])
            \/ Becomes(w, [pc |-> "SaveDay", leave |-> req[w].leave,
                           todo |-> req[w].todo \ {d}, day |-> d])
      BY <1>2, <2>3 DEF ReviewLoadDay
    <3>2. [req[w] EXCEPT !.todo = @ \ {d}].pc = "Days"
      BY <2>1 DEF DaysReq
    <3>3. UNCHANGED <<leave, balance, tainted, died>> /\ dirty \subseteq dirty'
      BY <1>2 DEF ReviewLoadDay
    <3> QED
      BY <1>2, <3>1, <3>2, <3>3, OneMoves DEF ReviewLoadDay
  <2> QED
    BY <2>2, <2>3
<1>3. CASE ReviewSaveDay(w)
  BY <1>3 DEF ReviewSaveDay, Bystander, Writes, Becomes, TypeOK, Charging
<1>4. ASSUME NEW p \in Person, NEW s \in WholeDay, CheckIn(w, p, s)
      PROVE  Bystander
  <2>1. UNCHANGED <<leave, balance, tainted, died>> /\ dirty \subseteq dirty'
    BY <1>4 DEF CheckIn
  <2>2. \/ UNCHANGED req
        \/ Becomes(w, [pc |-> "CheckIn", who |-> p, day |-> today, as |-> s])
    BY <1>4 DEF CheckIn
  <2> QED
    BY <1>4, <2>1, <2>2, OneMoves DEF CheckIn, Bystander
<1>5. CASE CheckInSave(w)
  BY <1>5, OneMoves DEF CheckInSave, Writes, Done
<1>6. CASE Die(w)
  BY <1>6 DEF Die, Bystander, Done, Becomes, TypeOK, Charging
<1>7. CASE ClockIn(w)
  <2>1. CASE \E p \in Person, s \in WholeDay : CheckIn(w, p, s)
    BY <1>4, <2>1
  <2> QED
    BY LeaveAssumption, <1>5, <1>7, <2>1 DEF ClockIn, LeaveAssumption
<1> QED
  BY <1>1, <1>2, <1>3, <1>6, <1>7

\* Neither the tracker nor a balance assignment moves a thread or a charge.
LEMMA AdministerStandsBy ==
  ASSUME TypeOK, Administer \/ NextDay
  PROVE  Bystander
<1>1. CASE NextDay
  BY <1>1 DEF NextDay, Bystander
<1>2. ASSUME NEW c \in Corrections, TrackerPost(c)
      PROVE  Bystander
  BY <1>2 DEF TrackerPost, Bystander
<1>3. ASSUME NEW b \in Balance, NEW t, OpenBalance(b, t) \/ AssignBalance(b, t)
      PROVE  Bystander
  <2>1. /\ UNCHANGED <<leave, req, tainted, died>> /\ dirty \subseteq dirty'
        /\ balance' = [balance EXCEPT ![b] = [balance[b] EXCEPT !.exists = TRUE,
                                                               !.total = t]]
    BY <1>3 DEF OpenBalance, AssignBalance
  <2>2. [balance[b] EXCEPT !.exists = TRUE, !.total = t].used = balance[b].used
    BY DEF TypeOK
  <2> QED
    BY <2>1, <2>2 DEF Bystander, TypeOK
<1> QED
  BY <1>1, <1>2, <1>3 DEF Administer

\* What each kind of request holds.
LEMMA HeldRows ==
  ASSUME NEW r
  PROVE  /\ r.pc \in {"AutoApprove", "Decide", "Cancel"} => Held(r) = {LeaveRow(r.leave)}
         /\ r.pc = "Charge" => Held(r) = {UsedDays(BalanceOf[r.leave])}
         /\ r.pc \in {"Quota", "Insert"} => Held(r) = {Quota(BalanceOf[r.leave])}
  BY DEF Held

\* A write of a request's row outdates every other image of that row, and
\* taints it when its own image was outdated.
LEMMA LeaveWrite ==
  ASSUME NEW w \in Request, NEW l, NEW b, Writes(w, {LeaveRow(l), Quota(b)})
  PROVE  /\ tainted \subseteq tainted'
         /\ w \in dirty /\ req[w].pc \in {"AutoApprove", "Decide", "Cancel"}
              => LeaveRow(req[w].leave) \in tainted'
         /\ \A v \in Request \ {w} : v \notin dirty' =>
              /\ v \notin dirty
              /\ req[v].pc \in {"AutoApprove", "Decide", "Cancel"} => req[v].leave # l
<1>1. tainted \subseteq tainted'
  BY DEF Writes
<1>2. ASSUME w \in dirty, req[w].pc \in {"AutoApprove", "Decide", "Cancel"}
      PROVE  LeaveRow(req[w].leave) \in tainted'
  BY <1>2, HeldRows DEF Writes
<1>3. ASSUME NEW v \in Request \ {w}, v \notin dirty'
      PROVE  /\ v \notin dirty
             /\ req[v].pc \in {"AutoApprove", "Decide", "Cancel"} => req[v].leave # l
  BY <1>3, HeldRows DEF Writes, Outdated
<1> QED
  BY <1>1, <1>2, <1>3

\* The same for a write of used_days.
LEMMA BalanceWrite ==
  ASSUME NEW w \in Request, NEW b, Writes(w, {UsedDays(b), Quota(b)}), At(w, "Charge")
  PROVE  /\ tainted \subseteq tainted'
         /\ w \in dirty => UsedDays(BalanceOf[req[w].leave]) \in tainted'
         /\ \A v \in Request \ {w} : v \notin dirty' =>
              /\ v \notin dirty
              /\ At(v, "Charge") => BalanceOf[req[v].leave] # b
<1>1. tainted \subseteq tainted' /\ (w \in dirty => UsedDays(BalanceOf[req[w].leave]) \in tainted')
  BY HeldRows DEF Writes, At
<1>2. ASSUME NEW v \in Request \ {w}, v \notin dirty'
      PROVE  /\ v \notin dirty
             /\ At(v, "Charge") => BalanceOf[req[v].leave] # b
  BY <1>2, HeldRows DEF Writes, Outdated, At
<1> QED
  BY <1>1, <1>2

\* A thread that only reads, and is no closer to a charge, keeps the invariant
\* if what it has read is right.
LEMMA ReadOnly ==
  ASSUME LedgerInv, TypeOK', NEW w \in Request, NEW r, Becomes(w, r),
         UNCHANGED <<leave, balance, tainted, died, dirty>>,
         req[w].pc \in {"Idle", "Quota"},
         \/ r.pc = "Decide" /\ leave[r.leave] = "PENDING"
         \/ r.pc = "Cancel" /\ leave[r.leave] \in {"PENDING", "APPROVED"}
         \/ /\ r.pc \in {"Quota", "Insert"} /\ leave[r.leave] = "NONE"
            /\ \A v \in Request \ {w} :
                 req[v].pc \in {"Quota", "Insert"} => req[v].leave # r.leave
  PROVE  LedgerInv'
<1> USE DEF LedgerInv, At
<1>1. req'[w] = r /\ \A v \in Request \ {w} : req'[v] = req[v]
  BY DEF Becomes, TypeOK
<1>2. ImagesAreCurrent'
  BY <1>1 DEF ImagesAreCurrent
<1>3. SubmissionsAreFresh'
  BY <1>1 DEF SubmissionsAreFresh
<1>4. \A v \in Request, l \in Leave : Charging(v, l)' <=> Charging(v, l)
  BY <1>1 DEF Charging
<1>5. \A l \in Leave : BeingCharged(l)' <=> BeingCharged(l)
  BY <1>4 DEF BeingCharged
<1>6. \A v \in Request : At(v, "Charge")' => req'[v] = req[v]
  BY <1>1
<1>7. CountsAreRight'
  BY <1>4, <1>5, <1>6 DEF CountsAreRight, CountIsRight, ChargeCount
<1>8. ApprovedIsCharged'
  BY <1>5 DEF ApprovedIsCharged, ChargeCount
<1> QED
  BY <1>2, <1>3, <1>7, <1>8

\* The statements that write the request's row: the insertion, the chief
\* executive's approval, the decision and the withdrawal.
LEMMA LeaveWriters ==
  ASSUME LedgerInv, TypeOK', NEW w \in Request, NEW l \in Leave, NEW s \in Status, NEW r,
         l = req[w].leave, Becomes(w, r), leave' = [leave EXCEPT ![l] = s],
         UNCHANGED <<balance, died>>, Writes(w, {LeaveRow(l), Quota(BalanceOf[l])}),
         \/ /\ At(w, "Insert") /\ s = "PENDING"
            /\ \/ r.pc = "Idle"
               \/ r.pc = "AutoApprove" /\ r.leave = l /\ Owner[l] \in Ceo
         \/ At(w, "AutoApprove") /\ s = "APPROVED" /\ r.pc = "Idle"
         \/ At(w, "Cancel") /\ s = "CANCELLED" /\ r.pc = "Idle"
         \/ At(w, "Decide") /\ s = "REJECTED" /\ r.pc = "Idle"
         \/ At(w, "Decide") /\ s = "APPROVED" /\ r.pc = "LoadBalance" /\ r.leave = l
  PROVE  LedgerInv'
<1> USE DEF LedgerInv, At
<1>1. req'[w] = r /\ \A v \in Request \ {w} : req'[v] = req[v]
  BY DEF Becomes, TypeOK
<1>2. leave'[l] = s /\ \A m \in Leave \ {l} : leave'[m] = leave[m]
  BY DEF TypeOK
<1>3. /\ tainted \subseteq tainted'
      /\ w \in dirty /\ req[w].pc \in {"AutoApprove", "Decide", "Cancel"}
           => LeaveRow(l) \in tainted'
      /\ \A v \in Request \ {w} : v \notin dirty' =>
           /\ v \notin dirty
           /\ req[v].pc \in {"AutoApprove", "Decide", "Cancel"} => req[v].leave # l
  BY LeaveWrite
<1>4. ImagesAreCurrent'
  BY <1>1, <1>2, <1>3, Shape DEF ImagesAreCurrent, TypeOK, LeaveReq, DecideReq
<1>5. SubmissionsAreFresh'
  <2> SUFFICES ASSUME NEW v \in Request
      PROVE  /\ req'[v].pc \in {"Quota", "Insert"} =>
                  /\ leave'[req'[v].leave] = "NONE"
                  /\ \A u \in Request \ {v} :
                       req'[u].pc \in {"Quota", "Insert"} => req'[u].leave # req'[v].leave
             /\ req'[v].pc = "AutoApprove" => Owner[req'[v].leave] \in Ceo
             /\ req'[v].pc \in {"AutoApprove", "Decide", "Cancel"} =>
                  leave'[req'[v].leave] # "NONE"
    BY DEF SubmissionsAreFresh
  <2>1. ASSUME req[v].pc \in {"Quota", "Insert"}, v # w
        PROVE  leave[req[v].leave] = "NONE" /\ req[v].leave # l
    <3>1. leave[req[v].leave] = "NONE"
      BY <2>1 DEF SubmissionsAreFresh
    <3>2. CASE At(w, "Insert")
      BY <2>1, <3>2 DEF SubmissionsAreFresh
    <3>3. CASE ~ At(w, "Insert")
      BY <3>1, <3>3 DEF SubmissionsAreFresh
    <3> QED
      BY <3>1, <3>2, <3>3
  <2> QED
    BY <1>1, <1>2, <2>1, Shape DEF SubmissionsAreFresh, TypeOK, ApplyReq
<1>6. ~ Charging(w, l) /\ ~ At(w, "Charge") /\ r.pc # "Charge"
  BY DEF Charging
<1>7. \A v \in Request : At(v, "Charge")' => req'[v] = req[v]
  BY <1>1, <1>6
<1>8. \A m \in Leave \ {l}, v \in Request : Charging(v, m)' <=> Charging(v, m)
  BY <1>1 DEF Charging
<1>9. \A v \in Request \ {w} : Charging(v, l)' <=> Charging(v, l)
  BY <1>1 DEF Charging
<1>10. Charging(w, l)' <=> r.pc = "LoadBalance"
  BY <1>1 DEF Charging
<1>11. \A m \in Leave \ {l} : BeingCharged(m)' <=> BeingCharged(m)
  BY <1>8 DEF BeingCharged
<1>12. \A m \in Leave : ChargeCount(m)' = ChargeCount(m)
  BY DEF ChargeCount
\* Unless the write taints the row, it is made from the status it replaces.
<1>13. ASSUME LeaveRow(l) \notin tainted'
       PROVE  /\ LeaveRow(l) \notin tainted
              /\ At(w, "Insert") => leave[l] = "NONE"
              /\ req[w].pc \in {"AutoApprove", "Decide"} => leave[l] = "PENDING"
  BY <1>3, <1>13 DEF ImagesAreCurrent, SubmissionsAreFresh
<1>14. ASSUME LeaveRow(l) \notin tainted', req[w].pc # "Cancel"
       PROVE  /\ ~ BeingCharged(l) /\ ChargeCount(l) = 0
              /\ \A v \in Request :
                   At(v, "Charge") /\ BalanceOf[req[v].leave] = BalanceOf[l]
                     => req[v].used[l] = 0
  BY <1>13, <1>14 DEF CountsAreRight, CountIsRight, Undecided
<1>15. CountsAreRight'
  <2> SUFFICES ASSUME NEW m \in Leave, LeaveRow(m) \notin tainted'
      PROVE  /\ BeingCharged(m)' => leave'[m] \in {"APPROVED", "CANCELLED"}
             /\ \A v, u \in Request : Charging(v, m)' /\ Charging(u, m)' => v = u
             /\ CountIsRight(m, ChargeCount(m))'
             /\ \A v \in Request :
                  At(v, "Charge")' /\ BalanceOf[req'[v].leave] = BalanceOf[m]
                    => CountIsRight(m, req[v].used[m])'
    BY DEF CountsAreRight
  <2>1. CASE m # l
    <3>1. leave'[m] = leave[m] /\ LeaveRow(m) \notin tainted
      BY <1>2, <1>3, <2>1
    <3> QED
      BY <2>1, <3>1, <1>7, <1>8, <1>11, <1>12 DEF CountsAreRight, CountIsRight
  <2>2. CASE m = l /\ At(w, "Cancel")
    <3>1. /\ \A v \in Request : Charging(v, l)' <=> Charging(v, l)
          /\ leave'[l] = "CANCELLED" /\ LeaveRow(l) \notin tainted
      BY <1>2, <1>6, <1>9, <1>10, <1>13, <2>2
    <3>2. BeingCharged(l)' <=> BeingCharged(l)
      BY <3>1 DEF BeingCharged
    <3> QED
      BY <2>2, <3>1, <3>2, <1>7, <1>12 DEF CountsAreRight, CountIsRight, Undecided
  <2>3. CASE m = l /\ ~ At(w, "Cancel")
    <3>1. \A v \in Request \ {w} : ~ Charging(v, l)'
      BY <1>9, <1>14, <2>3 DEF BeingCharged
    <3>2. BeingCharged(l)' => r.pc = "LoadBalance" /\ leave'[l] = "APPROVED"
      BY <3>1, <1>2, <1>10 DEF BeingCharged
    <3> QED
      BY <2>3, <3>1, <3>2, <1>7, <1>12, <1>14 DEF CountIsRight
  <2> QED
    BY <2>1, <2>2, <2>3
<1>16. ApprovedIsCharged'
  <2> SUFFICES ASSUME NEW m \in Leave,
                      leave'[m] = "APPROVED" /\ Owner[m] \notin Ceo,
                      LeaveRow(m) \notin tainted', UsedDays(BalanceOf[m]) \notin tainted',
                      m \notin died', ~ BeingCharged(m)'
      PROVE  ChargeCount(m)' = 1
    BY DEF ApprovedIsCharged
  <2>1. CASE m = l
    <3>1. r.pc # "LoadBalance"
      BY <2>1, <1>10 DEF BeingCharged
    <3>2. At(w, "AutoApprove")
      BY <3>1, <2>1, <1>2
    <3> QED
      BY <3>2, <2>1 DEF SubmissionsAreFresh
  <2>2. CASE m # l
    BY <2>2, <1>2, <1>3, <1>11, <1>12 DEF ApprovedIsCharged
  <2> QED
    BY <2>1, <2>2
<1> QED
  BY <1>4, <1>5, <1>15, <1>16

\* get_or_create of the balance row: the image taken is the row itself.
LEMMA LoadBalanceStep ==
  ASSUME LedgerInv, TypeOK', NEW w \in Request, ReviewLoadBalance(w)
  PROVE  LedgerInv'
<1> USE LeaveAssumption DEF LeaveAssumption, LedgerInv, At
<1> DEFINE l == req[w].leave
           b == BalanceOf[l]
<1>1. l \in Leave /\ b \in Balance
  BY Shape DEF ReviewLoadBalance, TypeOK, LeaveReq
<1>2. \A c \in Balance : balance'[c].used = balance[c].used
  BY DEF ReviewLoadBalance, TypeOK
<1>3. /\ \A v \in Request \ {w} : req'[v] = req[v]
      /\ req'[w].pc = "Charge" /\ req'[w].leave = l /\ req'[w].used = balance[b].used
  BY DEF ReviewLoadBalance, Becomes, TypeOK
<1>4. UNCHANGED <<leave, tainted, died, dirty>> /\ req[w].pc = "LoadBalance"
  BY DEF ReviewLoadBalance
<1>5. ImagesAreCurrent'
  BY <1>1, <1>2, <1>3, <1>4, Shape DEF ImagesAreCurrent, TypeOK, ChargeReq
<1>6. SubmissionsAreFresh'
  BY <1>3, <1>4 DEF SubmissionsAreFresh
<1>7. \A m \in Leave, v \in Request : Charging(v, m)' <=> Charging(v, m)
  BY <1>3, <1>4 DEF Charging
<1>8. \A m \in Leave : /\ BeingCharged(m)' <=> BeingCharged(m)
                       /\ ChargeCount(m)' = ChargeCount(m)
  BY <1>2, <1>7 DEF BeingCharged, ChargeCount
<1>9. CountsAreRight'
  <2> SUFFICES ASSUME NEW m \in Leave, LeaveRow(m) \notin tainted'
      PROVE  /\ BeingCharged(m)' => leave'[m] \in {"APPROVED", "CANCELLED"}
             /\ \A v, u \in Request : Charging(v, m)' /\ Charging(u, m)' => v = u
             /\ CountIsRight(m, ChargeCount(m))'
             /\ \A v \in Request :
                  At(v, "Charge")' /\ BalanceOf[req'[v].leave] = BalanceOf[m]
                    => CountIsRight(m, req[v].used[m])'
    BY DEF CountsAreRight
  <2>1. BalanceOf[l] = BalanceOf[m] => req'[w].used[m] = ChargeCount(m)
    BY <1>3 DEF ChargeCount
  <2> QED
    BY <2>1, <1>3, <1>4, <1>7, <1>8 DEF CountsAreRight, CountIsRight
<1>10. ApprovedIsCharged'
  BY <1>4, <1>8 DEF ApprovedIsCharged
<1> QED
  BY <1>5, <1>6, <1>9, <1>10

\* balance.save(): the image plus the request's own charge.
LEMMA ChargeStep ==
  ASSUME LedgerInv, TypeOK', NEW w \in Request, ReviewCharge(w),
         NEW l \in Leave, l = req[w].leave, NEW b \in Balance, b = BalanceOf[l]
  PROVE  LedgerInv'
<1> USE LeaveAssumption DEF LeaveAssumption, LedgerInv, At
<1>1. req[w].pc = "Charge" /\ req[w].used \in Charges
  BY Shape DEF ReviewCharge, TypeOK, ChargeReq
<1>2. /\ \A v \in Request \ {w} : req'[v] = req[v]
      /\ req'[w].pc = "Days"
  BY DEF ReviewCharge, Becomes, TypeOK
<1>3. UNCHANGED <<leave, died>>
  BY DEF ReviewCharge
<1>4. /\ tainted \subseteq tainted'
      /\ w \in dirty => UsedDays(b) \in tainted'
      /\ \A v \in Request \ {w} : v \notin dirty' =>
           /\ v \notin dirty
           /\ At(v, "Charge") => BalanceOf[req[v].leave] # b
  BY BalanceWrite DEF ReviewCharge
<1>5. /\ \A c \in Balance \ {b} : balance'[c] = balance[c]
      /\ balance'[b].used = Add(req[w].used, l)
  BY <1>1 DEF ReviewCharge, TypeOK
<1>6. /\ balance'[b].used[l] = req[w].used[l] + 1
      /\ \A m \in Leave \ {l} : balance'[b].used[m] = req[w].used[m]
  BY <1>1, <1>5 DEF Add, Charges
<1>7. ImagesAreCurrent'
  <2>1. \A v \in Request : At(v, "Charge") => req[v].leave \in Leave
    BY Shape DEF TypeOK, ChargeReq
  <2> QED
    BY <1>2, <1>3, <1>4, <1>5, <2>1 DEF ImagesAreCurrent
<1>8. SubmissionsAreFresh'
  BY <1>2, <1>3 DEF SubmissionsAreFresh
<1>9. \A m \in Leave, v \in Request :
         Charging(v, m)' <=> v # w /\ Charging(v, m)
  BY <1>2 DEF Charging
<1>10. Charging(w, l) /\ BeingCharged(l)
  BY <1>1 DEF Charging, BeingCharged
<1>11. \A m \in Leave : /\ BeingCharged(m)' => BeingCharged(m)
                        /\ m # l => (BeingCharged(m)' <=> BeingCharged(m))
  BY <1>9 DEF BeingCharged, Charging
\* The charged request itself, had its row not been raced: from 0 to 1.
<1>12. ASSUME LeaveRow(l) \notin tainted'
       PROVE  /\ leave'[l] \notin Undecided /\ leave'[l] \in {"APPROVED", "CANCELLED"}
              /\ ~ BeingCharged(l)' /\ ChargeCount(l)' = 1
              /\ \A v \in Request :
                   At(v, "Charge")' /\ BalanceOf[req'[v].leave] = b
                     => req'[v].used[l] = 0
  <2>1. LeaveRow(l) \notin tainted
    BY <1>4, <1>12
  <2>2. /\ leave[l] \in {"APPROVED", "CANCELLED"}
        /\ \A v \in Request : Charging(v, l) => v = w
        /\ \A v \in Request :
             At(v, "Charge") /\ BalanceOf[req[v].leave] = b => req[v].used[l] = 0
    BY <1>1, <1>10, <2>1 DEF CountsAreRight, CountIsRight
  <2>3. \A v \in Request : ~ Charging(v, l)'
    BY <1>1, <1>9, <2>2
  <2>4. ~ BeingCharged(l)'
    BY <2>3 DEF BeingCharged
  <2>5. ChargeCount(l)' = 1
    BY <1>1, <1>6, <2>2 DEF ChargeCount
  <2> QED
    BY <1>2, <1>3, <2>2, <2>4, <2>5 DEF Undecided
<1>13. CountsAreRight'
  <2> SUFFICES ASSUME NEW m \in Leave, LeaveRow(m) \notin tainted'
      PROVE  /\ BeingCharged(m)' => leave'[m] \in {"APPROVED", "CANCELLED"}
             /\ \A v, u \in Request : Charging(v, m)' /\ Charging(u, m)' => v = u
             /\ CountIsRight(m, ChargeCount(m))'
             /\ \A v \in Request :
                  At(v, "Charge")' /\ BalanceOf[req'[v].leave] = BalanceOf[m]
                    => CountIsRight(m, req[v].used[m])'
    BY DEF CountsAreRight
  <2>1. /\ BeingCharged(m) => leave[m] \in {"APPROVED", "CANCELLED"}
        /\ \A v, u \in Request : Charging(v, m) /\ Charging(u, m) => v = u
        /\ CountIsRight(m, ChargeCount(m))
        /\ \A v \in Request :
             At(v, "Charge") /\ BalanceOf[req[v].leave] = BalanceOf[m]
               => CountIsRight(m, req[v].used[m])
    BY <1>4 DEF CountsAreRight
  <2>2. \A v \in Request : At(v, "Charge")' => v # w /\ req'[v] = req[v]
    BY <1>2
  <2>3. CASE m = l
    <3>1. leave'[l] \notin Undecided /\ ~ BeingCharged(l)' /\ ChargeCount(l)' = 1
          /\ \A v \in Request :
               At(v, "Charge")' /\ BalanceOf[req'[v].leave] = b
                 => req'[v].used[l] = 0
      BY <1>12, <2>3
    <3> QED
      BY <2>3, <3>1 DEF CountIsRight, BeingCharged
  <2>4. CASE m # l
    <3>1. CountIsRight(m, ChargeCount(m))'
      <4>1. CASE BalanceOf[m] = b
        BY <4>1, <2>1, <2>4, <1>1, <1>3, <1>6, <1>11 DEF ChargeCount, CountIsRight
      <4>2. CASE BalanceOf[m] # b
        BY <4>2, <2>1, <2>4, <1>3, <1>5, <1>11 DEF ChargeCount, CountIsRight
      <4> QED
        BY <4>1, <4>2
    <3> QED
      BY <3>1, <2>1, <2>2, <2>4, <1>3, <1>9, <1>11 DEF CountIsRight
  <2> QED
    BY <2>3, <2>4
<1>14. ApprovedIsCharged'
  <2> SUFFICES ASSUME NEW m \in Leave,
                      leave'[m] = "APPROVED" /\ Owner[m] \notin Ceo,
                      LeaveRow(m) \notin tainted', UsedDays(BalanceOf[m]) \notin tainted',
                      m \notin died', ~ BeingCharged(m)'
      PROVE  ChargeCount(m)' = 1
    BY DEF ApprovedIsCharged
  <2>1. CASE m = l
    <3>1. req[w].used[l] = 0
      BY <1>1, <1>4, <1>10, <2>1 DEF CountsAreRight, CountIsRight
    <3> QED
      BY <1>6, <2>1, <3>1 DEF ChargeCount
  <2>2. CASE m # l
    <3>1. ChargeCount(m) = 1
      BY <1>3, <1>4, <1>11, <2>2 DEF ApprovedIsCharged
    <3>2. CASE BalanceOf[m] = b
      <4>1. req[w].used = balance[b].used
        BY <1>1, <1>4, <3>2 DEF ImagesAreCurrent
      <4> QED
        BY <3>1, <3>2, <4>1, <1>6, <2>2 DEF ChargeCount
    <3>3. CASE BalanceOf[m] # b
      BY <3>1, <3>3, <1>5 DEF ChargeCount
    <3> QED
      BY <3>2, <3>3
  <2> QED
    BY <2>1, <2>2
<1> QED
  BY <1>7, <1>8, <1>13, <1>14

\* The loads that only read.
LEMMA LoadSteps ==
  ASSUME LedgerInv, TypeOK', NEW w \in Request,
         \/ \E l \in Leave : ApplyReadBalance(w, l)
         \/ ApplyCheckQuota(w)
         \/ \E l \in Leave, who \in Person, v \in {"APPROVED", "REJECTED"} :
              ReviewLoad(w, l, who, v)
         \/ \E l \in Leave : CancelLoad(w, l)
  PROVE  LedgerInv'
<1> USE DEF At
<1>1. ASSUME NEW l \in Leave, ApplyReadBalance(w, l)
      PROVE  LedgerInv'
  BY <1>1, ReadOnly DEF ApplyReadBalance
<1>2. CASE ApplyCheckQuota(w)
  <2>1. req[w] \in ApplyReq
    BY <1>2, Shape DEF ApplyCheckQuota, LedgerInv, TypeOK
  <2>2. CASE Becomes(w, [req[w] EXCEPT !.pc = "Insert"]) /\ UNCHANGED dirty
    <3> DEFINE r == [req[w] EXCEPT !.pc = "Insert"]
    <3>1. r.pc = "Insert" /\ r.leave = req[w].leave
      BY <2>1 DEF ApplyReq
    <3>2. /\ leave[req[w].leave] = "NONE"
          /\ \A v \in Request \ {w} :
               req[v].pc \in {"Quota", "Insert"} => req[v].leave # req[w].leave
      BY <1>2 DEF ApplyCheckQuota, LedgerInv, SubmissionsAreFresh
    <3> HIDE DEF r
    <3> QED
      BY <1>2, <2>2, <3>1, <3>2, ReadOnly DEF ApplyCheckQuota, r
  <2>3. CASE Done(w)
    <3>1. req'[w].pc = "Idle"
      BY <2>3 DEF Done, Becomes, LedgerInv, TypeOK
    <3> QED
      BY <1>2, <3>1, BystanderActions, BystanderStep DEF LedgerInv
  <2> QED
    BY <1>2, <2>2, <2>3 DEF ApplyCheckQuota
<1>3. ASSUME NEW l \in Leave, NEW who \in Person, NEW v \in {"APPROVED", "REJECTED"},
             ReviewLoad(w, l, who, v)
      PROVE  LedgerInv'
  BY <1>3, ReadOnly DEF ReviewLoad
<1>4. ASSUME NEW l \in Leave, CancelLoad(w, l)
      PROVE  LedgerInv'
  BY <1>4, ReadOnly DEF CancelLoad
<1> QED
  BY <1>1, <1>2, <1>3, <1>4

\* The statements that write a request's row.
LEMMA WriteSteps ==
  ASSUME LedgerInv, TypeOK', NEW w \in Request,
         ApplyInsert(w) \/ ApplyAutoApprove(w) \/ ReviewDecide(w) \/ CancelSave(w)
  PROVE  LedgerInv'
<1> USE DEF At, Status
<1>1. CASE ApplyInsert(w)
  <2>1. req[w].leave \in Leave
    BY <1>1, Shape DEF ApplyInsert, LedgerInv, TypeOK, ApplyReq
  <2> QED
    BY <1>1, <2>1, LeaveWriters DEF ApplyInsert, Done
<1>2. CASE ApplyAutoApprove(w)
  <2>1. req[w].leave \in Leave
    BY <1>2, Shape DEF ApplyAutoApprove, LedgerInv, TypeOK, LeaveReq
  <2> QED
    BY <1>2, <2>1, LeaveWriters DEF ApplyAutoApprove, Done
<1>3. CASE ReviewDecide(w)
  <2>1. req[w].leave \in Leave /\ req[w].verdict \in {"APPROVED", "REJECTED"}
    BY <1>3, Shape DEF ReviewDecide, LedgerInv, TypeOK, DecideReq
  <2> QED
    BY <1>3, <2>1, LeaveWriters DEF ReviewDecide, Done, ExemptFromBalance
<1>4. CASE CancelSave(w)
  <2>1. req[w].leave \in Leave
    BY <1>4, Shape DEF CancelSave, LedgerInv, TypeOK, LeaveReq
  <2> QED
    BY <1>4, <2>1, LeaveWriters DEF CancelSave, Done
<1> QED
  BY <1>1, <1>2, <1>3, <1>4

\* Every step keeps the ledger invariant.
LEMMA LedgerStep == LedgerInv /\ [Next]_vars => LedgerInv'
<1> SUFFICES ASSUME LedgerInv, [Next]_vars PROVE LedgerInv'
  OBVIOUS
<1>1. TypeOK /\ TypeOK'
  BY TypeStep DEF LedgerInv
<1>2. CASE UNCHANGED vars
  BY <1>1, <1>2, BystanderStep DEF Bystander, vars
<1>3. ASSUME NEW w \in Request, Handlers(w) \/ Die(w)
      PROVE  LedgerInv'
  <2>1. CASE ReviewCharge(w)
    <3>1. req[w].leave \in Leave /\ BalanceOf[req[w].leave] \in Balance
      BY <1>1, <2>1, Shape, LeaveAssumption DEF ReviewCharge, At, TypeOK, ChargeReq, LeaveAssumption
    <3> QED
      BY <1>1, <2>1, <3>1, ChargeStep
  <2> QED
    BY <1>1, <1>3, <2>1, LoadSteps, WriteSteps, LoadBalanceStep,
       BystanderActions, BystanderStep DEF Handlers, Apply, Review, Cancel
<1>4. CASE Administer \/ NextDay
  BY <1>1, <1>4, AdministerStandsBy, BystanderStep
<1> QED
  BY <1>2, <1>3, <1>4 DEF Next

(***************************************************************************)
(* The safety of the ledger                                                *)
(***************************************************************************)
\* The ledger invariant holds in every reachable state.
THEOREM LedgerIsSafe == Spec => []LedgerInv
  BY LedgerInit, LedgerStep, PTL DEF Spec

\* No untainted request is charged twice, whatever is approved, cancelled,
\* raced or killed around it.
THEOREM NeverChargedTwice == Spec => []ChargedAtMostOnce
<1>1. LedgerInv => ChargedAtMostOnce
  BY DEF LedgerInv, CountsAreRight, CountIsRight, ChargedAtMostOnce
<1> QED
  BY <1>1, LedgerIsSafe, PTL

\* A request that was never approved has cost nothing.
THEOREM OnlyApprovalCharges == Spec => []NoChargeWithoutApproval
<1>1. LedgerInv => NoChargeWithoutApproval
  BY DEF LedgerInv, CountsAreRight, CountIsRight, NoChargeWithoutApproval, Undecided
<1> QED
  BY <1>1, LedgerIsSafe, PTL

\* An approved request is charged, unless one of the named accidents happened.
THEOREM ApprovalCharges == Spec => []ApprovedIsCharged
<1>1. LedgerInv => ApprovedIsCharged
  BY DEF LedgerInv
<1> QED
  BY <1>1, LedgerIsSafe, PTL

\* Only the four writers change a status, and only by a move unless they taint.
LEMMA MoveStep == LedgerInv /\ [Next]_vars => [MovesOnly]_vars
<1> SUFFICES ASSUME LedgerInv, Next, NEW l \in Leave, leave'[l] # leave[l],
                    LeaveRow(l) \notin tainted'
             PROVE  <<leave[l], leave'[l]>> \in Moves
  BY DEF MovesOnly
<1> USE DEF At
<1>1. leave \in [Leave -> Status] /\ req \in [Request -> Req]
  BY DEF LedgerInv, TypeOK
<1>2. PICK w \in Request :
        ApplyInsert(w) \/ ApplyAutoApprove(w) \/ ReviewDecide(w) \/ CancelSave(w)
  BY DEF Next, Handlers, Apply, Review, Cancel, ClockIn, Administer, ApplyReadBalance,
     ApplyCheckQuota, ReviewLoad, ReviewLoadBalance, ReviewCharge, ReviewLoadDay,
     ReviewSaveDay, CancelLoad, CheckIn, CheckInSave, TrackerPost, OpenBalance,
     AssignBalance, NextDay, Die
<1>3. req[w].leave = l /\ req[w].pc \in {"Insert", "AutoApprove", "Decide", "Cancel"}
  BY <1>1, <1>2 DEF ApplyInsert, ApplyAutoApprove, ReviewDecide, CancelSave
<1>4. req[w].pc # "Insert" => w \notin dirty
  BY <1>2, <1>3, LeaveWrite DEF ApplyInsert, ApplyAutoApprove, ReviewDecide, CancelSave
<1>5. CASE ApplyInsert(w)
  BY <1>1, <1>3, <1>5 DEF ApplyInsert, LedgerInv, SubmissionsAreFresh, Moves
<1>6. CASE ApplyAutoApprove(w)
  BY <1>1, <1>3, <1>4, <1>6 DEF ApplyAutoApprove, LedgerInv, ImagesAreCurrent, Moves
<1>7. CASE ReviewDecide(w)
  <2>1. req[w].verdict \in {"APPROVED", "REJECTED"}
    BY <1>1, <1>7, Shape DEF ReviewDecide, DecideReq
  <2> QED
    BY <1>1, <1>3, <1>4, <1>7, <2>1 DEF ReviewDecide, LedgerInv, ImagesAreCurrent, Moves
<1>8. CASE CancelSave(w)
  BY <1>1, <1>3, <1>4, <1>8 DEF CancelSave, LedgerInv, ImagesAreCurrent, Moves
<1> QED
  BY <1>2, <1>5, <1>6, <1>7, <1>8

\* No decision is reopened or reversed except from an outdated image.
THEOREM DecisionsStay == Spec => DecisionsAreFinal
  BY LedgerIsSafe, MoveStep, PTL DEF Spec, DecisionsAreFinal

\* A saved balance keeps every charge it had unless it was saved from an
\* outdated image.
LEMMA ChargeKept == LedgerInv /\ [Next]_vars => [KeepsCharges]_vars
<1> SUFFICES ASSUME LedgerInv, Next, NEW b \in Balance, UsedDays(b) \notin tainted',
                    NEW l \in Leave
             PROVE  balance'[b].used[l] >= balance[b].used[l]
  BY DEF KeepsCharges
<1> USE LeaveAssumption DEF LeaveAssumption, LedgerInv
<1>1. balance[b].used[l] \in Nat
  BY DEF TypeOK, Charges
<1>2. ASSUME UNCHANGED balance
      PROVE  balance'[b].used[l] >= balance[b].used[l]
  BY <1>1, <1>2
<1>3. ASSUME balance'[b].used = balance[b].used
      PROVE  balance'[b].used[l] >= balance[b].used[l]
  BY <1>1, <1>3
<1>4. ASSUME NEW w \in Request, ReviewLoadBalance(w)
      PROVE  balance'[b].used = balance[b].used
  BY <1>4 DEF ReviewLoadBalance, TypeOK
<1>5. ASSUME Administer
      PROVE  balance'[b].used = balance[b].used
  BY <1>5, AdministerStandsBy DEF Bystander
<1>6. ASSUME NEW w \in Request, ReviewCharge(w)
      PROVE  balance'[b].used[l] >= balance[b].used[l]
  <2>1. req[w] \in ChargeReq /\ At(w, "Charge")
    BY <1>6, Shape DEF ReviewCharge, TypeOK, At
  <2> DEFINE m == req[w].leave
  <2>2. m \in Leave /\ BalanceOf[m] \in Balance /\ req[w].used \in Charges
    BY <2>1 DEF ChargeReq
  <2>3. CASE BalanceOf[m] # b
    BY <1>1, <1>6, <2>2, <2>3 DEF ReviewCharge, TypeOK
  <2>4. CASE BalanceOf[m] = b
    <3>1. w \notin dirty
      BY <1>6, <2>1, <2>4, BalanceWrite DEF ReviewCharge
    <3>2. req[w].used = balance[b].used
      BY <2>1, <2>4, <3>1 DEF ImagesAreCurrent
    <3>3. balance'[b].used = Add(req[w].used, m)
      BY <1>6, <2>2, <2>4 DEF ReviewCharge, TypeOK
    <3> QED
      BY <1>1, <2>2, <3>2, <3>3 DEF Add, Charges
  <2> QED
    BY <2>3, <2>4
<1> QED
  BY <1>2, <1>3, <1>4, <1>5, <1>6 DEF Next, Handlers, Apply, Review, Cancel, ClockIn,
     ApplyReadBalance, ApplyCheckQuota, ApplyInsert, ApplyAutoApprove, ReviewLoad,
     ReviewDecide, ReviewLoadDay, ReviewSaveDay, CancelLoad, CancelSave, CheckIn,
     CheckInSave, NextDay, Die

\* No charge is lost by a balance saved from an image that is up to date.
THEOREM ChargesStay == Spec => NoChargeLost
  BY LedgerIsSafe, ChargeKept, PTL DEF Spec, NoChargeLost
(***************************************************************************)
(* WholeDay days                                                             *)
(***************************************************************************)
\* A review that is about to save a day as leave, and holds its row as it is,
\* holds a day not marked as worked in whole.
DaysAreFree ==
  \A w \in Request \ dirty :
    At(w, "SaveDay") => attendance[<<Owner[req[w].leave], req[w].day>>].status \notin WholeDay

\* The threads of reviews and of the clock keep DaysAreFree.
LEMMA DaysFreeMoves ==
  ASSUME TypeOK, DaysAreFree, NEW w \in Request,
         ReviewLoadDay(w) \/ ReviewSaveDay(w) \/ CheckInSave(w)
           \/ \E p \in Person, s \in WholeDay : CheckIn(w, p, s)
  PROVE  DaysAreFree'
<1> USE DEF At, WholeDay
<1>0. /\ req \in [Request -> Req] /\ attendance \in [AttendanceKey -> [status : DayStatus, in : BOOLEAN]]
      /\ \A v \in Request : req[v].pc = "SaveDay" => <<Owner[req[v].leave], req[v].day>> \in AttendanceKey
  BY Shape, LeaveAssumption DEF TypeOK, SaveDayReq, AttendanceKey, LeaveAssumption
\* A write of one day's row that is not to a whole day, or outdates who holds it.
<1>1. ASSUME NEW k \in AttendanceKey,
             \A j \in AttendanceKey \ {k} : attendance'[j] = attendance[j],
             NEW v \in Request \ dirty', req'[v] = req[v], v \notin dirty, At(v, "SaveDay"),
             attendance'[k].status \in WholeDay => v \notin Outdated({DayRow(k)})
      PROVE  attendance'[<<Owner[req[v].leave], req[v].day>>].status \notin WholeDay
  <2>1. CASE <<Owner[req[v].leave], req[v].day>> = k
    BY <1>1, <2>1 DEF Outdated, Held
  <2>2. CASE <<Owner[req[v].leave], req[v].day>> # k
    BY <1>0, <1>1, <2>2 DEF DaysAreFree
  <2> QED
    BY <2>1, <2>2
<1>2. CASE ReviewSaveDay(w)
  <2> DEFINE k == <<Owner[req[w].leave], req[w].day>>
  <2>1. /\ k \in AttendanceKey /\ attendance' = [attendance EXCEPT ![k].status = "ON_LEAVE"]
        /\ dirty \ {w} \subseteq dirty' /\ req'[w].pc = "Days"
        /\ \A v \in Request \ {w} : req'[v] = req[v]
    BY <1>0, <1>2 DEF ReviewSaveDay, Writes, Becomes
  <2>2. attendance'[k].status \notin WholeDay /\ \A j \in AttendanceKey \ {k} : attendance'[j] = attendance[j]
    BY <1>0, <2>1
  <2> QED
    BY <1>1, <2>1, <2>2 DEF DaysAreFree
<1>3. CASE CheckInSave(w)
  <2> DEFINE k == <<req[w].who, req[w].day>>
  <2>1. /\ k \in AttendanceKey /\ dirty' = (dirty \cup Outdated({DayRow(k)})) \ {w}
        /\ \A j \in AttendanceKey \ {k} : attendance'[j] = attendance[j]
        /\ req'[w].pc = "Idle" /\ \A v \in Request \ {w} : req'[v] = req[v]
    BY <1>0, <1>3, Shape DEF CheckInSave, Writes, Done, Becomes, CheckInReq, AttendanceKey
  <2> QED
    BY <1>1, <2>1 DEF DaysAreFree
<1>4. ASSUME NEW p \in Person, NEW s \in WholeDay, CheckIn(w, p, s)
      PROVE  DaysAreFree'
  <2> DEFINE k == <<p, today>>
  <2>1. CASE attendance[k].status = "NONE"
    <3>1. /\ k \in AttendanceKey /\ dirty' = dirty \cup Outdated({DayRow(k)}) /\ UNCHANGED req
          /\ \A j \in AttendanceKey \ {k} : attendance'[j] = attendance[j]
      BY <1>0, <1>4, <2>1 DEF CheckIn, AttendanceKey, TypeOK
    <3> QED
      BY <1>1, <3>1 DEF DaysAreFree
  <2>2. CASE attendance[k].status # "NONE"
    BY <1>0, <1>4, <2>2 DEF CheckIn, Becomes, DaysAreFree
  <2> QED
    BY <2>1, <2>2
<1>5. CASE ReviewLoadDay(w)
  <2>0. req[w] \in DaysReq
    BY <1>0, <1>5, Shape DEF ReviewLoadDay
  <2>1. CASE Done(w) /\ UNCHANGED <<attendance, dirty>>
    BY <1>0, <2>1 DEF Done, Becomes, DaysAreFree
  <2>2. CASE ~ (Done(w) /\ UNCHANGED <<attendance, dirty>>)
    <3>1. PICK d \in req[w].todo :
            LET k == <<Owner[req[w].leave], d>>
                new == attendance[k].status = "NONE"
            IN /\ IF KeepsDay(attendance[k].status)
                  THEN Becomes(w, [req[w] EXCEPT !.todo = @ \ {d}])
                  ELSE Becomes(w, [pc |-> "SaveDay", leave |-> req[w].leave,
                                   todo |-> req[w].todo \ {d}, day |-> d])
               /\ attendance' = IF new
                                THEN [attendance EXCEPT ![k].status = "ON_LEAVE"]
                                ELSE attendance
               /\ dirty' = IF new THEN dirty \cup Outdated({DayRow(k)}) ELSE dirty
      BY <1>5, <2>2 DEF ReviewLoadDay
    <3> DEFINE k == <<Owner[req[w].leave], d>>
    <3>2. /\ k \in AttendanceKey /\ \A v \in Request \ {w} : req'[v] = req[v]
          /\ dirty \subseteq dirty'
      BY <1>0, <2>0, <3>1, LeaveAssumption DEF DaysReq, AttendanceKey, Becomes, LeaveAssumption
    <3>3. /\ \A j \in AttendanceKey \ {k} : attendance'[j] = attendance[j]
          /\ attendance'[k].status \in WholeDay => attendance' = attendance
      BY <1>0, <3>1, <3>2
    <3>4. ASSUME At(w, "SaveDay")'
          PROVE  attendance'[<<Owner[req'[w].leave], req'[w].day>>].status \notin WholeDay
      <4>1. [req[w] EXCEPT !.todo = @ \ {d}].pc = "Days"
        BY <2>0 DEF DaysReq
      <4>2. ~ KeepsDay(attendance[k].status)
        <5>1. ASSUME KeepsDay(attendance[k].status)
              PROVE  req'[w] = [req[w] EXCEPT !.todo = @ \ {d}]
          BY <1>0, <3>1, <5>1 DEF Becomes
        <5> QED
          BY <3>4, <4>1, <5>1
      <4>3. req'[w] = [pc |-> "SaveDay", leave |-> req[w].leave, todo |-> req[w].todo \ {d}, day |-> d]
        BY <1>0, <3>1, <4>2 DEF Becomes
      <4> QED
        BY <3>3, <4>2, <4>3 DEF KeepsDay
    <3>5. ASSUME NEW v \in Request \ {w}, v \notin dirty', At(v, "SaveDay")'
          PROVE  attendance'[<<Owner[req'[v].leave], req'[v].day>>].status \notin WholeDay
      <4>1. v \notin dirty /\ req'[v] = req[v] /\ At(v, "SaveDay")
        BY <3>2, <3>5
      <4>2. CASE attendance' = attendance
        BY <4>1, <4>2 DEF DaysAreFree
      <4>3. CASE attendance'[k].status \notin WholeDay
        BY <1>1, <3>2, <3>3, <3>5, <4>1, <4>3
      <4> QED
        BY <3>3, <4>2, <4>3
    <3> QED
      BY <3>4, <3>5 DEF DaysAreFree
  <2> QED
    BY <2>1, <2>2
<1> QED
  BY <1>2, <1>3, <1>4, <1>5

\* Every step keeps DaysAreFree.
LEMMA DaysFreeStep == TypeOK /\ DaysAreFree /\ [Next]_vars => DaysAreFree'
<1> SUFFICES ASSUME TypeOK, DaysAreFree, [Next]_vars
             PROVE  DaysAreFree'
  OBVIOUS
<1> USE DEF At
<1>0. /\ req \in [Request -> Req] /\ attendance \in [AttendanceKey -> [status : DayStatus, in : BOOLEAN]]
      /\ \A v \in Request : req[v].pc = "SaveDay" => <<Owner[req[v].leave], req[v].day>> \in AttendanceKey
  BY Shape, LeaveAssumption DEF TypeOK, SaveDayReq, AttendanceKey, LeaveAssumption
<1>1. ASSUME UNCHANGED attendance,
             \A v \in Request : \/ req'[v] = req[v] /\ (v \notin dirty' => v \notin dirty)
                               \/ req'[v].pc # "SaveDay"
      PROVE  DaysAreFree'
  BY <1>1 DEF DaysAreFree
<1>2. ASSUME NEW w \in Request, NEW r, Becomes(w, r), r.pc # "SaveDay", UNCHANGED attendance,
             dirty \ {w} \subseteq dirty'
      PROVE  DaysAreFree'
  BY <1>0, <1>1, <1>2 DEF Becomes
<1>3. ASSUME NEW w \in Request, Done(w), UNCHANGED attendance, dirty \ {w} \subseteq dirty'
      PROVE  DaysAreFree'
  <2>1. [pc |-> "Idle"].pc # "SaveDay"
    OBVIOUS
  <2> QED
    BY <1>2, <1>3, <2>1 DEF Done
<1>4. ASSUME NEW w \in Request, Apply(w) PROVE DaysAreFree'
  <2>1. ASSUME NEW l \in Leave, ApplyReadBalance(w, l) PROVE DaysAreFree'
    BY <1>2, <2>1 DEF ApplyReadBalance
  <2>2. CASE ApplyCheckQuota(w)
    <3>1. req[w] \in ApplyReq
      BY <1>0, <2>2, Shape DEF ApplyCheckQuota
    <3>2. [req[w] EXCEPT !.pc = "Insert"].pc # "SaveDay"
      BY <3>1 DEF ApplyReq
    <3> QED
      BY <1>2, <1>3, <2>2, <3>2 DEF ApplyCheckQuota
  <2>3. CASE ApplyInsert(w) \/ ApplyAutoApprove(w)
    BY <1>2, <1>3, <2>3 DEF ApplyInsert, ApplyAutoApprove, Writes
  <2> QED
    BY <1>4, <2>1, <2>2, <2>3 DEF Apply
<1>5. ASSUME NEW w \in Request, Review(w) PROVE DaysAreFree'
  <2>1. ASSUME NEW l \in Leave, NEW who, NEW v, ReviewLoad(w, l, who, v) PROVE DaysAreFree'
    BY <1>2, <2>1 DEF ReviewLoad
  <2>2. CASE ReviewDecide(w)
    BY <1>2, <1>3, <2>2 DEF ReviewDecide, Writes
  <2>3. CASE ReviewLoadBalance(w)
    BY <1>2, <2>3 DEF ReviewLoadBalance
  <2>4. CASE ReviewCharge(w)
    BY <1>2, <2>4 DEF ReviewCharge, Writes
  <2> QED
    BY <1>5, <2>1, <2>2, <2>3, <2>4, DaysFreeMoves DEF Review
<1>6. ASSUME NEW w \in Request, Cancel(w) \/ Die(w) PROVE DaysAreFree'
  <2>1. ASSUME NEW l \in Leave, CancelLoad(w, l) PROVE DaysAreFree'
    BY <1>2, <2>1 DEF CancelLoad
  <2> QED
    BY <1>3, <1>6, <2>1 DEF Cancel, CancelSave, Die, Writes
<1>7. ASSUME NEW w \in Request, ClockIn(w) PROVE DaysAreFree'
  BY <1>7, DaysFreeMoves, LeaveAssumption DEF ClockIn, LeaveAssumption
<1>8. CASE Administer \/ NextDay
  <2>1. ASSUME NEW c \in Corrections, TrackerPost(c) PROVE DaysAreFree'
    <3> DEFINE k == <<c[1], c[2]>>
    <3>1. /\ \A j \in AttendanceKey \ {k} : attendance'[j] = attendance[j]
          /\ dirty' = dirty \cup Outdated({DayRow(k)}) /\ UNCHANGED req
      BY <1>0, <2>1 DEF TrackerPost
    <3>2. ASSUME NEW v \in Request, At(v, "SaveDay"), v \notin dirty'
          PROVE  <<Owner[req[v].leave], req[v].day>> # k
      BY <3>1, <3>2 DEF Outdated, Held
    <3> QED
      BY <1>0, <3>1, <3>2 DEF DaysAreFree
  <2> QED
    BY <1>1, <1>8, <2>1 DEF Administer, OpenBalance, AssignBalance, NextDay
<1>9. CASE UNCHANGED vars
  BY <1>1, <1>9 DEF vars
<1> QED
  BY <1>4, <1>5, <1>6, <1>7, <1>8, <1>9 DEF Next, Handlers

\* The loop of an approval over the days leaves a whole day alone, and of
\* another changes the status only.
KeepsWholeDays ==
  \A w \in Request, k \in AttendanceKey :
    ReviewLoadDay(w) \/ ReviewSaveDay(w) =>
      /\ attendance[k].status \in WholeDay /\ w \notin dirty
           => attendance'[k] = attendance[k]
      /\ attendance'[k] # attendance[k] =>
           attendance'[k] = [attendance[k] EXCEPT !.status = "ON_LEAVE"]

\* Approving leave over a day marked PRESENT or WFH keeps it, unless its row
\* changed since the loop read it; any other day it turns into leave, a worked
\* half day included, and keeps its check-in.
THEOREM WholeDaysStay == Spec => WholeDayKept
<1>1. Init => DaysAreFree
  BY DEF Init, DaysAreFree, At
<1>2. TypeOK /\ DaysAreFree => KeepsWholeDays
  <2> SUFFICES ASSUME TypeOK, DaysAreFree, NEW w \in Request,
                      NEW k \in AttendanceKey, ReviewLoadDay(w) \/ ReviewSaveDay(w)
               PROVE  /\ attendance[k].status \in WholeDay /\ w \notin dirty
                           => attendance'[k] = attendance[k]
                      /\ attendance'[k] # attendance[k] =>
                           attendance'[k] = [attendance[k] EXCEPT !.status = "ON_LEAVE"]
    BY DEF KeepsWholeDays
  <2>1. CASE ReviewLoadDay(w)
    BY <2>1 DEF ReviewLoadDay, TypeOK, WholeDay
  <2>2. CASE ReviewSaveDay(w)
    BY <2>2 DEF ReviewSaveDay, TypeOK, DaysAreFree, At
  <2> QED
    BY <2>1, <2>2
<1>3. TypeOK /\ DaysAreFree => [KeepsWholeDays]_vars
  BY <1>2
<1> QED
  BY <1>1, <1>3, DaysFreeStep, TypeCorrect, PTL DEF Spec, WholeDayKept, KeepsWholeDays
(***************************************************************************)
(* Served one at a time                                                    *)
(***************************************************************************)
\* With a single thread nothing but an administrator outdates an image, never
\* that of a request's row or of a charge, and nobody withdraws a request
\* between its approval and its charge.
Holding == {"Quota", "Insert", "SaveDay", "CheckIn"}

SerialInv ==
  /\ \A w \in dirty : req[w].pc \in Holding
  /\ \A l \in Leave : LeaveRow(l) \notin tainted
  /\ \A w \in Request :
       req[w].pc \in {"LoadBalance", "Charge"} => leave[req[w].leave] = "APPROVED"

\* Who holds neither a day nor a quota is not outdated by a write of one.
LEMMA OthersHold ==
  ASSUME NEW v \in Request, req[v].pc \notin Holding
  PROVE  /\ \A k : v \notin Outdated({DayRow(k)})
         /\ \A b : v \notin Outdated({Quota(b)})
  BY DEF Held, Outdated, DayRow, Quota, LeaveRow, UsedDays, Holding

\* A thread in Holding that writes taints neither a request's row nor a charge.
LEMMA HoldingTaints ==
  ASSUME NEW w \in Request, req[w].pc \in Holding, NEW X, Writes(w, X)
  PROVE  \A l \in Leave : LeaveRow(l) \notin tainted => LeaveRow(l) \notin tainted'
  BY DEF Held, DayRow, Quota, LeaveRow, UsedDays, Holding, Writes

\* A single thread keeps SerialInv.
LEMMA SerialStep ==
  ASSUME \A v, w \in Request : v = w
  PROVE  LedgerInv /\ SerialInv /\ [Next]_vars => SerialInv'
<1> SUFFICES ASSUME LedgerInv, SerialInv, [Next]_vars PROVE SerialInv'
  OBVIOUS
<1> USE DEF At
<1>0. /\ req \in [Request -> Req] /\ leave \in [Leave -> Status] /\ dirty \subseteq Request
      /\ dirty' \subseteq Request
  BY TypeStep DEF LedgerInv, TypeOK
\* The thread moves and, unless it stays in Holding, is no longer outdated.
<1>1. ASSUME NEW w \in Request, NEW r, Becomes(w, r),
             w \in dirty' => r.pc \in Holding,
             \A l \in Leave : LeaveRow(l) \notin tainted => LeaveRow(l) \notin tainted',
             r.pc \in {"LoadBalance", "Charge"} => leave'[r.leave] = "APPROVED"
      PROVE  SerialInv'
  BY <1>0, <1>1 DEF Becomes, SerialInv
<1>2. ASSUME NEW w \in Request, NEW X, Writes(w, X)
      PROVE  /\ w \notin dirty'
             /\ \A l \in Leave : LeaveRow(l) \notin tainted => LeaveRow(l) \notin tainted'
  BY <1>2, HoldingTaints DEF Writes, SerialInv
<1>3. [pc |-> "Idle"].pc = "Idle"
  OBVIOUS
<1>4. ASSUME NEW w \in Request, Done(w), w \notin dirty',
             \A l \in Leave : LeaveRow(l) \notin tainted => LeaveRow(l) \notin tainted'
      PROVE  SerialInv'
  BY <1>1, <1>3, <1>4 DEF Done
\* The thread stays, and what was outdated is not a request's row.
<1>5. ASSUME UNCHANGED <<leave, req, tainted>>,
             \A w \in dirty' : w \in dirty \/ req[w].pc \in Holding
      PROVE  SerialInv'
  BY <1>5 DEF SerialInv
<1>6. ASSUME NEW w \in Request, Apply(w) PROVE SerialInv'
  <2>1. ASSUME NEW l \in Leave, ApplyReadBalance(w, l) PROVE SerialInv'
    BY <1>1, <2>1 DEF ApplyReadBalance, Holding
  <2>2. CASE ApplyCheckQuota(w)
    <3>1. [req[w] EXCEPT !.pc = "Insert"].pc = "Insert"
      BY <1>0, <2>2, Shape DEF ApplyCheckQuota, ApplyReq
    <3>2. UNCHANGED <<leave, tainted>>
      BY <2>2 DEF ApplyCheckQuota
    <3>3. CASE Done(w) /\ dirty' = dirty \ {w}
      BY <1>4, <3>2, <3>3
    <3>4. CASE Becomes(w, [req[w] EXCEPT !.pc = "Insert"]) /\ UNCHANGED dirty
      BY <1>1, <3>1, <3>2, <3>4 DEF Holding
    <3> QED
      BY <2>2, <3>3, <3>4 DEF ApplyCheckQuota
  <2>3. CASE ApplyInsert(w)
    BY <1>1, <1>2, <1>4, <2>3 DEF ApplyInsert
  <2>4. CASE ApplyAutoApprove(w)
    BY <1>2, <1>4, <2>4 DEF ApplyAutoApprove
  <2> QED
    BY <1>6, <2>1, <2>2, <2>3, <2>4 DEF Apply
<1>7. ASSUME NEW w \in Request, Review(w) PROVE SerialInv'
  <2>1. ASSUME NEW l \in Leave, NEW who, NEW v, ReviewLoad(w, l, who, v) PROVE SerialInv'
    BY <1>1, <2>1 DEF ReviewLoad, SerialInv, Holding
  <2>2. CASE ReviewDecide(w)
    <3>1. req[w].leave \in Leave /\ req[w].verdict \in {"APPROVED", "REJECTED"}
      BY <1>0, <2>2, Shape DEF ReviewDecide, DecideReq
    <3>2. CASE req[w].verdict = "REJECTED"
      BY <1>2, <1>4, <2>2, <3>2 DEF ReviewDecide
    <3>3. CASE req[w].verdict = "APPROVED"
      <4>1. Becomes(w, [pc |-> "LoadBalance", leave |-> req[w].leave])
        BY <2>2, <3>3 DEF ReviewDecide, ExemptFromBalance
      <4>2. leave'[req[w].leave] = "APPROVED"
        BY <1>0, <2>2, <3>1, <3>3 DEF ReviewDecide
      <4>3. /\ w \notin dirty'
            /\ \A l \in Leave : LeaveRow(l) \notin tainted => LeaveRow(l) \notin tainted'
        BY <1>2, <2>2 DEF ReviewDecide
      <4> QED
        BY <1>1, <4>1, <4>2, <4>3
    <3> QED
      BY <3>1, <3>2, <3>3
  <2>3. CASE ReviewLoadBalance(w)
    <3>1. w \notin dirty' /\ leave'[req[w].leave] = "APPROVED" /\ UNCHANGED tainted
      BY <2>3 DEF ReviewLoadBalance, SerialInv, Holding
    <3>2. PICK used : Becomes(w, [pc |-> "Charge", leave |-> req[w].leave, used |-> used])
      BY <2>3 DEF ReviewLoadBalance
    <3> QED
      BY <1>1, <3>1, <3>2
  <2>4. CASE ReviewCharge(w)
    BY <1>1, <1>2, <2>4 DEF ReviewCharge
  <2>5. CASE ReviewLoadDay(w)
    <3>1. req[w] \in DaysReq /\ req[w].pc \notin Holding
      BY <1>0, <2>5, Shape DEF ReviewLoadDay, Holding
    <3>2. w \notin dirty' /\ UNCHANGED tainted
      BY <2>5, <3>1, OthersHold DEF ReviewLoadDay, SerialInv
    <3>3. CASE Done(w)
      BY <1>4, <3>2, <3>3
    <3>4. CASE ~ Done(w)
      <4>1. PICK d \in req[w].todo :
              \/ Becomes(w, [req[w] EXCEPT !.todo = @ \ {d}])
              \/ Becomes(w, [pc |-> "SaveDay", leave |-> req[w].leave,
                             todo |-> req[w].todo \ {d}, day |-> d])
        BY <2>5, <3>4 DEF ReviewLoadDay
      <4>2. [req[w] EXCEPT !.todo = @ \ {d}].pc = "Days"
        BY <3>1 DEF DaysReq
      <4> QED
        BY <1>1, <3>2, <4>1, <4>2
    <3> QED
      BY <3>3, <3>4
  <2>6. CASE ReviewSaveDay(w)
    BY <1>1, <1>2, <2>6 DEF ReviewSaveDay
  <2> QED
    BY <1>7, <2>1, <2>2, <2>3, <2>4, <2>5, <2>6 DEF Review
<1>8. ASSUME NEW w \in Request, Cancel(w) \/ Die(w) PROVE SerialInv'
  <2>1. ASSUME NEW l \in Leave, CancelLoad(w, l) PROVE SerialInv'
    BY <1>1, <2>1 DEF CancelLoad, SerialInv, Holding
  <2>2. CASE CancelSave(w)
    BY <1>2, <1>4, <2>2 DEF CancelSave
  <2>3. CASE Die(w)
    BY <1>4, <2>3 DEF Die
  <2> QED
    BY <1>8, <2>1, <2>2, <2>3 DEF Cancel
<1>9. ASSUME NEW w \in Request, ClockIn(w) PROVE SerialInv'
  <2>1. ASSUME NEW p, NEW s, CheckIn(w, p, s) PROVE SerialInv'
    <3>1. req[w].pc \notin Holding /\ UNCHANGED <<leave, tainted>>
      BY <2>1 DEF CheckIn, Holding
    <3>2. w \notin dirty'
      BY <2>1, <3>1, OthersHold DEF CheckIn, SerialInv
    <3>3. CASE UNCHANGED req
      BY <1>0, <1>5, <3>1, <3>2, <3>3
    <3>4. CASE Becomes(w, [pc |-> "CheckIn", who |-> p, day |-> today, as |-> s])
      BY <1>1, <3>1, <3>2, <3>4
    <3> QED
      BY <2>1, <3>3, <3>4 DEF CheckIn
  <2>2. CASE CheckInSave(w)
    BY <1>2, <1>4, <2>2 DEF CheckInSave
  <2> QED
    BY <1>9, <2>1, <2>2 DEF ClockIn
<1>10. CASE Administer \/ NextDay \/ UNCHANGED vars
  BY <1>0, <1>5, <1>10, OthersHold DEF Administer, TrackerPost, OpenBalance, AssignBalance,
     NextDay, vars
<1> QED
  BY <1>6, <1>7, <1>8, <1>9, <1>10 DEF Next, Handlers

\* A step that moves no status and no charge is a stutter of the lifecycle.
LEMMA NothingDecided ==
  ASSUME UNCHANGED leave, \A b \in Balance : balance'[b].used = balance[b].used
  PROVE  UNCHANGED Lifecycle!lifecycleVars
  BY LeaveAssumption DEF Lifecycle!lifecycleVars, ChargeCount, LeaveAssumption

\* Every step of a single thread is a step of LeaveLifecycle or a stutter.
LEMMA LifecycleStep ==
  ASSUME \A v, w \in Request : v = w
  PROVE  LedgerInv /\ SerialInv /\ SerialInv' /\ [Next]_vars
           => [Lifecycle!Next]_(Lifecycle!lifecycleVars)
<1> SUFFICES ASSUME LedgerInv, SerialInv, SerialInv', [Next]_vars
             PROVE  [Lifecycle!Next]_(Lifecycle!lifecycleVars)
  OBVIOUS
<1> USE DEF At
<1>0. /\ req \in [Request -> Req] /\ leave \in [Leave -> Status] /\ dirty \subseteq Request
      /\ balance \in [Balance -> [exists : BOOLEAN, total : Nat, used : Charges]]
  BY DEF LedgerInv, TypeOK
<1>1. ASSUME NEW w \in Request,
             ApplyInsert(w) \/ ApplyAutoApprove(w) \/ ReviewDecide(w) \/ CancelSave(w)
      PROVE  [Lifecycle!Next]_(Lifecycle!lifecycleVars)
  <2> DEFINE l == req[w].leave
  <2>1. /\ l \in Leave /\ UNCHANGED balance
        /\ \A m \in Leave \ {l} : leave'[m] = leave[m]
        /\ leave' = [leave EXCEPT ![l] = leave'[l]]
    BY <1>0, <1>1, Shape DEF ApplyInsert, ApplyAutoApprove, ReviewDecide, CancelSave,
       ApplyReq, LeaveReq, DecideReq
  <2>2. UNCHANGED {m \in Leave : ChargeCount(m) > 0}
    BY <2>1 DEF ChargeCount
  <2>3. CASE leave'[l] = leave[l]
    BY <1>0, <2>1, <2>2, <2>3 DEF Lifecycle!lifecycleVars
  <2>4. CASE leave'[l] # leave[l]
    <3>1. <<leave[l], leave'[l]>> \in Moves
      BY <2>1, <2>4, <1>1, MoveStep DEF MovesOnly, SerialInv, vars
    <3>2. Lifecycle!Decide(l, leave[l], leave'[l])
      BY <2>1, <2>2 DEF Lifecycle!Decide
    <3>3. Lifecycle!Submit(l) \/ Lifecycle!Settle(l) \/ Lifecycle!Withdraw(l)
      BY <3>1, <3>2 DEF Moves, Lifecycle!Submit, Lifecycle!Settle, Lifecycle!Withdraw
    <3> QED
      BY <2>1, <3>3 DEF Lifecycle!Next
  <2> QED
    BY <2>3, <2>4
<1>2. ASSUME NEW w \in Request, ReviewCharge(w)
      PROVE  [Lifecycle!Next]_(Lifecycle!lifecycleVars)
  <2>0. PICK l \in Leave : l = req[w].leave
    BY <1>0, <1>2, Shape DEF ReviewCharge, ChargeReq
  <2> DEFINE b == BalanceOf[l]
  <2>1. /\ l \in Leave /\ b \in Balance /\ leave[l] = "APPROVED" /\ w \notin dirty
        /\ req[w].used = balance[b].used
    BY <1>0, <1>2, <2>0, LeaveAssumption DEF ReviewCharge, SerialInv, Holding,
       LedgerInv, ImagesAreCurrent, LeaveAssumption
  <2>2. ChargeCount(l) = 0
    BY <1>2, <2>0, <2>1 DEF ReviewCharge, SerialInv, LedgerInv, CountsAreRight, CountIsRight,
       BeingCharged, Charging
  <2>3. balance' = [balance EXCEPT ![b].used = [balance[b].used EXCEPT ![l] = @ + 1]]
    BY <1>2, <2>0, <2>1 DEF ReviewCharge, Add
  <2>4. \A m \in Leave : balance[BalanceOf[m]].used \in [Leave -> Nat] /\ BalanceOf[m] \in Balance
    BY <1>0, LeaveAssumption DEF Charges, LeaveAssumption
  <2>5. \A m \in Leave \ {l} : ChargeCount(m)' = ChargeCount(m)
    BY <1>0, <2>1, <2>3, <2>4 DEF ChargeCount
  <2>6. ChargeCount(l)' = 1
    BY <1>0, <2>1, <2>2, <2>3, <2>4 DEF ChargeCount
  <2>7. Lifecycle!Charge(l)
    <3>1. UNCHANGED leave
      BY <1>2 DEF ReviewCharge
    <3>2. {m \in Leave : ChargeCount(m) > 0}' = {m \in Leave : ChargeCount(m) > 0} \cup {l}
      BY <2>1, <2>5, <2>6
    <3> QED
      BY <2>1, <2>2, <3>1, <3>2 DEF Lifecycle!Charge
  <2> QED
    BY <2>1, <2>7 DEF Lifecycle!Next
<1>3. ASSUME NEW w \in Request, ReviewLoadBalance(w)
      PROVE  [Lifecycle!Next]_(Lifecycle!lifecycleVars)
  BY <1>0, <1>3, NothingDecided DEF ReviewLoadBalance
<1>4. CASE Administer \/ NextDay
  BY <1>4, AdministerStandsBy, NothingDecided DEF Bystander, LedgerInv
<1>5. ASSUME UNCHANGED <<leave, balance>>
      PROVE  [Lifecycle!Next]_(Lifecycle!lifecycleVars)
  BY <1>5, NothingDecided
<1> QED
  BY <1>1, <1>2, <1>3, <1>4, <1>5 DEF Next, Handlers, Apply, Review, Cancel, ClockIn,
     ApplyReadBalance, ApplyCheckQuota, ReviewLoad, ReviewLoadDay, ReviewSaveDay,
     CancelLoad, CheckIn, CheckInSave, Die, vars

\* Served by a single thread, leave management implements LeaveLifecycle: every
\* request is decided once and charged at most once, while it is approved,
\* whatever the administrators change in between and wherever the thread dies.
THEOREM ServesOneAtATime ==
  ASSUME \A v, w \in Request : v = w
  PROVE  Spec => LifecycleSpec
<1>1. Init => SerialInv
  BY DEF Init, SerialInv
<1>2. Init => Lifecycle!Init
  BY LeaveAssumption DEF Init, Lifecycle!Init, ChargeCount, LeaveAssumption
<1>3. LedgerInv /\ SerialInv /\ [Next]_vars => SerialInv'
  BY SerialStep
<1>4. LedgerInv /\ SerialInv /\ SerialInv' /\ [Next]_vars
        => [Lifecycle!Next]_(Lifecycle!lifecycleVars)
  BY LifecycleStep
<1> QED
  BY <1>1, <1>2, <1>3, <1>4, LedgerIsSafe, PTL DEF Spec, LifecycleSpec, Lifecycle!Spec

(***************************************************************************)
(* The quota: what a submission has read and checked is still so when it   *)
(* is inserted.                                                            *)
(***************************************************************************)
\* Days is a sum over the requests.
LEMMA DaysIsSum ==
  ASSUME NEW L \in SUBSET Leave, IsFiniteSet(L), NEW used
  PROVE  Days(used, L) = SumOf([l \in Leave |-> used[l] * DaysCount[l]], L)
<1> DEFINE h == [l \in Leave |-> used[l] * DaysCount[l]]
           F(g) == [s \in SUBSET L |->
                      IF s = {} THEN 0
                      ELSE LET x == CHOOSE x \in s : TRUE
                           IN used[x] * DaysCount[x] + g[s \ {x}]]
<1>1. \A s \in SUBSET L : s # {} => Choice(s) \in Leave
  BY DEF Choice
<1>2. \A g : F(g) = [s \in SUBSET L |->
                       IF s = {} THEN 0 ELSE h[Choice(s)] + g[s \ {Choice(s)}]]
  BY <1>1 DEF Choice
<1>3. Days(used, L) = (CHOOSE g : g = F(g))[L]
  BY DEF Days, MapThenSumSet, MapThenFoldSet
<1> HIDE DEF F, h
<1>4. PICK it : IsSums(it, h, L) /\ SumOf(h, L) = it[L]
  BY SumOfIsSum
<1>5. it = F(it)
  BY <1>2, <1>4 DEF IsSums
<1>6. PICK jt : jt = CHOOSE g : g = F(g)
  OBVIOUS
<1>7. IsSums(jt, h, L)
  BY <1>2, <1>5, <1>6 DEF IsSums
<1>8. jt[L] = it[L]
  BY <1>4, <1>7, SumsAgree
<1> QED
  BY <1>3, <1>4, <1>6, <1>8 DEF h

\* A submission whose thread is clean has the balance it read, and is within
\* the quota once that has been checked.
QuotaRight(w) ==
  /\ req[w].used = balance[BalanceOf[req[w].leave]].used
  /\ At(w, "Insert") => QuotaAllows(req[w].leave, req[w].total, req[w].used)

QuotaInv ==
  \A w \in Request \ dirty : req[w].pc \in {"Quota", "Insert"} => QuotaRight(w)

\* A step that leaves a submission where it is, and its balance as it was.
Untouched(v) ==
  /\ req'[v] = req[v] /\ v \notin dirty
  /\ balance'[BalanceOf[req[v].leave]].used = balance[BalanceOf[req[v].leave]].used
  /\ \A l \in Leave : BalanceOf[l] = BalanceOf[req[v].leave] => leave'[l] = leave[l]

\* An undisturbed submission says what it said, and it is still true.
LEMMA UntouchedIsRight ==
  ASSUME QuotaInv, NEW v \in Request, Untouched(v), req[v].pc \in {"Quota", "Insert"}
  PROVE  QuotaRight(v)'
<1> DEFINE b == BalanceOf[req[v].leave]
<1>1. QuotaRight(v)
  BY DEF QuotaInv, Untouched
<1>2. {l \in ChargedTo(b) : leave[l] = "PENDING"} = {l \in ChargedTo(b) : leave'[l] = "PENDING"}
  BY DEF ChargedTo, Untouched
<1>3. PendingDays(b)' = PendingDays(b)
  BY <1>2 DEF PendingDays, Untouched, ChargedTo
<1>4. req'[v] = req[v] /\ balance'[b].used = balance[b].used
  BY DEF Untouched
<1>5. QuotaAllows(req[v].leave, req[v].total, req[v].used)'
        <=> QuotaAllows(req[v].leave, req[v].total, req[v].used)
  BY <1>3, <1>4 DEF QuotaAllows, ChargedTo
<1> QED
  BY <1>1, <1>4, <1>5 DEF QuotaRight, At

\* What a thread says about the quota is its own; a thread elsewhere says
\* nothing, and a thread nobody disturbed says what it said.
LEMMA QuotaStands ==
  ASSUME QuotaInv,
         \A v \in Request \ dirty' :
           req'[v].pc \in {"Quota", "Insert"} => QuotaRight(v)' \/ Untouched(v)
  PROVE  QuotaInv'
<1>1. \A v \in Request \ dirty' : req'[v].pc \in {"Quota", "Insert"} => QuotaRight(v)'
  BY UntouchedIsRight DEF Untouched
<1> QED
  BY <1>1 DEF QuotaInv

\* A write of a balance, or of a request charged to it, outdates every
\* submission that has read it.
LEMMA QuotaWrite ==
  ASSUME NEW w \in Request, NEW x, NEW b, Writes(w, {x, Quota(b)}),
         NEW v \in Request \ {w}, v \notin dirty', req[v].pc \in {"Quota", "Insert"}
  PROVE  v \notin dirty /\ BalanceOf[req[v].leave] # b
<1>1. Held(req[v]) = {Quota(BalanceOf[req[v].leave])}
  BY HeldRows
<1> QED
  BY <1>1 DEF Writes, Outdated

\* The quota invariant is inductive.
LEMMA QuotaStep == TypeOK /\ QuotaInv /\ [Next]_vars => QuotaInv'
<1> SUFFICES ASSUME TypeOK, QuotaInv, [Next]_vars
             PROVE  QuotaInv'
  OBVIOUS
<1> USE DEF At
<1>0. /\ req \in [Request -> Req] /\ leave \in [Leave -> Status] /\ dirty \subseteq Request
      /\ balance \in [Balance -> [exists : BOOLEAN, total : Nat, used : Charges]]
  BY DEF TypeOK
<1>1. CASE Bystander
  <2>1. ASSUME NEW v \in Request \ dirty', req'[v].pc \in {"Quota", "Insert"}
        PROVE  Untouched(v)
    <3>1. req'[v] = req[v] /\ v \notin dirty /\ UNCHANGED leave
      BY <1>1, <2>1 DEF Bystander
    <3>2. BalanceOf[req[v].leave] \in Balance
      BY <1>0, <2>1, <3>1, Shape, LeaveAssumption DEF ApplyReq, LeaveAssumption
    <3> QED
      BY <1>1, <3>1, <3>2 DEF Untouched, Bystander
  <2> QED
    BY <2>1, QuotaStands
<1>2. ASSUME NEW w \in Request, NEW l \in Leave, ApplyReadBalance(w, l)
      PROVE  QuotaInv'
  <2>1. /\ UNCHANGED <<leave, balance, dirty>>
        /\ \A v \in Request \ {w} : req'[v] = req[v]
        /\ req'[w].pc = "Quota" /\ req'[w].leave = l
        /\ req'[w].used = balance[BalanceOf[l]].used
    BY <1>0, <1>2 DEF ApplyReadBalance, Becomes
  <2>2. QuotaRight(w)'
    BY <2>1 DEF QuotaRight
  <2> QED
    BY <2>1, <2>2, QuotaStands DEF Untouched
<1>3. ASSUME NEW w \in Request, ApplyCheckQuota(w)
      PROVE  QuotaInv'
  <2>1. CASE ~ QuotaAllows(req[w].leave, req[w].total, req[w].used)
    <3>1. ApplyCheckQuota(w) /\ req'[w].pc = "Idle"
      BY <1>0, <1>3, <2>1 DEF ApplyCheckQuota, Done, Becomes
    <3> QED
      BY <1>1, <3>1, BystanderActions
  <2>2. CASE QuotaAllows(req[w].leave, req[w].total, req[w].used)
    <3>1. /\ UNCHANGED <<leave, balance, dirty>> /\ req[w].pc = "Quota"
          /\ req' = [req EXCEPT ![w] = [req[w] EXCEPT !.pc = "Insert"]]
      BY <1>3, <2>2 DEF ApplyCheckQuota, Becomes
    <3>2. req[w] \in ApplyReq
      BY <1>0, <3>1, Shape
    <3>3. PICK r : r = [req[w] EXCEPT !.pc = "Insert"]
      OBVIOUS
    <3>4. /\ r.pc = "Insert" /\ r.leave = req[w].leave /\ r.total = req[w].total
          /\ r.used = req[w].used
      BY <3>2, <3>3 DEF ApplyReq
    <3>5. req'[w] = r /\ \A v \in Request \ {w} : req'[v] = req[v]
      BY <1>0, <3>1, <3>3
    <3>6. QuotaAllows(req[w].leave, req[w].total, req[w].used)'
      <4>1. PendingDays(BalanceOf[req[w].leave])' = PendingDays(BalanceOf[req[w].leave])
        BY <3>1, <3>4, <3>5 DEF PendingDays
      <4> QED
        BY <2>2, <3>4, <3>5, <4>1 DEF QuotaAllows, ChargedTo
    <3>7. ASSUME w \notin dirty
          PROVE  QuotaRight(w)'
      <4>1. QuotaRight(w)
        BY <3>1, <3>7 DEF QuotaInv
      <4> QED
        BY <3>1, <3>4, <3>5, <3>6, <4>1 DEF QuotaRight
    <3> QED
      BY <3>1, <3>5, <3>7, QuotaStands DEF Untouched
  <2> QED
    BY <2>1, <2>2
<1>4. ASSUME NEW w \in Request,
             ApplyInsert(w) \/ ApplyAutoApprove(w) \/ ReviewDecide(w) \/ CancelSave(w)
      PROVE  QuotaInv'
  <2>1. PICK l \in Leave : l = req[w].leave
    BY <1>0, <1>4, Shape DEF ApplyInsert, ApplyAutoApprove, ReviewDecide, CancelSave,
       ApplyReq, LeaveReq, DecideReq
  <2>2. /\ UNCHANGED balance /\ Writes(w, {LeaveRow(l), Quota(BalanceOf[l])})
        /\ \A m \in Leave \ {l} : leave'[m] = leave[m]
    BY <1>0, <1>4, <2>1 DEF ApplyInsert, ApplyAutoApprove, ReviewDecide, CancelSave
  <2>3. /\ req'[w].pc \notin {"Quota", "Insert"}
        /\ \A v \in Request \ {w} : req'[v] = req[v]
    BY <1>0, <1>4 DEF ApplyInsert, ApplyAutoApprove, ReviewDecide, CancelSave, Becomes, Done
  <2>4. ASSUME NEW v \in Request \ dirty', req'[v].pc \in {"Quota", "Insert"}
        PROVE  Untouched(v)
    <3>1. v # w /\ req'[v] = req[v]
      BY <2>3, <2>4
    <3>2. v \notin dirty /\ BalanceOf[req[v].leave] # BalanceOf[l]
      BY <2>2, <2>4, <3>1, QuotaWrite
    <3> QED
      BY <2>2, <3>1, <3>2 DEF Untouched
  <2> QED
    BY <2>4, QuotaStands
<1>5. ASSUME NEW w \in Request, ReviewCharge(w)
      PROVE  QuotaInv'
  <2>1. PICK l \in Leave : l = req[w].leave
    BY <1>0, <1>5, Shape DEF ReviewCharge, ChargeReq
  <2>2. /\ UNCHANGED leave /\ Writes(w, {UsedDays(BalanceOf[l]), Quota(BalanceOf[l])})
        /\ \A b \in Balance \ {BalanceOf[l]} : balance'[b] = balance[b]
    BY <1>0, <1>5, <2>1 DEF ReviewCharge
  <2>3. /\ req'[w].pc \notin {"Quota", "Insert"}
        /\ \A v \in Request \ {w} : req'[v] = req[v]
    BY <1>0, <1>5 DEF ReviewCharge, Becomes
  <2>4. ASSUME NEW v \in Request \ dirty', req'[v].pc \in {"Quota", "Insert"}
        PROVE  Untouched(v)
    <3>1. v # w /\ req'[v] = req[v]
      BY <2>3, <2>4
    <3>2. v \notin dirty /\ BalanceOf[req[v].leave] # BalanceOf[l]
      BY <2>2, <2>4, <3>1, QuotaWrite
    <3>3. BalanceOf[req[v].leave] \in Balance
      BY <1>0, <2>4, <3>1, Shape, LeaveAssumption DEF ApplyReq, LeaveAssumption
    <3> QED
      BY <2>2, <3>1, <3>2, <3>3 DEF Untouched
  <2> QED
    BY <2>4, QuotaStands
<1>6. ASSUME NEW w \in Request, ReviewLoadBalance(w)
      PROVE  QuotaInv'
  <2>1. PICK l \in Leave : l = req[w].leave
    BY <1>0, <1>6, Shape DEF ReviewLoadBalance, LeaveReq
  <2>2. BalanceOf[l] \in Balance
    BY LeaveAssumption DEF LeaveAssumption
  <2>3. \A b \in Balance : balance'[b].used = balance[b].used
    <3>1. CASE balance[BalanceOf[l]].exists
      BY <1>6, <2>1, <3>1 DEF ReviewLoadBalance
    <3>2. CASE ~ balance[BalanceOf[l]].exists
      <4>1. PICK row : row = [balance[BalanceOf[l]] EXCEPT !.exists = TRUE,
                                                           !.total = MaxDays[BalanceOf[l]]]
        OBVIOUS
      <4>2. row.used = balance[BalanceOf[l]].used
        BY <1>0, <2>2, <4>1
      <4>3. balance' = [balance EXCEPT ![BalanceOf[l]] = row]
        BY <1>6, <2>1, <3>2, <4>1 DEF ReviewLoadBalance
      <4> QED
        BY <1>0, <2>2, <4>2, <4>3
    <3> QED
      BY <3>1, <3>2
  <2>4. /\ UNCHANGED <<leave, dirty>> /\ req'[w].pc \notin {"Quota", "Insert"}
        /\ \A v \in Request \ {w} : req'[v] = req[v]
    BY <1>0, <1>6 DEF ReviewLoadBalance, Becomes
  <2>5. \A v \in Request : req[v].pc \in {"Quota", "Insert"} =>
          BalanceOf[req[v].leave] \in Balance
    BY <1>0, Shape, LeaveAssumption DEF ApplyReq, LeaveAssumption
  <2> QED
    BY <2>3, <2>4, <2>5, QuotaStands DEF Untouched
<1>7. ASSUME NEW w \in Request, NEW l \in Leave,
             \/ CancelLoad(w, l)
             \/ \E who \in Person, s \in {"APPROVED", "REJECTED"} : ReviewLoad(w, l, who, s)
      PROVE  QuotaInv'
  <2>1. /\ UNCHANGED <<leave, balance, dirty>> /\ req'[w].pc \notin {"Quota", "Insert"}
        /\ \A v \in Request \ {w} : req'[v] = req[v]
    BY <1>0, <1>7 DEF CancelLoad, ReviewLoad, Becomes
  <2> QED
    BY <2>1, QuotaStands DEF Untouched
<1>8. CASE Administer \/ NextDay
  BY <1>1, <1>8, AdministerStandsBy
<1>9. ASSUME NEW w \in Request,
             ReviewLoadDay(w) \/ ReviewSaveDay(w) \/ ClockIn(w) \/ Die(w)
      PROVE  QuotaInv'
  BY <1>1, <1>9, BystanderActions
<1>10. CASE UNCHANGED vars
  BY <1>10, QuotaStands DEF vars, Untouched
<1> QED
  BY <1>2, <1>3, <1>4, <1>5, <1>6, <1>7, <1>8, <1>9, <1>10
     DEF Next, Handlers, Apply, Review, Cancel

\* A request that becomes PENDING is charged to the pending days of its balance.
LEMMA PendingGrows ==
  ASSUME IsFiniteSet(Leave), leave \in [Leave -> Status], NEW l \in Leave, leave[l] = "NONE",
         leave' = [leave EXCEPT ![l] = "PENDING"]
  PROVE  PendingDays(BalanceOf[l])' = PendingDays(BalanceOf[l]) + DaysCount[l]
<1> DEFINE P == {m \in ChargedTo(BalanceOf[l]) : leave[m] = "PENDING"}
           one == [m \in Leave |-> 1]
           h == [m \in Leave |-> one[m] * DaysCount[m]]
<1>1. {m \in ChargedTo(BalanceOf[l]) : leave'[m] = "PENDING"} = P \cup {l} /\ l \notin P
  BY DEF ChargedTo
<1>2. P \in SUBSET Leave /\ P \cup {l} \in SUBSET Leave
  BY DEF ChargedTo
<1>3. IsFiniteSet(P) /\ IsFiniteSet(P \cup {l})
  BY <1>2, FS_Subset
<1>4. \A m \in Leave : h[m] = DaysCount[m] /\ h[m] \in Nat
  <2> TAKE m \in Leave
  <2>1. h[m] = 1 * DaysCount[m]
    OBVIOUS
  <2>2. PICK d \in Nat : d = DaysCount[m]
    BY LeaveAssumption DEF LeaveAssumption
  <2>3. h[m] = d
    BY <2>1, <2>2
  <2> QED
    BY <2>2, <2>3
<1>5. PendingDays(BalanceOf[l]) = Days(one, P)
  BY DEF PendingDays
<1>6. PendingDays(BalanceOf[l])' = Days(one, P \cup {l})
  BY <1>1 DEF PendingDays, ChargedTo
<1> HIDE DEF P, one
<1>7. /\ Days(one, P) = SumOf(h, P)
      /\ Days(one, P \cup {l}) = SumOf(h, P \cup {l})
  BY <1>2, <1>3, DaysIsSum
<1> HIDE DEF h
<1>8. (P \cup {l}) \ {l} = P
  BY <1>1
<1>9. SumOf(h, P \cup {l}) = h[l] + SumOf(h, P)
  BY <1>2, <1>3, <1>4, <1>8, SumOfSplit
<1>10. SumOf(h, P) \in Nat
  BY <1>2, <1>3, <1>4, SumOfNaturals
<1>11. PICK n \in Nat, d \in Nat : n = SumOf(h, P) /\ d = h[l]
  BY <1>4, <1>10
<1>12. d = DaysCount[l]
  BY <1>4, <1>11
<1>13. PendingDays(BalanceOf[l]) = n /\ PendingDays(BalanceOf[l])' = d + n
  BY <1>5, <1>6, <1>7, <1>9, <1>11
<1> QED
  BY <1>12, <1>13

\* A request becomes PENDING only when the thread that submits it inserts it.
LEMMA OnlyInsertSubmits ==
  ASSUME LedgerInv, [Next]_vars, NEW l \in Leave, leave[l] = "NONE", leave'[l] = "PENDING"
  PROVE  \E v \in Request : ApplyInsert(v) /\ req[v].leave = l
<1> USE DEF At
<1>0. req \in [Request -> Req] /\ leave \in [Leave -> Status]
  BY DEF LedgerInv, TypeOK
<1>1. PICK v \in Request : ApplyInsert(v) \/ ApplyAutoApprove(v) \/ ReviewDecide(v)
                            \/ CancelSave(v)
  BY <1>0, AdministerStandsBy DEF Next, Handlers, Apply, Review, Cancel, ClockIn,
     ApplyReadBalance, ApplyCheckQuota, ReviewLoad, ReviewLoadBalance, ReviewCharge,
     ReviewLoadDay, ReviewSaveDay, CancelLoad, CheckIn, CheckInSave, Die, vars, Bystander,
     LedgerInv
<1>2. CASE ApplyInsert(v)
  BY <1>0, <1>2 DEF ApplyInsert
<1>3. CASE ApplyAutoApprove(v) \/ CancelSave(v)
  BY <1>0, <1>3 DEF ApplyAutoApprove, CancelSave
<1>4. CASE ReviewDecide(v)
  <2>1. req[v].verdict \in {"APPROVED", "REJECTED"}
    BY <1>0, <1>4, Shape DEF ReviewDecide, DecideReq
  <2> QED
    BY <1>0, <1>4, <2>1 DEF ReviewDecide
<1> QED
  BY <1>1, <1>2, <1>3, <1>4

\* A submission that goes through is within the quota.
LEMMA HonourStep ==
  ASSUME IsFiniteSet(Leave)
  PROVE  LedgerInv /\ QuotaInv /\ [Next]_vars => HonoursQuota
<1> SUFFICES ASSUME LedgerInv, QuotaInv, [Next]_vars, NEW w \in Request, NEW l \in Leave,
                    w \notin dirty, At(w, "Insert"), req[w].leave = l,
                    leave[l] = "NONE", leave'[l] = "PENDING", req[w].total > 0
             PROVE  Days(balance[BalanceOf[l]].used, ChargedTo(BalanceOf[l]))
                      + PendingDays(BalanceOf[l])' <= req[w].total
  BY DEF HonoursQuota
<1> DEFINE b == BalanceOf[l]
<1>0. leave \in [Leave -> Status] /\ req \in [Request -> Req]
      /\ balance \in [Balance -> [exists : BOOLEAN, total : Nat, used : Charges]]
  BY DEF LedgerInv, TypeOK
<1>1. leave' = [leave EXCEPT ![l] = "PENDING"]
  BY OnlyInsertSubmits DEF ApplyInsert
<1>2. PendingDays(b)' = PendingDays(b) + DaysCount[l]
  BY <1>0, <1>1, PendingGrows
<1>3. QuotaRight(w)
  BY DEF QuotaInv, At
<1>4. Days(balance[b].used, ChargedTo(b)) + PendingDays(b) + DaysCount[l] <= req[w].total
  BY <1>3 DEF QuotaRight, QuotaAllows
<1>5. b \in Balance /\ DaysCount[l] \in Nat /\ DaysCount \in [Leave -> Nat]
  BY LeaveAssumption DEF LeaveAssumption
<1>6. PICK used \in Charges : used = balance[b].used
  BY <1>0, <1>5
<1>7. Days(used, ChargedTo(b)) \in Nat
  <2> DEFINE h == [m \in Leave |-> used[m] * DaysCount[m]]
  <2>1. \A m \in Leave : h[m] \in Nat
    BY <1>5 DEF Charges
  <2>2. ChargedTo(b) \in SUBSET Leave
    BY DEF ChargedTo
  <2>3. IsFiniteSet(ChargedTo(b))
    BY <2>2, FS_Subset
  <2>4. Days(used, ChargedTo(b)) = SumOf(h, ChargedTo(b))
    BY <2>2, <2>3, DaysIsSum
  <2> HIDE DEF h
  <2> QED
    BY <2>1, <2>2, <2>3, <2>4, SumOfNaturals
<1>8. PendingDays(b) \in Nat
  <2> DEFINE P == {m \in ChargedTo(b) : leave[m] = "PENDING"}
             one == [m \in Leave |-> 1]
             h == [m \in Leave |-> one[m] * DaysCount[m]]
  <2>1. \A m \in Leave : h[m] \in Nat
    BY <1>5
  <2>2. P \in SUBSET Leave
    BY DEF ChargedTo
  <2>3. IsFiniteSet(P)
    BY <2>2, FS_Subset
  <2>4. PendingDays(b) = Days(one, P)
    BY DEF PendingDays
  <2> HIDE DEF P, one
  <2>5. Days(one, P) = SumOf(h, P)
    BY <2>2, <2>3, DaysIsSum
  <2> HIDE DEF h
  <2> QED
    BY <2>1, <2>2, <2>3, <2>4, <2>5, SumOfNaturals
<1>9. req[w].total \in Nat
  BY <1>0, Shape DEF At, ApplyReq
<1>10. PICK n, p, d, t \in Nat :
         /\ n = Days(balance[b].used, ChargedTo(b)) /\ p = PendingDays(b)
         /\ d = DaysCount[l] /\ t = req[w].total
  BY <1>5, <1>6, <1>7, <1>8, <1>9
<1>11. n + p + d <= t
  BY <1>4, <1>10
<1>12. n + (p + d) <= t
  BY <1>11
<1> QED
  BY <1>2, <1>10, <1>12

\* However many submissions, reviews and assignments of one balance overlap, a
\* submission that was not overtaken leaves used and pending days within the
\* total it read (LeaveRequestSerializer.validate).
THEOREM QuotaIsHonoured ==
  ASSUME IsFiniteSet(Leave)
  PROVE  Spec => QuotaHonoured
<1>1. Init => QuotaInv
  BY DEF Init, QuotaInv
<1>2. LedgerInv => TypeOK
  BY DEF LedgerInv
<1>3. LedgerInv /\ QuotaInv /\ [Next]_vars => [HonoursQuota]_vars
  BY HonourStep
<1> QED
  BY <1>1, <1>2, <1>3, QuotaStep, LedgerIsSafe, PTL DEF Spec, QuotaHonoured
=============================================================================
