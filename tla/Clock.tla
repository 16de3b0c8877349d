------------------------------- MODULE Clock -------------------------------
(***************************************************************************)
(* The clock of one employee on one day: check-in, breaks, check-out and   *)
(* corrections (apps/attendance/views.py).  The views read the attendance  *)
(* row and the breaks in statements of their own and take the time when    *)
(* the request arrives, so requests sent twice, or from two devices,       *)
(* interleave.  Times are counted in one unit from 0; those of the day     *)
(* never wrap, those of a shift window do.                                 *)
(***************************************************************************)
EXTENDS Integers, Sequences, FiniteSets, FiniteSetsExt

CONSTANTS
  Request,      \* the server's request threads
  BreakType,
  BreakMax,     \* BREAK_MAX_MINUTES: BreakType -> longest total of a day
  DayEnd,       \* bound: the last time of the day that is looked at
  FullDay,      \* number of times of a day, on which windows wrap
  Tolerance,    \* before and after a shift start, and before a shift end
  LateOut,      \* after a shift end
  Shifts,       \* <<start, end>>, or << >> for who has no shift
  Corrections,  \* <<check_in, check_out>> a manager may enter
  MaxBreaks,    \* bound: breaks of the day
  Unset         \* NULL

VARIABLES
  row,        \* the AttendanceRecord: is it there, check_in, check_out
  breaks,     \* its AttendanceBreak rows, in the order of their creation
  now,        \* the wall clock
  shift,      \* the employee's shift
  enabled,    \* HR lets the employee clock in and out at any time
  req,        \* what each request thread is doing, and whether what it saw is outdated
  overtaken,  \* a request wrote after what it saw had changed
  corrected   \* a manager entered times

Times == 0..DayEnd

\* The day is shorter than the clock goes round, and so are the tolerances; who
\* is late going home is given no less than who is early.
ASSUME ClockAssumption ==
  /\ DayEnd \in Nat /\ FullDay \in Nat /\ DayEnd < FullDay
  /\ Tolerance \in Nat /\ LateOut \in Nat /\ Tolerance <= LateOut /\ LateOut < FullDay
  /\ BreakMax \in [BreakType -> Nat] /\ MaxBreaks \in Nat
  /\ Shifts \subseteq {<< >>} \cup ((0 .. FullDay - 1) \X (0 .. FullDay - 1))
  /\ Unset \notin Int
  /\ Corrections \subseteq (Times \cup {Unset}) \X (Times \cup {Unset})

vars == <<row, breaks, now, shift, enabled, req, overtaken, corrected>>

At(w, pc) == req[w].pc = pc
Idle == [pc |-> "Idle"]
Goes(w, pc) == req' = [req EXCEPT ![w].pc = pc]
Arrives(w, pc) == req' = [req EXCEPT ![w] = [pc |-> pc, time |-> now, stale |-> FALSE]]
Done(w) == req' = [req EXCEPT ![w] = Idle]

\* Whatever the others saw is outdated now.
Outdated == [x \in Request |-> IF At(x, "Idle") THEN Idle ELSE [req[x] EXCEPT !.stale = TRUE]]
Outdates(w, r) == req' = [Outdated EXCEPT ![w] = r]
Writes(w, r) == Outdates(w, r) /\ overtaken' = (overtaken \/ req[w].stale)

Open == {k \in DOMAIN breaks : breaks[k].end = Unset}
Active == Min(Open)

\* duration_minutes: none while the break is open, or when it ends before it starts.
Duration(b) == IF b.end # Unset /\ b.end > b.start THEN b.end - b.start ELSE 0
Total(ks) == MapThenSumSet(LAMBDA k : Duration(breaks[k]), ks)
Finished(type) == {k \in DOMAIN breaks \ Open : breaks[k].type = type}

\* Seeded fault: the window opens one time too early.
InWindowEarly(t, at, before, after) ==
  (at - before - 1) % FullDay <= t /\ t <= (at + after) % FullDay

\* _check_shift_window: both ends are times of the day, so a window over
\* midnight is empty.
InWindow(t, at, before, after) ==
  (at - before) % FullDay <= t /\ t <= (at + after) % FullDay

MayClockIn == shift # << >> /\ ~ enabled => InWindow(now, shift[1], Tolerance, Tolerance)
MayClockOut == shift # << >> /\ ~ enabled => InWindow(now, shift[2], Tolerance, LateOut)
----------------------------------------------------------------------------
\* A row without times is there when leave was approved for the day.
Init ==
  /\ row \in [there : BOOLEAN, in : {Unset}, out : {Unset}]
  /\ breaks = << >> /\ now = 0
  /\ shift \in Shifts /\ enabled = FALSE
  /\ req = [w \in Request |-> [pc |-> "Idle"]]
  /\ overtaken = FALSE /\ corrected = FALSE

Tick ==
  /\ now < DayEnd /\ now' = now + 1
  /\ UNCHANGED <<row, breaks, shift, enabled, req, overtaken, corrected>>

\* AttendanceClockInEnableView.post, for somebody on a shift.
Enable ==
  /\ shift # << >> /\ ~ enabled /\ enabled' = TRUE
  /\ UNCHANGED <<row, breaks, now, shift, req, overtaken, corrected>>

\* Seeded fault: who is checked in checks in again.
CheckInAgain(w) ==
  /\ At(w, "Idle") /\ MayClockIn
  /\ IF row.there THEN Arrives(w, "SaveIn") /\ UNCHANGED row
     ELSE row' = [there |-> TRUE, in |-> now, out |-> Unset] /\ Outdates(w, Idle)
  /\ UNCHANGED <<breaks, now, shift, enabled, overtaken, corrected>>

\* CheckInView.post, up to get_or_create.
CheckIn(w) ==
  /\ At(w, "Idle") /\ MayClockIn /\ row.in = Unset
  /\ IF row.there THEN Arrives(w, "SaveIn") /\ UNCHANGED row
     ELSE row' = [there |-> TRUE, in |-> now, out |-> Unset] /\ Outdates(w, Idle)
  /\ UNCHANGED <<breaks, now, shift, enabled, overtaken, corrected>>

\* The row was there: check_in is saved with no second look.
CheckInSave(w) ==
  /\ At(w, "SaveIn")
  /\ row' = [row EXCEPT !.in = req[w].time]
  /\ Writes(w, Idle)
  /\ UNCHANGED <<breaks, now, shift, enabled, corrected>>

\* CheckOutView.post: the time, the row and the window.
CheckOut(w) ==
  /\ At(w, "Idle") /\ MayClockOut /\ row.there /\ row.out = Unset
  /\ Arrives(w, "Close")
  /\ UNCHANGED <<row, breaks, now, shift, enabled, overtaken, corrected>>

\* Seeded fault: a break that is too long is left to the manager.
CloseShort(w) ==
  LET closed == [k \in DOMAIN breaks |->
        IF k \in Open /\ req[w].time - breaks[k].start <= BreakMax[breaks[k].type]
        THEN [breaks[k] EXCEPT !.end = req[w].time, !.by = "out"] ELSE breaks[k]]
  IN /\ At(w, "Close")
     /\ breaks' = closed
     /\ Writes(w, [req[w] EXCEPT !.pc = "SaveOut"])
     /\ UNCHANGED <<row, now, shift, enabled, corrected>>

\* Seeded fault: a break ends when it is closed, after the day it belongs to.
CloseNow(w) ==
  LET closed == [k \in DOMAIN breaks |->
        IF k \in Open THEN [breaks[k] EXCEPT !.end = now, !.by = "out"] ELSE breaks[k]]
  IN /\ At(w, "Close")
     /\ breaks' = closed
     /\ Writes(w, [req[w] EXCEPT !.pc = "SaveOut"])
     /\ UNCHANGED <<row, now, shift, enabled, corrected>>

\* Every open break ends with the day, however long it is.
Close(w) ==
  LET closed == [k \in DOMAIN breaks |->
        IF k \in Open THEN [breaks[k] EXCEPT !.end = req[w].time, !.by = "out"] ELSE breaks[k]]
  IN /\ At(w, "Close")
     /\ breaks' = closed
     /\ Writes(w, [req[w] EXCEPT !.pc = "SaveOut"])
     /\ UNCHANGED <<row, now, shift, enabled, corrected>>

CheckOutSave(w) ==
  /\ At(w, "SaveOut")
  /\ row' = [row EXCEPT !.out = req[w].time]
  /\ Writes(w, Idle)
  /\ UNCHANGED <<breaks, now, shift, enabled, corrected>>

\* Seeded fault: a day that has ended may have a break.
BreakStartLate(w) ==
  /\ At(w, "Idle") /\ row.in # Unset
  /\ Arrives(w, "Look")
  /\ UNCHANGED <<row, breaks, now, shift, enabled, overtaken, corrected>>

\* StartBreakView.post reads the row, ...
BreakStart(w) ==
  /\ At(w, "Idle") /\ row.in # Unset /\ row.out = Unset
  /\ Arrives(w, "Look")
  /\ UNCHANGED <<row, breaks, now, shift, enabled, overtaken, corrected>>

\* Seeded fault: nobody looks for an open break.
BreakLookAway(w) ==
  /\ At(w, "Look") /\ Goes(w, "Create")
  /\ UNCHANGED <<row, breaks, now, shift, enabled, overtaken, corrected>>

\* ... then looks for an open break, ...
BreakLook(w) ==
  /\ At(w, "Look") /\ Open = {} /\ Goes(w, "Create")
  /\ UNCHANGED <<row, breaks, now, shift, enabled, overtaken, corrected>>

\* Seeded fault: a break begins with the next minute.
BreakCreateNext(w, type) ==
  /\ At(w, "Create") /\ Len(breaks) < MaxBreaks
  /\ breaks' = Append(breaks, [type |-> type, start |-> now + 1, end |-> Unset, by |-> "nobody"])
  /\ Writes(w, Idle)
  /\ UNCHANGED <<row, now, shift, enabled, corrected>>

\* ... then begins one, at the time it is by now.
BreakCreate(w, type) ==
  /\ At(w, "Create") /\ Len(breaks) < MaxBreaks
  /\ breaks' = Append(breaks, [type |-> type, start |-> now, end |-> Unset, by |-> "nobody"])
  /\ Writes(w, Idle)
  /\ UNCHANGED <<row, now, shift, enabled, corrected>>

\* EndBreakView.post: the active break, if it is not too long.  One that is
\* can no longer be ended, only the day can.
BreakEnd(w) ==
  /\ At(w, "Idle") /\ row.there /\ Open # {}
  /\ LET b == breaks[Active]
     IN /\ now - b.start <= BreakMax[b.type]
        /\ req' = [req EXCEPT ![w] = [pc |-> "Sum", time |-> now, stale |-> FALSE, k |-> Active]]
  /\ UNCHANGED <<row, breaks, now, shift, enabled, overtaken, corrected>>

\* Seeded fault: what was used before is not counted.
BreakSumNone(w) ==
  /\ At(w, "Sum") /\ Goes(w, "SaveEnd")
  /\ UNCHANGED <<row, breaks, now, shift, enabled, overtaken, corrected>>

\* The breaks of the same type that have ended leave room for this one.
BreakSum(w) ==
  LET b == breaks[req[w].k]
  IN /\ At(w, "Sum")
     /\ Total(Finished(b.type) \ {req[w].k}) + (req[w].time - b.start) <= BreakMax[b.type]
     /\ Goes(w, "SaveEnd")
     /\ UNCHANGED <<row, breaks, now, shift, enabled, overtaken, corrected>>

BreakEndSave(w) ==
  /\ At(w, "SaveEnd")
  /\ breaks' = [breaks EXCEPT ![req[w].k].end = req[w].time, ![req[w].k].by = "employee"]
  /\ Writes(w, Idle)
  /\ UNCHANGED <<row, now, shift, enabled, corrected>>

\* A regularization that was approved: the times that were asked for.
Regularize(c) ==
  /\ ~ corrected /\ corrected' = TRUE /\ req' = Outdated
  /\ row' = [there |-> TRUE, in |-> IF c[1] = Unset THEN row.in ELSE c[1],
             out |-> IF c[2] = Unset THEN row.out ELSE c[2]]
  /\ UNCHANGED <<breaks, now, shift, enabled, overtaken>>

\* AttendanceTrackerView.post: both times, empty ones too.
Correct(c) ==
  /\ ~ corrected /\ corrected' = TRUE /\ req' = Outdated
  /\ row' = [there |-> TRUE, in |-> c[1], out |-> c[2]]
  /\ UNCHANGED <<breaks, now, shift, enabled, overtaken>>

\* The request is refused, or its worker dies.
End(w) ==
  /\ ~ At(w, "Idle") /\ Done(w)
  /\ UNCHANGED <<row, breaks, now, shift, enabled, overtaken, corrected>>

Next ==
  \/ Tick \/ Enable
  \/ \E w \in Request :
       \/ CheckIn(w) \/ CheckInSave(w) \/ CheckOut(w) \/ Close(w) \/ CheckOutSave(w)
       \/ BreakStart(w) \/ BreakLook(w) \/ BreakEnd(w) \/ BreakSum(w) \/ BreakEndSave(w)
       \/ End(w)
       \/ \E type \in BreakType : BreakCreate(w, type)
  \/ \E c \in Corrections : Regularize(c) \/ Correct(c)

Spec == Init /\ [][Next]_vars
----------------------------------------------------------------------------
\* Rows are well-formed, and so is what the requests hold.
TypeOK ==
  /\ row \in [there : BOOLEAN, in : Times \cup {Unset}, out : Times \cup {Unset}]
  /\ \A k \in DOMAIN breaks :
       breaks[k] \in [type : BreakType, start : Times, end : Times \cup {Unset},
                      by : {"nobody", "employee", "out"}]
  /\ now \in Times /\ enabled \in BOOLEAN
  /\ \A w \in Request : req[w].pc \in {"Idle", "SaveIn", "Close", "SaveOut", "Look", "Create", "Sum", "SaveEnd"}

\* Nobody is on two breaks at once, and no break outlives the day, however
\* the day ended: only a request that was overtaken may leave one behind.
OneBreakWithinTheDay ==
  ~ overtaken /\ ~ corrected =>
    /\ Cardinality(Open) <= 1
    /\ row.out # Unset => Open = {}

\* Breaks lie within the day, so working_hours never has to be cut off at
\* zero.  A row made by a leave can be checked out first and checked in
\* afterwards; such a day has no duration.
BreaksFitTheDay ==
  ~ overtaken /\ ~ corrected /\ row.in # Unset /\ row.out # Unset /\ row.in <= row.out =>
    Total(DOMAIN breaks) <= row.out - row.in

\* The breaks of one type that the employee ended, one by one and together,
\* stay within the allowance; those the check-out ended may exceed it.
AllowanceIsKept ==
  ~ overtaken => \A type \in BreakType :
    Total({k \in Finished(type) : breaks[k].by = "employee"}) <= BreakMax[type]

\* The breaks of a day end with it, one after the other and within the allowance.
BreaksAreKept == TypeOK /\ OneBreakWithinTheDay /\ BreaksFitTheDay /\ AllowanceIsKept

Distance(s, t) == IF (s - t) % FullDay < (t - s) % FullDay THEN (s - t) % FullDay ELSE (t - s) % FullDay

\* Who is on a shift, and not let off it, clocks in and out around the times
\* of the shift, measured around the clock.
AroundTheShift ==
  [][shift # << >> /\ ~ enabled => \A w \in Request :
       /\ CheckIn(w) => Distance(now, shift[1]) <= Tolerance
       /\ CheckOut(w) => Distance(now, shift[2]) <= LateOut]_vars

\* The times of the day are entered once and stay, until a manager corrects
\* them or a second request that saw them empty arrives late.
ClockedOnce ==
  [][\/ corrected' # corrected \/ overtaken'
     \/ /\ row.in # Unset => row'.in = row.in
        /\ row.out # Unset => row'.out = row.out]_vars

\* The day is clocked once and around the shift.
ClockedAroundTheShift == ClockedOnce /\ AroundTheShift
=============================================================================
