-------------------------- MODULE TimesheetProofs --------------------------
(***************************************************************************)
(* Theorems about Timesheet for every set of requests, entries, weeks and  *)
(* hours: SheetAgrees is the visible part of an inductive invariant, and a *)
(* closed sheet stays as it is.  The section order is: the hours of a      *)
(* sheet, types, locks, what a request has checked, what it has summed,    *)
(* the review log, the calendar, the theorems.                             *)
(***************************************************************************)
EXTENDS Timesheet, Sums, TLAPS

(***************************************************************************)
(* The hours of a sheet                                                    *)
(***************************************************************************)
\* HoursOf is a sum over the entries.
LEMMA HoursAre ==
  ASSUME NEW L \in SUBSET Log
  PROVE  HoursOf(L) = SumOf([l \in Log |-> log[l].hours], L)
<1> DEFINE h == [l \in Log |-> log[l].hours]
           F(g) == [s \in SUBSET L |->
                      IF s = {} THEN 0
                      ELSE LET x == CHOOSE x \in s : TRUE
                           IN log[x].hours + g[s \ {x}]]
<1>0. IsFiniteSet(L)
  BY FS_Subset, TimesheetAssumption DEF TimesheetAssumption
<1>1. \A s \in SUBSET L : s # {} => Choice(s) \in Log
  BY DEF Choice
<1>2. \A g : F(g) = [s \in SUBSET L |->
                       IF s = {} THEN 0 ELSE h[Choice(s)] + g[s \ {Choice(s)}]]
  BY <1>1 DEF Choice
<1>3. HoursOf(L) = (CHOOSE g : g = F(g))[L]
  BY DEF HoursOf, MapThenSumSet, MapThenFoldSet
<1> HIDE DEF F, h
<1>4. PICK it : IsSums(it, h, L) /\ SumOf(h, L) = it[L]
  BY <1>0, SumOfIsSum
<1>5. it = F(it)
  BY <1>2, <1>4 DEF IsSums
<1>6. PICK jt : jt = CHOOSE g : g = F(g)
  OBVIOUS
<1>7. IsSums(jt, h, L)
  BY <1>2, <1>5, <1>6 DEF IsSums
<1>8. jt[L] = it[L]
  BY <1>0, <1>4, <1>7, SumsAgree
<1> QED
  BY <1>3, <1>4, <1>6, <1>8 DEF h

\* The same in one formula, and after a step.
HoursAddUp == \A L \in SUBSET Log : HoursOf(L) = SumOf([l \in Log |-> log[l].hours], L)

LEMMA HoursNow == HoursAddUp
  BY HoursAre DEF HoursAddUp

LEMMA HoursThen == HoursAddUp'
  BY HoursNow, PTL

\* The hours of entries are natural numbers ...
HoursKnown == \A l \in Log : log[l].hours \in Nat

LEMMA HoursAreNat ==
  ASSUME HoursKnown, NEW L \in SUBSET Log
  PROVE  HoursOf(L) \in Nat
<1> DEFINE h == [l \in Log |-> log[l].hours]
<1>1. IsFiniteSet(L) /\ \A l \in L : h[l] \in Nat
  BY FS_Subset, TimesheetAssumption DEF TimesheetAssumption, HoursKnown
<1>2. SumOf(h, L) \in Nat
  <2> HIDE DEF h
  <2> QED
    BY <1>1, SumOfNaturals
<1> QED
  BY <1>2, HoursAre

\* ... of which one may be set apart ...
LEMMA HoursSplit ==
  ASSUME HoursKnown, NEW L \in SUBSET Log, NEW x \in L
  PROVE  HoursOf(L) = log[x].hours + HoursOf(L \ {x})
<1> DEFINE h == [l \in Log |-> log[l].hours]
<1>1. IsFiniteSet(L) /\ \A l \in L : h[l] \in Nat
  BY FS_Subset, TimesheetAssumption DEF TimesheetAssumption, HoursKnown
<1>2. SumOf(h, L) = h[x] + SumOf(h, L \ {x})
  <2> HIDE DEF h
  <2> QED
    BY <1>1, SumOfSplit
<1> QED
  BY <1>2, HoursAre

\* ... and entries whose hours stay add up to what they did.
LEMMA HoursStay ==
  ASSUME NEW L \in SUBSET Log, \A l \in L : log'[l].hours = log[l].hours
  PROVE  HoursOf(L)' = HoursOf(L)
<1> DEFINE h == [l \in Log |-> log[l].hours]
           g == [l \in Log |-> log'[l].hours]
<1>1. IsFiniteSet(L) /\ \A l \in L : h[l] = g[l]
  BY FS_Subset, TimesheetAssumption DEF TimesheetAssumption
<1>2. SumOf(h, L) = SumOf(g, L)
  <2> HIDE DEF h, g
  <2> QED
    BY <1>1, SumOfSame
<1>3. HoursOf(L) = SumOf(h, L) /\ HoursOf(L)' = SumOf(g, L)
  BY HoursNow, HoursThen DEF HoursAddUp
<1> QED
  BY <1>2, <1>3

(***************************************************************************)
(* Types                                                                   *)
(***************************************************************************)
\* What requests carry, by where they are.
IdleReq == [pc : {"Idle"}]
LinkReq == [pc : {"Lock", "Link"}, log : Log, week : Week, fresh : BOOLEAN, row : Entry]
SumReq == [pc : {"Total", "Commit"}, log : Log, week : Week, row : Entry, sum : Nat]
SaveReq == [pc : {"Save"}, log : Log, week : 0..LastWeek, row : Entry]
FindReq == [pc : {"Find"}, log : Log, row : Entry]
ViewReq == [pc : {"View"}, week : Week, sum : Nat]
OpenReq == [pc : {"CopyOpen"}, week : Week, sum : Nat, from : Day, to : Day, open : BOOLEAN]
CopyReq == [pc : {"Copy"}, to : Day, todo : SUBSET (Log \X Hours)]
CopiedReq == [pc : {"CopyFind"}, log : Log, to : Day, todo : SUBSET (Log \X Hours)]
FoundReq == [pc : {"CopyFound"}, log : Log, to : Day, todo : SUBSET (Log \X Hours),
             week : Week, sum : Nat, open : BOOLEAN]
LinkedReq == [pc : {"CopyLink", "CopySum"}, log : Log, to : Day,
              todo : SUBSET (Log \X Hours), week : Week]
TotalReq == [pc : {"CopyTotal"}, to : Day, todo : SUBSET (Log \X Hours), week : Week, sum : Nat]
StatusReq == [pc : {"SaveStatus", "Audit"}, week : Week,
              to : {"SUBMITTED", "APPROVED", "REJECTED"}, relabel : BOOLEAN]
RelabelReq == [pc : {"Relabel"}, week : Week]

Req == UNION {IdleReq, LinkReq, SumReq, SaveReq, FindReq, ViewReq, OpenReq, CopyReq, CopiedReq,
              FoundReq, LinkedReq, TotalReq, StatusReq, RelabelReq}

\* Entries are as they are made.
LogsFit == \A l \in Log : log[l].state = "LIVE" => log[l] \in Entry

\* A row about to be written is of the sheet it will be added up on.
RowFits(r) ==
  /\ r.pc \in {"Save", "Lock", "Link", "Commit", "Total"} => r.row.week = r.week
  /\ r.pc = "Find" => r.row.week = 0

Types == TypeOK /\ req \in [Request -> Req] /\ LogsFit /\ \A w \in Request : RowFits(req[w])

\* The program counter of a request tells which fields it carries.
LEMMA Shape ==
  ASSUME NEW r \in Req
  PROVE  /\ r.pc = "Idle" => r \in IdleReq
         /\ r.pc \in {"Lock", "Link"} => r \in LinkReq
         /\ r.pc \in {"Total", "Commit"} => r \in SumReq
         /\ r.pc = "Save" => r \in SaveReq
         /\ r.pc = "Find" => r \in FindReq
         /\ r.pc = "View" => r \in ViewReq
         /\ r.pc = "CopyOpen" => r \in OpenReq
         /\ r.pc = "Copy" => r \in CopyReq
         /\ r.pc = "CopyFind" => r \in CopiedReq
         /\ r.pc = "CopyFound" => r \in FoundReq
         /\ r.pc \in {"CopyLink", "CopySum"} => r \in LinkedReq
         /\ r.pc = "CopyTotal" => r \in TotalReq
         /\ r.pc \in {"SaveStatus", "Audit"} => r \in StatusReq
         /\ r.pc = "Relabel" => r \in RelabelReq
  BY DEF Req, IdleReq, LinkReq, SumReq, SaveReq, FindReq, ViewReq, OpenReq, CopyReq, CopiedReq,
         FoundReq, LinkedReq, TotalReq, StatusReq, RelabelReq

\* Every day is in a week.
LEMMA WeekOfDay == \A d \in Day : WeekOf(d) \in Week
<1> SUFFICES ASSUME NEW d \in Day PROVE WeekOf(d) \in Week
  OBVIOUS
<1>1. PICK n \in Nat, m \in Nat : /\ n = DaysPerWeek /\ m = LastWeek /\ n > 0 /\ m > 0
                                  /\ d \in Int /\ 1 <= d /\ d <= m * n
  BY TimesheetAssumption DEF TimesheetAssumption, Day
<1>2. PICK q \in Int : q = (d - 1) \div n
  BY <1>1
<1>3. n * q <= d - 1 /\ d - 1 < n * (q + 1)
  BY <1>1, <1>2
<1>4. q >= 0
  BY <1>1, <1>3
<1>5. q < m
  BY <1>1, <1>3, <1>4
<1> QED
  BY <1>1, <1>2, <1>4, <1>5 DEF WeekOf, Week

\* The columns of an entry and of a sheet.
LogRow == [state : {"NONE", "LIVE", "DELETED"}, day : Day, hours : Hours \cup {0},
           week : 0..LastWeek]
SheetRow == [status : {"NONE", "DRAFT", "SUBMITTED", "APPROVED", "REJECTED"}, total : Nat,
             last : {"NONE", "SUBMIT", "APPROVE", "REJECT", "REQUEST_CHANGES"}]

\* The types of the tables, one by one.
LEMMA Tables ==
  TypeOK <=> /\ sheet \in [Week -> SheetRow]
             /\ log \in [Log -> LogRow]
             /\ thisWeek \in Week
             /\ late \subseteq Request /\ behind \subseteq Request
             /\ raced \subseteq Week /\ drifted \subseteq Week /\ unaudited \subseteq Week
<1>1. {"NONE"} \cup UNION {Actions[s] : s \in DOMAIN Actions}
        = {"NONE", "SUBMIT", "APPROVE", "REJECT", "REQUEST_CHANGES"}
  BY DEF Actions
<1> QED
  BY <1>1 DEF TypeOK, SheetRow, LogRow

\* The same after a step.
TablesFit ==
  TypeOK <=> /\ sheet \in [Week -> SheetRow]
             /\ log \in [Log -> LogRow]
             /\ thisWeek \in Week
             /\ late \subseteq Request /\ behind \subseteq Request
             /\ raced \subseteq Week /\ drifted \subseteq Week /\ unaudited \subseteq Week

LEMMA TablesThen == TablesFit'
<1>1. TablesFit
  BY Tables DEF TablesFit
<1> QED
  BY <1>1, PTL

\* What the assumption says of sets.
LEMMA Given ==
  /\ Hours \subseteq Nat \ {0} /\ OpenDays \subseteq Day /\ MayLog \subseteq Log \X OpenDays
  /\ LastWeek \in Nat \ {0} /\ Week \subseteq Nat \ {0} /\ 1 \in Week /\ 1 \in Day
  BY TimesheetAssumption DEF TimesheetAssumption, Day, Week

LEMMA Typed ==
  ASSUME Types
  PROVE  /\ HoursKnown
         /\ sheet \in [Week -> SheetRow]
         /\ log \in [Log -> LogRow]
         /\ thisWeek \in Week
         /\ late \subseteq Request /\ behind \subseteq Request
         /\ raced \subseteq Week /\ drifted \subseteq Week /\ unaudited \subseteq Week
         /\ req \in [Request -> Req]
         /\ LogsFit
         /\ \A w \in Request : RowFits(req[w])
<1>1. TypeOK /\ req \in [Request -> Req] /\ LogsFit /\ \A w \in Request : RowFits(req[w])
  BY DEF Types
<1>2. log \in [Log -> LogRow]
  BY <1>1, Tables
<1>3. ASSUME NEW l \in Log PROVE log[l].hours \in Nat
  <2>1. PICK h \in Hours \cup {0} : h = log[l].hours
    BY <1>2 DEF LogRow
  <2>2. h \in Nat
    BY Given
  <2> QED
    BY <2>1, <2>2
<1> QED
  BY <1>1, <1>2, <1>3, Tables DEF HoursKnown

\* What a sheet's entries add up to is a natural number, with or without one.
LEMMA SumsAreNat ==
  ASSUME Types, NEW k
  PROVE  /\ HoursOf(OnSheet(k)) \in Nat
         /\ \A l \in Log, e \in Entry : HoursWith(k, l, e) \in Nat
<1>1. HoursOf(OnSheet(k)) \in Nat /\ \A l \in Log : HoursOf(OnSheet(k) \ {l}) \in Nat
  BY Typed, HoursAreNat DEF OnSheet
<1>2. ASSUME NEW l \in Log, NEW e \in Entry PROVE HoursWith(k, l, e) \in Nat
  <2>1. PICK n \in Nat, h \in Nat : n = HoursOf(OnSheet(k) \ {l}) /\ h = e.hours
    BY <1>1, Given DEF Entry
  <2> QED
    BY <2>1 DEF HoursWith
<1> QED
  BY <1>1, <1>2

\* A total that is written keeps the tables well typed.
LEMMA WritesTotalFits ==
  ASSUME Types, NEW w \in Request, NEW k \in Week, NEW n \in Nat, NEW J \in SUBSET Week,
         WritesTotal(w, k, n, J)
  PROVE  /\ sheet' \in [Week -> SheetRow]
         /\ sheet'[k] = [status |-> IF sheet[k].status = "NONE" THEN "DRAFT" ELSE sheet[k].status,
                         total |-> n, last |-> sheet[k].last]
         /\ \A j \in Week \ {k} : sheet'[j] = sheet[j]
         /\ drifted' \subseteq Week /\ behind' \subseteq Request
<1>1. sheet \in [Week -> SheetRow] /\ sheet[k] \in SheetRow
  BY Typed
<1>2. sheet'[k] = [sheet[k] EXCEPT !.total = n,
                     !.status = IF sheet[k].status = "NONE" THEN "DRAFT" ELSE sheet[k].status]
  BY <1>1 DEF WritesTotal, SheetRow
<1>3. sheet'[k] = [status |-> IF sheet[k].status = "NONE" THEN "DRAFT" ELSE sheet[k].status,
                   total |-> n, last |-> sheet[k].last]
  BY <1>1, <1>2 DEF SheetRow
<1>4. sheet'[k] \in SheetRow
  BY <1>1, <1>3 DEF SheetRow
<1>5. DOMAIN sheet' = Week /\ \A j \in Week \ {k} : sheet'[j] = sheet[j]
  BY <1>1 DEF WritesTotal
<1>6. sheet' \in [Week -> SheetRow]
  BY <1>1, <1>4, <1>5 DEF WritesTotal
<1>7. drifted' \subseteq Week /\ behind' \subseteq Request
  BY Typed DEF WritesTotal, Summed
<1> QED
  BY <1>3, <1>5, <1>6, <1>7

\* A request that goes on to a well-formed state keeps req well formed.
LEMMA NewReq ==
  ASSUME Types, NEW w \in Request, NEW r \in Req, RowFits(r), Becomes(w, r)
  PROVE  /\ req' \in [Request -> Req] /\ \A v \in Request : RowFits(req'[v])
         /\ req'[w] = r /\ \A v \in Request \ {w} : req'[v] = req[v]
  BY Typed DEF Becomes

LEMMA DoneReq ==
  ASSUME Types, NEW w \in Request, Done(w)
  PROVE  /\ req' \in [Request -> Req] /\ \A v \in Request : RowFits(req'[v])
         /\ req'[w] = [pc |-> "Idle"] /\ \A v \in Request \ {w} : req'[v] = req[v]
<1>1. [pc |-> "Idle"] \in Req /\ RowFits([pc |-> "Idle"])
  BY DEF Req, IdleReq, RowFits
<1> QED
  BY <1>1, NewReq DEF Done

\* Tables that are well typed after a step are so together.
LEMMA TypesKept ==
  ASSUME req' \in [Request -> Req], \A v \in Request : RowFits(req'[v]),
         sheet' \in [Week -> SheetRow], log' \in [Log -> LogRow], LogsFit', thisWeek' \in Week,
         late' \subseteq Request, behind' \subseteq Request,
         raced' \subseteq Week, drifted' \subseteq Week, unaudited' \subseteq Week
  PROVE  Types'
<1>1. TypeOK'
  BY TablesThen DEF TablesFit
<1> QED
  BY <1>1 DEF Types

\* A step of a request that writes nothing.
LEMMA TypesRead ==
  ASSUME Types, NEW w \in Request, NEW r \in Req, RowFits(r), Becomes(w, r),
         UNCHANGED <<sheet, log, thisWeek, behind, raced, drifted, unaudited>>,
         late' \subseteq late
  PROVE  Types'
<1>1. req' \in [Request -> Req] /\ \A v \in Request : RowFits(req'[v])
  BY NewReq
<1>2. LogsFit'
  BY Typed DEF LogsFit
<1> QED
  BY <1>1, <1>2, Typed, TypesKept

LEMMA IdleFits == [pc |-> "Idle"] \in Req /\ RowFits([pc |-> "Idle"])
  BY DEF Req, IdleReq, RowFits

\* A row as a request makes it, and as it changes it.
LEMMA NewEntry ==
  ASSUME NEW d \in Day, NEW h \in Hours, NEW k \in 0..LastWeek
  PROVE  [state |-> "LIVE", day |-> d, hours |-> h, week |-> k] \in Entry
  BY DEF Entry

LEMMA ChangedEntry ==
  ASSUME NEW e \in Entry, NEW d \in Day, NEW h \in Hours
  PROVE  /\ [e EXCEPT !.day = d, !.hours = h] \in Entry
         /\ [e EXCEPT !.day = d, !.hours = h].week = e.week
         /\ [e EXCEPT !.day = d, !.hours = h].day = d
<1>1. [e EXCEPT !.day = d, !.hours = h] \in Entry
  BY DEF Entry
<1>2. /\ [e EXCEPT !.day = d, !.hours = h].week = e.week
      /\ [e EXCEPT !.day = d, !.hours = h].day = d
  BY DEF Entry
<1> QED
  BY <1>1, <1>2

LEMMA Weeks0 == Week \subseteq 0..LastWeek /\ 0..LastWeek = Week \cup {0} /\ 0 \notin Week
  BY Given DEF Week

\* A creation keeps the state well typed ...
LEMMA TypesCreate ==
  ASSUME Types, NEW w \in Request, Create(w)
  PROVE  Types'
<1>1. PICK l \in Log, d \in Day, h \in Hours : CreateCheck(w, l, d, h)
  BY DEF Create
<1> DEFINE e == [state |-> "LIVE", day |-> d, hours |-> h, week |-> WeekOf(d)]
           b == sheet[WeekOf(d)].status = "NONE"
           r == [pc |-> "Lock", log |-> l, week |-> WeekOf(d), fresh |-> b, row |-> e]
<1>2. WeekOf(d) \in Week /\ e \in Entry
  BY WeekOfDay, Weeks0, NewEntry
<1>3. r \in Req /\ RowFits(r)
  <2>1. r \in LinkReq
    BY <1>2 DEF LinkReq
  <2> QED
    BY <2>1 DEF Req, RowFits
<1> QED
  BY <1>1, <1>3, TypesRead DEF CreateCheck

\* ... and so do the three statements of a link ...
LEMMA TypesLock ==
  ASSUME Types, NEW w \in Request, LinkLock(w) \/ LinkSum(w)
  PROVE  Types'
<1>1. CASE LinkLock(w)
  <2>1. req[w] \in LinkReq /\ RowFits(req[w]) /\ req[w].pc = "Lock"
    BY <1>1, Typed, Shape DEF LinkLock, At
  <2>2. [req[w] EXCEPT !.pc = "Link"] \in Req /\ RowFits([req[w] EXCEPT !.pc = "Link"])
    <3>1. [req[w] EXCEPT !.pc = "Link"] \in LinkReq
      BY <2>1 DEF LinkReq
    <3> QED
      BY <2>1, <3>1 DEF Req, RowFits, LinkReq
  <2>3. CASE Done(w) /\ late' = late \ {w}
    BY <1>1, <2>3, IdleFits, TypesRead DEF LinkLock, Done
  <2>4. CASE Becomes(w, [req[w] EXCEPT !.pc = "Link"]) /\ UNCHANGED late
    BY <1>1, <2>2, <2>4, TypesRead DEF LinkLock
  <2> QED
    BY <1>1, <2>3, <2>4 DEF LinkLock
<1>2. CASE LinkSum(w)
  <2> DEFINE n == HoursWith(req[w].week, req[w].log, req[w].row)
             r == [pc |-> "Commit", log |-> req[w].log, week |-> req[w].week,
                   row |-> req[w].row, sum |-> n]
  <2>1. req[w] \in LinkReq /\ RowFits(req[w]) /\ req[w].pc = "Link"
    BY <1>2, Typed, Shape DEF LinkSum, At
  <2>2. n \in Nat
    BY <2>1, SumsAreNat DEF LinkReq
  <2>3. r \in Req /\ RowFits(r)
    <3> HIDE DEF n
    <3>1. r \in SumReq
      BY <2>1, <2>2 DEF SumReq, LinkReq
    <3> QED
      BY <2>1, <3>1 DEF Req, RowFits
  <2>4. CASE Done(w) /\ late' = late \ {w}
    BY <1>2, <2>4, IdleFits, TypesRead DEF LinkSum, Done
  <2>5. CASE Becomes(w, r) /\ UNCHANGED late
    BY <1>2, <2>3, <2>5, TypesRead DEF LinkSum
  <2> QED
    BY <1>2, <2>4, <2>5 DEF LinkSum
<1> QED
  BY <1>1, <1>2

\* An entry that is written as a request holds it is as it should be.
LEMMA RowWritten ==
  ASSUME Types, NEW l \in Log, NEW e \in Entry, log' = [log EXCEPT ![l] = e]
  PROVE  log' \in [Log -> LogRow] /\ LogsFit' /\ log'[l] = e
<1>1. e \in LogRow /\ e.state = "LIVE"
  BY DEF Entry, LogRow
<1>2. log \in [Log -> LogRow]
  BY Typed
<1>3. log' \in [Log -> LogRow] /\ log'[l] = e /\ \A m \in Log \ {l} : log'[m] = log[m]
  BY <1>1, <1>2
<1> QED
  BY <1>1, <1>3, Typed DEF LogsFit

\* The sheets whose hours change are sheets.
LEMMA TouchedFits ==
  ASSUME Types, NEW l \in Log, NEW k \in 0..LastWeek
  PROVE  Touched(l, k) \subseteq Week
<1>1. log[l].week \in 0..LastWeek
  BY Typed DEF LogRow
<1> QED
  BY <1>1, Weeks0 DEF Touched

\* The commit of an entry and its total.
LEMMA TypesCommit ==
  ASSUME Types, NEW w \in Request, LinkCommit(w) \/ UpdateTotal(w)
  PROVE  Types'
<1>1. req[w] \in SumReq
  BY Typed, Shape DEF LinkCommit, UpdateTotal, At
<1>2. /\ log' = [log EXCEPT ![req[w].log] = req[w].row]
      /\ WritesTotal(w, req[w].week, req[w].sum, Touched(req[w].log, req[w].week))
      /\ late' = (late \cup Holding(req[w].log)) \ {w} /\ Done(w)
      /\ UNCHANGED <<thisWeek, raced, unaudited>>
  BY DEF LinkCommit, UpdateTotal
<1>3. /\ req[w].log \in Log /\ req[w].week \in Week /\ req[w].row \in Entry /\ req[w].sum \in Nat
      /\ req[w].week \in 0..LastWeek
  BY <1>1, Weeks0 DEF SumReq
<1>4. log' \in [Log -> LogRow] /\ LogsFit'
  BY <1>2, <1>3, RowWritten
<1>5. Touched(req[w].log, req[w].week) \subseteq Week
  BY <1>3, TouchedFits
<1>6. sheet' \in [Week -> SheetRow] /\ drifted' \subseteq Week /\ behind' \subseteq Request
  BY <1>2, <1>3, <1>5, WritesTotalFits
<1>7. req' \in [Request -> Req] /\ \A v \in Request : RowFits(req'[v])
  BY <1>2, DoneReq
<1>8. late' \subseteq Request
  BY <1>2, Typed DEF Holding
<1> QED
  BY <1>2, <1>4, <1>6, <1>7, <1>8, Typed, TypesKept

\* The changes of an entry.
LEMMA TypesUpdate ==
  ASSUME Types, NEW w \in Request, Update(w)
  PROVE  Types'
<1>1. ASSUME NEW l \in Log, NEW d \in Day, NEW h \in Hours, UpdateLoad(w, l, d, h)
      PROVE  Types'
  <2> DEFINE e == [log[l] EXCEPT !.day = d, !.hours = h]
             r == [pc |-> "Save", log |-> l, week |-> log[l].week, row |-> e]
  <2>1. log[l] \in Entry
    BY <1>1, Typed DEF LogsFit, UpdateLoad
  <2>2. e \in Entry /\ e.week = log[l].week /\ log[l].week \in 0..LastWeek
    <3> HIDE DEF e
    <3> QED
      BY <2>1, ChangedEntry DEF e, Entry
  <2>3. r \in Req /\ RowFits(r)
    <3> HIDE DEF e
    <3>1. r \in SaveReq
      BY <2>2 DEF SaveReq
    <3> QED
      BY <2>2, <3>1 DEF Req, RowFits
  <2> QED
    BY <1>1, <2>3, TypesRead DEF UpdateLoad
<1>2. CASE UpdateSave(w)
  <2> DEFINE n == HoursWith(req[w].week, req[w].log, req[w].row)
             t == [pc |-> "Total", log |-> req[w].log, week |-> req[w].week,
                   row |-> req[w].row, sum |-> n]
             f == [pc |-> "Find", log |-> req[w].log, row |-> req[w].row]
  <2>1. req[w] \in SaveReq /\ RowFits(req[w]) /\ req[w].pc = "Save"
    BY <1>2, Typed, Shape DEF UpdateSave, At
  <2>2. n \in Nat
    BY <2>1, SumsAreNat DEF SaveReq
  <2>3. CASE req[w].week # 0
    <3>1. t \in Req /\ RowFits(t)
      <4> HIDE DEF n
      <4>1. t \in SumReq
        BY <2>1, <2>2, <2>3, Weeks0 DEF SumReq, SaveReq
      <4> QED
        BY <2>1, <4>1 DEF Req, RowFits
    <3> QED
      BY <1>2, <2>3, <3>1, TypesRead DEF UpdateSave
  <2>4. CASE req[w].week = 0
    <3>1. f \in Req /\ RowFits(f)
      <4>1. f \in FindReq
        BY <2>1 DEF FindReq, SaveReq
      <4> QED
        BY <2>1, <2>4, <4>1 DEF Req, RowFits
    <3> QED
      BY <1>2, <2>4, <3>1, TypesRead DEF UpdateSave
  <2> QED
    BY <2>3, <2>4
<1>3. CASE UpdateFind(w)
  <2> DEFINE k == WeekOf(req[w].row.day)
             e == [req[w].row EXCEPT !.week = k]
             r == [pc |-> "Lock", log |-> req[w].log, week |-> k,
                   fresh |-> sheet[k].status = "NONE", row |-> e]
  <2>1. req[w] \in FindReq
    BY <1>3, Typed, Shape DEF UpdateFind, At
  <2>2. k \in Week /\ req[w].row \in Entry /\ k \in 0..LastWeek
    BY <2>1, WeekOfDay, Weeks0 DEF FindReq, Entry
  <2>3. e \in Entry /\ e.week = k
    <3> HIDE DEF k
    <3> QED
      BY <2>2 DEF Entry
  <2>4. r \in Req /\ RowFits(r)
    <3> HIDE DEF k, e
    <3>1. r \in LinkReq
      BY <2>1, <2>2, <2>3 DEF LinkReq, FindReq
    <3> QED
      BY <2>3, <3>1 DEF Req, RowFits
  <2>5. CASE Done(w) /\ late' = late \ {w}
    BY <1>3, <2>5, IdleFits, TypesRead DEF UpdateFind, Done
  <2>6. CASE Becomes(w, r) /\ UNCHANGED late
    BY <1>3, <2>4, <2>6, TypesRead DEF UpdateFind
  <2> QED
    BY <1>3, <2>5, <2>6 DEF UpdateFind
<1> QED
  BY <1>1, <1>2, <1>3, TypesCommit DEF Update

\* A deletion.
LEMMA TypesDelete ==
  ASSUME Types, NEW l \in Log, LogDelete(l)
  PROVE  Types'
<1>1. log \in [Log -> LogRow] /\ log[l] \in LogRow
  BY Typed
<1>2. log' = [log EXCEPT ![l].state = "DELETED"]
  BY DEF LogDelete
<1>3. [log[l] EXCEPT !.state = "DELETED"] \in LogRow
  BY <1>1 DEF LogRow
<1>4. log'[l] = [log[l] EXCEPT !.state = "DELETED"] /\ \A m \in Log \ {l} : log'[m] = log[m]
  BY <1>1, <1>2
<1>5. log' \in [Log -> LogRow] /\ log'[l].state = "DELETED"
  <2>1. log' \in [Log -> LogRow]
    BY <1>1, <1>2, <1>3
  <2> QED
    BY <1>1, <1>4, <2>1 DEF LogRow
<1>6. LogsFit'
  BY <1>4, <1>5, Typed DEF LogsFit
<1>7. log[l].week = 0 \/ log[l].week \in Week
  BY <1>1, Weeks0 DEF LogRow
<1>8. behind' \subseteq Request /\ drifted' \subseteq Week
  BY <1>7, Typed DEF LogDelete, Summed
<1>9. late' \subseteq Request
  BY Typed DEF LogDelete, Holding
<1> QED
  BY <1>5, <1>6, <1>8, <1>9, Typed, TypesKept DEF LogDelete

\* A sheet is opened, and a total that has been read is written.
LEMMA OpensFits ==
  ASSUME Types, NEW k \in Week, OpensSheet(k)
  PROVE  /\ sheet' \in [Week -> SheetRow]
         /\ \A j \in Week : /\ sheet'[j].total = sheet[j].total
                            /\ sheet'[j].last = sheet[j].last
                            /\ \/ sheet'[j].status = sheet[j].status
                               \/ sheet[j].status = "NONE" /\ sheet'[j].status = "DRAFT"
<1>1. sheet \in [Week -> SheetRow] /\ sheet[k] \in SheetRow
  BY Typed
<1>2. CASE UNCHANGED sheet
  BY <1>1, <1>2
<1>3. CASE sheet[k].status = "NONE" /\ sheet' = [sheet EXCEPT ![k].status = "DRAFT"]
  <2>1. PICK s : s = [sheet[k] EXCEPT !.status = "DRAFT"]
    OBVIOUS
  <2>2. s \in SheetRow /\ s.total = sheet[k].total /\ s.last = sheet[k].last /\ s.status = "DRAFT"
    <3>1. s \in SheetRow
      BY <1>1, <2>1 DEF SheetRow
    <3> QED
      BY <1>1, <2>1, <3>1 DEF SheetRow
  <2>3. sheet' = [sheet EXCEPT ![k] = s]
    BY <1>1, <1>3, <2>1
  <2>4. sheet' \in [Week -> SheetRow] /\ sheet'[k] = s /\ \A j \in Week \ {k} : sheet'[j] = sheet[j]
    BY <1>1, <2>2, <2>3
  <2> QED
    BY <1>3, <2>2, <2>4
<1> QED
  BY <1>2, <1>3 DEF OpensSheet

LEMMA TypesOpen ==
  ASSUME Types, NEW w \in Request, NEW k \in Week, OpensSheet(k),
         NEW r \in Req, RowFits(r), Becomes(w, r),
         UNCHANGED <<log, thisWeek, late, behind, raced, drifted, unaudited>>
  PROVE  Types'
<1>1. req' \in [Request -> Req] /\ \A v \in Request : RowFits(req'[v])
  BY NewReq
<1>2. LogsFit'
  BY Typed DEF LogsFit
<1> QED
  BY <1>1, <1>2, OpensFits, Typed, TypesKept

LEMMA TypesTotal ==
  ASSUME Types, NEW w \in Request, NEW k \in Week, NEW n \in Nat, WritesTotal(w, k, n, {}),
         NEW r \in Req, RowFits(r), Becomes(w, r), UNCHANGED <<log, thisWeek, raced, unaudited>>,
         late' \subseteq late
  PROVE  Types'
<1>1. req' \in [Request -> Req] /\ \A v \in Request : RowFits(req'[v])
  BY NewReq
<1>2. LogsFit'
  BY Typed DEF LogsFit
<1>3. PICK J : J = {}
  OBVIOUS
<1>4. J \in SUBSET Week /\ WritesTotal(w, k, n, J)
  BY <1>3
<1>5. sheet' \in [Week -> SheetRow] /\ drifted' \subseteq Week /\ behind' \subseteq Request
  BY <1>4, WritesTotalFits
<1> QED
  BY <1>1, <1>2, <1>5, Typed, TypesKept

LEMMA TypesView ==
  ASSUME Types, NEW w \in Request, View(w)
  PROVE  Types'
<1>1. ASSUME NEW k \in Week, ViewLoad(w, k) PROVE Types'
  <2> DEFINE n == HoursOf(OnSheet(k))
             r == [pc |-> "View", week |-> k, sum |-> n]
  <2>1. r \in Req /\ RowFits(r)
    <3>1. n \in Nat
      BY SumsAreNat
    <3> HIDE DEF n
    <3>2. r \in ViewReq
      BY <3>1 DEF ViewReq
    <3> QED
      BY <3>2 DEF Req, RowFits
  <2> QED
    BY <1>1, <2>1, TypesOpen DEF ViewLoad
<1>2. CASE ViewSave(w)
  <2>1. req[w] \in ViewReq
    BY <1>2, Typed, Shape DEF ViewSave, At
  <2>2. req[w].week \in Week /\ req[w].sum \in Nat
    BY <2>1 DEF ViewReq
  <2> QED
    BY <1>2, <2>2, IdleFits, TypesTotal DEF ViewSave, Done
<1> QED
  BY <1>1, <1>2 DEF View


\* A copy.
LEMMA TypesCopyOpen ==
  ASSUME Types, NEW w \in Request,
         (\E from, to \in Day : CopyStart(w, from, to)) \/ CopyOpen(w)
  PROVE  Types'
<1>1. ASSUME NEW from \in Day, NEW to \in Day, CopyStart(w, from, to) PROVE Types'
  <2> DEFINE n == HoursOf(OnSheet(WeekOf(to)))
             b == sheet[WeekOf(to)].status \notin Closed
             r == [pc |-> "CopyOpen", week |-> WeekOf(to), sum |-> n,
                   from |-> from, to |-> to, open |-> b]
  <2>1. WeekOf(to) \in Week /\ n \in Nat
    BY WeekOfDay, SumsAreNat
  <2>2. r \in Req /\ RowFits(r)
    <3> HIDE DEF n
    <3>1. r \in OpenReq
      BY <2>1 DEF OpenReq
    <3> QED
      BY <3>1 DEF Req, RowFits
  <2> QED
    BY <1>1, <2>1, <2>2, TypesOpen DEF CopyStart
<1>2. CASE CopyOpen(w)
  <2>1. req[w] \in OpenReq
    BY <1>2, Typed, Shape DEF CopyOpen, At
  <2>2. req[w].week \in Week /\ req[w].sum \in Nat /\ req[w].to \in Day
    BY <2>1 DEF OpenReq
  <2> DEFINE T == {<<l, log[l].hours>> :
                     l \in {m \in Log : log[m].state = "LIVE" /\ log[m].day = req[w].from}}
             r == [pc |-> "Copy", to |-> req[w].to, todo |-> T]
  <2>3. T \in SUBSET (Log \X Hours)
    BY Typed DEF LogsFit, Entry
  <2>4. r \in Req /\ RowFits(r)
    <3> HIDE DEF T
    <3>1. r \in CopyReq
      BY <2>2, <2>3 DEF CopyReq
    <3> QED
      BY <3>1 DEF Req, RowFits
  <2>5. Becomes(w, r) \/ Becomes(w, [pc |-> "Idle"])
    BY <1>2 DEF CopyOpen, Done
  <2> QED
    BY <1>2, <2>2, <2>4, <2>5, IdleFits, TypesTotal DEF CopyOpen
<1> QED
  BY <1>1, <1>2

\* A new entry in the log.
LEMMA TypesCopyCreate ==
  ASSUME Types, NEW w \in Request, CopyCreate(w)
  PROVE  Types'
<1>1. req[w] \in CopyReq
  BY Typed, Shape DEF CopyCreate, At
<1>2. req[w].to \in Day /\ req[w].todo \in SUBSET (Log \X Hours)
  BY <1>1 DEF CopyReq
<1>3. CASE Done(w) /\ UNCHANGED log
  <2>1. late' \subseteq late
    BY DEF CopyCreate
  <2> QED
    BY <1>3, <2>1, IdleFits, TypesRead DEF CopyCreate, Done
<1>4. ASSUME NEW src \in req[w].todo, NEW n \in Log,
             log' = [log EXCEPT ![n] = [state |-> "LIVE", day |-> req[w].to,
                                        hours |-> src[2], week |-> 0]],
             Becomes(w, [pc |-> "CopyFind", log |-> n, to |-> req[w].to,
                         todo |-> req[w].todo \ {src}])
      PROVE  Types'
  <2> DEFINE e == [state |-> "LIVE", day |-> req[w].to, hours |-> src[2], week |-> 0]
             r == [pc |-> "CopyFind", log |-> n, to |-> req[w].to, todo |-> req[w].todo \ {src}]
  <2>1. e \in Entry
    BY <1>2, Weeks0, NewEntry
  <2>2. r \in Req /\ RowFits(r)
    <3>1. r \in CopiedReq
      BY <1>2 DEF CopiedReq
    <3> QED
      BY <3>1 DEF Req, RowFits
  <2> HIDE DEF e, r
  <2>3. log' \in [Log -> LogRow] /\ LogsFit'
    BY <1>4, <2>1, RowWritten DEF e
  <2>4. req' \in [Request -> Req] /\ \A v \in Request : RowFits(req'[v])
    BY <1>4, <2>2, NewReq DEF r
  <2> QED
    BY <2>3, <2>4, Typed, TypesKept DEF CopyCreate
<1> QED
  BY <1>3, <1>4 DEF CopyCreate

\* The link of a copy.
LEMMA TypesCopyLink ==
  ASSUME Types, NEW w \in Request, CopyLink(w)
  PROVE  Types'
<1>1. req[w] \in LinkedReq /\ req[w].pc = "CopyLink"
  BY Typed, Shape DEF CopyLink, At
<1>2. req[w].log \in Log /\ req[w].week \in Week /\ req[w].week \in 0..LastWeek
  BY <1>1, Weeks0 DEF LinkedReq
<1>3. PICK l \in Log, k \in Week : l = req[w].log /\ k = req[w].week /\ k \in 0..LastWeek
  BY <1>2
<1>4. log \in [Log -> LogRow] /\ log[l] \in LogRow
  BY Typed
<1>5. log' = [log EXCEPT ![l].week = k]
  BY <1>3 DEF CopyLink
<1>6. [log[l] EXCEPT !.week = k] \in LogRow
  BY <1>3, <1>4 DEF LogRow
<1>7. log'[l] = [log[l] EXCEPT !.week = k] /\ \A m \in Log \ {l} : log'[m] = log[m]
  BY <1>4, <1>5
<1>8. log' \in [Log -> LogRow] /\ log'[l].state = log[l].state
  <2>1. log' \in [Log -> LogRow]
    BY <1>4, <1>5, <1>6
  <2> QED
    BY <1>4, <1>7, <2>1 DEF LogRow
<1>9. log[l].state = "LIVE" => log'[l] \in Entry
  BY <1>3, <1>4, <1>7, Typed DEF LogsFit, Entry
<1>10. LogsFit'
  BY <1>7, <1>8, <1>9, Typed DEF LogsFit
<1>11. [req[w] EXCEPT !.pc = "CopySum"] \in Req /\ RowFits([req[w] EXCEPT !.pc = "CopySum"])
  <2>1. [req[w] EXCEPT !.pc = "CopySum"] \in LinkedReq
    BY <1>1 DEF LinkedReq
  <2>2. [req[w] EXCEPT !.pc = "CopySum"].pc = "CopySum"
    BY <1>1 DEF LinkedReq
  <2> QED
    BY <2>1, <2>2 DEF Req, RowFits
<1>12. req' \in [Request -> Req] /\ \A v \in Request : RowFits(req'[v])
  BY <1>11, NewReq DEF CopyLink
<1>13. Touched(l, k) \subseteq Week
  BY <1>3, TouchedFits
<1>14. behind' \subseteq Request /\ drifted' \subseteq Week /\ late' \subseteq Request
  BY <1>3, <1>13, Typed DEF CopyLink, Summed, Holding
<1> QED
  BY <1>8, <1>10, <1>12, <1>14, Typed, TypesKept DEF CopyLink

\* The other steps of a copy.
LEMMA TypesCopy ==
  ASSUME Types, NEW w \in Request, Copy(w)
  PROVE  Types'
<1>1. CASE CopyFind(w)
  <2> DEFINE k == WeekOf(req[w].to)
             n == HoursOf(OnSheet(k))
             b == sheet[k].status \notin Closed
             r == [pc |-> "CopyFound", log |-> req[w].log, to |-> req[w].to,
                   todo |-> req[w].todo, week |-> k, sum |-> n, open |-> b]
  <2>1. req[w] \in CopiedReq
    BY <1>1, Typed, Shape DEF CopyFind, At
  <2>2. k \in Week /\ n \in Nat
    BY <2>1, WeekOfDay, SumsAreNat DEF CopiedReq
  <2>3. r \in Req /\ RowFits(r)
    <3> HIDE DEF n, k
    <3>1. r \in FoundReq
      BY <2>1, <2>2 DEF CopiedReq, FoundReq
    <3> QED
      BY <3>1 DEF Req, RowFits
  <2> QED
    BY <1>1, <2>3, TypesRead DEF CopyFind
<1>2. CASE CopyFound(w)
  <2> DEFINE r == [pc |-> "CopyLink", log |-> req[w].log, to |-> req[w].to,
                   todo |-> req[w].todo, week |-> req[w].week]
  <2>1. req[w] \in FoundReq
    BY <1>2, Typed, Shape DEF CopyFound, At
  <2>2. req[w].week \in Week /\ req[w].sum \in Nat
    BY <2>1 DEF FoundReq
  <2>3. r \in Req /\ RowFits(r)
    <3>1. r \in LinkedReq
      BY <2>1 DEF FoundReq, LinkedReq
    <3> QED
      BY <3>1 DEF Req, RowFits
  <2>4. CASE Becomes(w, r) /\ UNCHANGED late
    BY <1>2, <2>2, <2>3, <2>4, TypesTotal DEF CopyFound
  <2>5. CASE Done(w) /\ late' = late \ {w}
    BY <1>2, <2>2, <2>5, IdleFits, TypesTotal DEF CopyFound, Done
  <2> QED
    BY <1>2, <2>4, <2>5 DEF CopyFound
<1>3. CASE CopySum(w)
  <2> DEFINE n == HoursOf(OnSheet(req[w].week))
             r == [pc |-> "CopyTotal", to |-> req[w].to, todo |-> req[w].todo,
                   week |-> req[w].week, sum |-> n]
  <2>1. req[w] \in LinkedReq
    BY <1>3, Typed, Shape DEF CopySum, At
  <2>2. n \in Nat
    BY SumsAreNat
  <2>3. r \in Req /\ RowFits(r)
    <3> HIDE DEF n
    <3>1. r \in TotalReq
      BY <2>1, <2>2 DEF LinkedReq, TotalReq
    <3> QED
      BY <3>1 DEF Req, RowFits
  <2> QED
    BY <1>3, <2>3, TypesRead DEF CopySum
<1>4. CASE CopyTotal(w)
  <2> DEFINE r == [pc |-> "Copy", to |-> req[w].to, todo |-> req[w].todo]
  <2>1. req[w] \in TotalReq
    BY <1>4, Typed, Shape DEF CopyTotal, At
  <2>2. req[w].week \in Week /\ req[w].sum \in Nat
    BY <2>1 DEF TotalReq
  <2>3. r \in Req /\ RowFits(r)
    <3>1. r \in CopyReq
      BY <2>1 DEF TotalReq, CopyReq
    <3> QED
      BY <3>1 DEF Req, RowFits
  <2> QED
    BY <1>4, <2>2, <2>3, TypesTotal DEF CopyTotal
<1> QED
  BY <1>1, <1>2, <1>3, <1>4, TypesCopyOpen, TypesCopyCreate, TypesCopyLink DEF Copy

\* A submission and a review: what their rows become.
LEMMA SheetWritten ==
  ASSUME Types, NEW k \in Week, NEW s \in SheetRow, sheet' = [sheet EXCEPT ![k] = s]
  PROVE  /\ sheet' \in [Week -> SheetRow]
         /\ sheet'[k] = s /\ \A j \in Week \ {k} : sheet'[j] = sheet[j]
  BY Typed

LEMMA StatusWritten ==
  ASSUME Types, NEW w \in Request, StatusSave(w)
  PROVE  /\ req[w] \in StatusReq /\ sheet' \in [Week -> SheetRow]
         /\ \A j \in Week \ {req[w].week} : sheet'[j] = sheet[j]
         /\ sheet'[req[w].week].status = req[w].to
         /\ sheet'[req[w].week].total = sheet[req[w].week].total
         /\ sheet'[req[w].week].last = sheet[req[w].week].last
<1>1. req[w] \in StatusReq
  BY Typed, Shape DEF StatusSave, At
<1>2. PICK k \in Week, t \in {"SUBMITTED", "APPROVED", "REJECTED"} :
        k = req[w].week /\ t = req[w].to
  BY <1>1 DEF StatusReq
<1>3. sheet \in [Week -> SheetRow] /\ sheet[k] \in SheetRow
  BY Typed
<1>4. PICK s : s = [sheet[k] EXCEPT !.status = t]
  OBVIOUS
<1>5. s \in SheetRow
  BY <1>3, <1>4 DEF SheetRow
<1>6. s.status = t /\ s.total = sheet[k].total /\ s.last = sheet[k].last
  BY <1>3, <1>4 DEF SheetRow
<1>7. sheet' = [sheet EXCEPT ![k] = s]
  BY <1>2, <1>3, <1>4 DEF StatusSave
<1> QED
  BY <1>1, <1>2, <1>5, <1>6, <1>7, SheetWritten

LEMMA LastWritten ==
  ASSUME Types, NEW k \in Week, NEW a \in {"SUBMIT", "APPROVE", "REJECT", "REQUEST_CHANGES"},
         sheet' = [sheet EXCEPT ![k].last = a]
  PROVE  /\ sheet' \in [Week -> SheetRow]
         /\ \A j \in Week \ {k} : sheet'[j] = sheet[j]
         /\ sheet'[k].status = sheet[k].status
         /\ sheet'[k].total = sheet[k].total
         /\ sheet'[k].last = a
<1>1. sheet \in [Week -> SheetRow] /\ sheet[k] \in SheetRow
  BY Typed
<1>2. PICK s : s = [sheet[k] EXCEPT !.last = a]
  OBVIOUS
<1>3. s \in SheetRow
  BY <1>1, <1>2 DEF SheetRow
<1>4. s.last = a /\ s.total = sheet[k].total /\ s.status = sheet[k].status
  BY <1>1, <1>2 DEF SheetRow
<1>5. sheet' = [sheet EXCEPT ![k] = s]
  BY <1>1, <1>2
<1> QED
  BY <1>3, <1>4, <1>5, SheetWritten

LEMMA Actioned ==
  ASSUME NEW t \in {"SUBMITTED", "APPROVED", "REJECTED"}
  PROVE  /\ ActionFor(t) \in {"SUBMIT", "APPROVE", "REJECT", "REQUEST_CHANGES"}
         /\ ActionFor(t) \in Actions[t]
  BY DEF ActionFor, Actions

LEMMA TypesReview ==
  ASSUME Types, NEW w \in Request, Review(w)
  PROVE  Types'
<1> DEFINE R(k, to, b) == [pc |-> "SaveStatus", week |-> k, to |-> to, relabel |-> b]
<1>1. ASSUME NEW k \in Week, NEW to \in {"SUBMITTED", "APPROVED", "REJECTED"}, NEW b \in BOOLEAN
      PROVE  R(k, to, b) \in Req /\ RowFits(R(k, to, b))
  <2>1. R(k, to, b) \in StatusReq
    BY <1>1 DEF StatusReq
  <2> QED
    BY <2>1 DEF Req, RowFits
<1>2. ASSUME NEW k \in Week, SubmitLoad(w, k) PROVE Types'
  <2>1. Becomes(w, R(k, "SUBMITTED", FALSE))
    BY <1>2 DEF SubmitLoad
  <2>2. R(k, "SUBMITTED", FALSE) \in Req /\ RowFits(R(k, "SUBMITTED", FALSE))
    BY <1>1
  <2> HIDE DEF R
  <2> QED
    BY <1>2, <2>1, <2>2, TypesRead DEF SubmitLoad
<1>3. ASSUME NEW k \in Week, NEW r \in Reviewer, NEW to \in {"APPROVED", "REJECTED"},
             NEW b \in BOOLEAN, ReviewLoad(w, k, r, to, b)
      PROVE  Types'
  <2>1. Becomes(w, R(k, to, b))
    BY <1>3 DEF ReviewLoad
  <2>2. R(k, to, b) \in Req /\ RowFits(R(k, to, b))
    BY <1>1
  <2> HIDE DEF R
  <2> QED
    BY <1>3, <2>1, <2>2, TypesRead DEF ReviewLoad
<1>4. CASE StatusSave(w)
  <2>1. req[w] \in StatusReq /\ sheet' \in [Week -> SheetRow]
    BY <1>4, StatusWritten
  <2>2. [req[w] EXCEPT !.pc = "Audit"] \in Req /\ RowFits([req[w] EXCEPT !.pc = "Audit"])
    <3>1. [req[w] EXCEPT !.pc = "Audit"] \in StatusReq
      BY <2>1 DEF StatusReq
    <3>2. [req[w] EXCEPT !.pc = "Audit"].pc = "Audit"
      BY <2>1 DEF StatusReq
    <3> QED
      BY <3>1, <3>2 DEF Req, RowFits
  <2>3. req' \in [Request -> Req] /\ \A v \in Request : RowFits(req'[v])
    BY <1>4, <2>2, NewReq DEF StatusSave
  <2>4. req[w].week \in Week
    BY <2>1 DEF StatusReq
  <2>5. raced' \subseteq Week /\ late' \subseteq Request /\ unaudited' \subseteq Week
    BY <1>4, <2>4, Typed DEF StatusSave, Checked
  <2>6. LogsFit'
    BY <1>4, Typed DEF LogsFit, StatusSave
  <2> QED
    BY <1>4, <2>1, <2>3, <2>5, <2>6, Typed, TypesKept DEF StatusSave
<1>5. CASE Audit(w)
  <2>1. req[w] \in StatusReq
    BY <1>5, Typed, Shape DEF Audit, At
  <2>2. PICK k \in Week, t \in {"SUBMITTED", "APPROVED", "REJECTED"} :
          k = req[w].week /\ t = req[w].to
    BY <2>1 DEF StatusReq
  <2>3. sheet' \in [Week -> SheetRow]
    BY <1>5, <2>2, Actioned, LastWritten DEF Audit
  <2>4. [pc |-> "Relabel", week |-> k] \in Req /\ RowFits([pc |-> "Relabel", week |-> k])
    <3>1. [pc |-> "Relabel", week |-> k] \in RelabelReq
      BY DEF RelabelReq
    <3> QED
      BY <3>1 DEF Req, RowFits
  <2>5. req' \in [Request -> Req] /\ \A v \in Request : RowFits(req'[v])
    <3>1. Becomes(w, [pc |-> "Relabel", week |-> k]) \/ Done(w)
      BY <1>5, <2>2 DEF Audit
    <3> QED
      BY <2>4, <3>1, NewReq, DoneReq
  <2>6. LogsFit'
    BY <1>5, Typed DEF LogsFit, Audit
  <2> QED
    BY <1>5, <2>3, <2>5, <2>6, Typed, TypesKept DEF Audit
<1>6. CASE Relabel(w)
  <2>1. req[w] \in RelabelReq
    BY <1>6, Typed, Shape DEF Relabel, At
  <2>2. PICK k \in Week : k = req[w].week
    BY <2>1 DEF RelabelReq
  <2>3. sheet' \in [Week -> SheetRow]
    BY <1>6, <2>2, Typed, LastWritten DEF Relabel
  <2>4. req' \in [Request -> Req] /\ \A v \in Request : RowFits(req'[v])
    BY <1>6, DoneReq DEF Relabel
  <2>5. LogsFit'
    BY <1>6, Typed DEF LogsFit, Relabel
  <2> QED
    BY <1>6, <2>3, <2>4, <2>5, Typed, TypesKept DEF Relabel
<1> QED
  BY <1>2, <1>3, <1>4, <1>5, <1>6 DEF Review

\* A request's death, and the calendar.
LEMMA TypesDie ==
  ASSUME Types, NEW w \in Request, Die(w)
  PROVE  Types'
<1>1. req[w] \in Req
  BY Typed
<1>2. req[w].pc \in {"CopySum", "CopyTotal", "Audit"} => req[w].week \in Week
  BY <1>1, Shape DEF LinkedReq, TotalReq, StatusReq
<1>3. drifted' \subseteq Week /\ unaudited' \subseteq Week /\ late' \subseteq Request
      /\ behind' \subseteq Request
  BY <1>2, Typed DEF Die, At
<1>4. req' \in [Request -> Req] /\ \A v \in Request : RowFits(req'[v])
  BY DoneReq DEF Die
<1>5. LogsFit'
  BY Typed DEF LogsFit, Die
<1> QED
  BY <1>3, <1>4, <1>5, Typed, TypesKept DEF Die

LEMMA TypesCalendar ==
  ASSUME Types, NextWeek
  PROVE  Types'
<1>1. thisWeek' \in Week
  <2>1. PICK n \in Nat, m \in Nat : n = thisWeek /\ m = LastWeek /\ 1 <= n /\ n <= m
    BY Typed, TimesheetAssumption DEF TimesheetAssumption, Week
  <2>2. n + 1 \in 1..m
    BY <2>1 DEF NextWeek
  <2> QED
    BY <2>1, <2>2 DEF NextWeek, Week
<1>2. LogsFit'
  BY Typed DEF LogsFit, NextWeek
<1> QED
  BY <1>1, <1>2, Typed, TypesKept DEF NextWeek

\* Every step keeps the state well typed.
LEMMA TypesStep ==
  ASSUME Types, [Next]_vars
  PROVE  Types'
<1>1. ASSUME NEW w \in Request, Handlers(w) \/ Die(w) PROVE Types'
  BY <1>1, TypesCreate, TypesUpdate, TypesLock, TypesCommit, TypesView, TypesCopy, TypesReview,
     TypesDie DEF Handlers, Link
<1>2. ASSUME NEW l \in Log, LogDelete(l) PROVE Types'
  BY <1>2, TypesDelete
<1>3. CASE NextWeek
  BY <1>3, TypesCalendar
<1>4. CASE UNCHANGED vars
  <2>1. LogsFit'
    BY <1>4, Typed DEF LogsFit, vars
  <2> QED
    BY <1>4, <2>1, Typed, TypesKept DEF vars
<1> QED
  BY <1>1, <1>2, <1>3, <1>4 DEF Next

LEMMA TypesInit == Init => Types
<1> SUFFICES ASSUME Init PROVE Types
  OBVIOUS
<1>1. sheet \in [Week -> SheetRow]
  BY DEF Init, SheetRow
<1>2. NoLog \in LogRow
  BY Given, Weeks0 DEF NoLog, LogRow
<1>3. log \in [Log -> LogRow] /\ \A l \in Log : log[l].state = "NONE"
  BY <1>2 DEF Init, NoLog
<1>4. TypeOK
  BY <1>1, <1>3, Given, Tables DEF Init
<1>5. req \in [Request -> Req] /\ \A w \in Request : RowFits(req[w])
  BY IdleFits DEF Init
<1> QED
  BY <1>3, <1>4, <1>5 DEF Types, LogsFit


(***************************************************************************)
(* Steps that leave the entries alone                                      *)
(***************************************************************************)
LatePcs == InChecked \cup {"Find", "CopyFind"}

\* A request is excused only between a check, or a sum, and its use.
Excused(w) ==
  /\ w \in late => req[w].pc \in LatePcs
  /\ w \in behind => req[w].pc \in InSummed

\* Nothing another request has read changes, except that sheets are opened.
Quiet(w) ==
  /\ UNCHANGED <<log, thisWeek>>
  /\ \A v \in Request \ {w} : /\ req'[v] = req[v]
                              /\ v \in late' <=> v \in late
                              /\ v \in behind' <=> v \in behind
  /\ \A k \in Week : \/ sheet'[k].status = sheet[k].status
                     \/ sheet[k].status = "NONE" /\ sheet'[k].status = "DRAFT"
  /\ req[w].pc \in {"Audit", "Relabel"} \/ \A k \in Week : sheet'[k].last = sheet[k].last
  /\ unaudited \subseteq unaudited'
  /\ req'[w].pc # "Idle" => (w \in late' <=> w \in late)

\* Where a request has got to, and from where.
LockArrives(w) ==
  req'[w].pc = "Lock" =>
    /\ req'[w].week = WeekOf(req'[w].row.day)
    /\ sheet[req'[w].week].status \notin Closed
    /\ \/ /\ log[req'[w].log].state = "NONE" /\ ~ Reserved(req'[w].log)
          /\ WeekOf(req'[w].row.day) = thisWeek
       \/ req[w].pc = "Find" /\ req'[w].log = req[w].log /\ req'[w].row.day = req[w].row.day
LinkArrives(w) ==
  /\ req'[w].pc = "Link" =>
       /\ req[w].pc = "Lock" /\ ~ Locked(req'[w].week)
       /\ req'[w].log = req[w].log /\ req'[w].week = req[w].week /\ req'[w].row = req[w].row
  /\ req'[w].pc = "Commit" =>
       /\ req[w].pc = "Link"
       /\ req'[w].log = req[w].log /\ req'[w].week = req[w].week /\ req'[w].row = req[w].row
       /\ log[req'[w].log].state = "NONE" => sheet[req'[w].week].status \notin Closed
       /\ req'[w].sum = HoursWith(req'[w].week, req'[w].log, req'[w].row)
SaveArrives(w) ==
  /\ req'[w].pc = "Save" =>
       /\ log[req'[w].log].state = "LIVE" /\ req'[w].week = log[req'[w].log].week
       /\ req'[w].week # 0 => sheet[req'[w].week].status \notin Closed
       /\ WeekOf(req'[w].row.day) = thisWeek
  /\ req'[w].pc \in {"Total", "Find"} =>
       /\ req[w].pc = "Save" /\ ~ LogLocked(req'[w].log)
       /\ req'[w].log = req[w].log /\ req'[w].row = req[w].row
  /\ req'[w].pc = "Total" =>
       /\ req'[w].week = req[w].week
       /\ req'[w].sum = HoursWith(req'[w].week, req'[w].log, req'[w].row)
  /\ req'[w].pc = "Find" => req[w].week = 0
CopyArrives(w) ==
  /\ req'[w].pc = "CopyOpen" =>
       WeekOf(req'[w].to) = thisWeek /\ req'[w].week = WeekOf(req'[w].to)
  /\ req'[w].pc = "Copy" => req[w].pc \in {"CopyOpen", "CopyTotal"} /\ req'[w].to = req[w].to
  /\ req'[w].pc = "CopyFound" =>
       /\ req[w].pc = "CopyFind" /\ req'[w].log = req[w].log /\ req'[w].to = req[w].to
       /\ req'[w].week = WeekOf(req'[w].to)
       /\ req'[w].open => sheet[req'[w].week].status \notin Closed
  /\ req'[w].pc = "CopyLink" =>
       /\ req[w].pc = "CopyFound" /\ req[w].open
       /\ req'[w].log = req[w].log /\ req'[w].to = req[w].to /\ req'[w].week = req[w].week
  /\ req'[w].pc = "CopyTotal" =>
       /\ req[w].pc = "CopySum" /\ req'[w].to = req[w].to /\ req'[w].week = req[w].week
  /\ req'[w].pc \notin {"CopyFind", "CopySum"}
SumArrives(w) ==
  req'[w].pc \in {"View", "CopyOpen", "CopyFound", "CopyTotal"} =>
    req'[w].sum = HoursOf(OnSheet(req'[w].week))
StatusArrives(w) ==
  /\ req'[w].pc = "SaveStatus" =>
       sheet[req'[w].week].status \in IF req'[w].to = "SUBMITTED" THEN Editable ELSE {"SUBMITTED"}
  /\ req'[w].pc # "Audit"
Arrives(w) ==
  /\ Quiet(w) /\ Excused(w)'
  /\ LockArrives(w) /\ LinkArrives(w) /\ SaveArrives(w) /\ CopyArrives(w) /\ SumArrives(w)
  /\ StatusArrives(w)

\* The steps of requests that are of this kind.
QuietStep(w) ==
  \/ Create(w) \/ LinkLock(w) \/ LinkSum(w)
  \/ (\E l \in Log, d \in Day, h \in Hours : UpdateLoad(w, l, d, h))
  \/ UpdateSave(w) \/ UpdateFind(w) \/ View(w)
  \/ (\E from, to \in Day : CopyStart(w, from, to))
  \/ CopyOpen(w) \/ CopyFind(w) \/ CopyFound(w) \/ CopySum(w) \/ CopyTotal(w)
  \/ (\E k \in Week : SubmitLoad(w, k))
  \/ (\E k \in Week, r \in Reviewer, to \in {"APPROVED", "REJECTED"}, b \in BOOLEAN :
        ReviewLoad(w, k, r, to, b))
  \/ Audit(w) \/ Relabel(w) \/ Die(w)

\* A request that moves.
LEMMA Moves ==
  ASSUME Types, NEW w \in Request, NEW r, Becomes(w, r)
  PROVE  req'[w] = r /\ \A v \in Request \ {w} : req'[v] = req[v]
  BY Typed DEF Becomes

LEMMA Finishes ==
  ASSUME Types, NEW w \in Request, Done(w)
  PROVE  /\ req'[w] = [pc |-> "Idle"] /\ req'[w].pc = "Idle"
         /\ \A v \in Request \ {w} : req'[v] = req[v]
  BY Moves DEF Done

\* A request that gives up, or is through.
LEMMA IdleArrives ==
  ASSUME Types, NEW w \in Request, Done(w), UNCHANGED <<log, thisWeek>>,
         w \notin late', \A v \in Request \ {w} : v \in late' <=> v \in late,
         w \notin behind', \A v \in Request \ {w} : v \in behind' <=> v \in behind,
         \A k \in Week : \/ sheet'[k].status = sheet[k].status
                         \/ sheet[k].status = "NONE" /\ sheet'[k].status = "DRAFT",
         req[w].pc \in {"Audit", "Relabel"} \/ \A k \in Week : sheet'[k].last = sheet[k].last,
         unaudited \subseteq unaudited'
  PROVE  Arrives(w)
<1>1. req'[w].pc = "Idle" /\ \A v \in Request \ {w} : req'[v] = req[v]
  BY Finishes
<1>2. Quiet(w) /\ Excused(w)'
  BY <1>1 DEF Quiet, Excused
<1> QED
  BY <1>1, <1>2 DEF Arrives, LockArrives, LinkArrives, SaveArrives, CopyArrives, SumArrives,
     StatusArrives

\* One that reads and goes on.
LEMMA ReadArrives ==
  ASSUME Types, NEW w \in Request, NEW r, Becomes(w, r),
         UNCHANGED <<sheet, log, thisWeek, late, behind, raced, drifted, unaudited>>
  PROVE  Quiet(w) /\ req'[w] = r
<1>1. req'[w] = r /\ \A v \in Request \ {w} : req'[v] = req[v]
  BY Moves
<1> QED
  BY <1>1 DEF Quiet


LEMMA ArrivesCreate ==
  ASSUME Types, NEW w \in Request, Excused(w), Create(w)
  PROVE  Arrives(w)
<1>1. PICK l \in Log, d \in Day, h \in Hours : CreateCheck(w, l, d, h)
  BY DEF Create
<1>2. PICK r : r = [pc |-> "Lock", log |-> l, week |-> WeekOf(d),
                    fresh |-> sheet[WeekOf(d)].status = "NONE",
                    row |-> [state |-> "LIVE", day |-> d, hours |-> h, week |-> WeekOf(d)]]
  OBVIOUS
<1>3. Becomes(w, r)
  BY <1>1, <1>2 DEF CreateCheck
<1>4. Quiet(w) /\ req'[w] = r
  BY <1>1, <1>3, ReadArrives DEF CreateCheck
<1>5. Excused(w)'
  BY <1>1, <1>2, <1>4 DEF Excused, CreateCheck, LatePcs, InChecked, InSummed, At
<1>6. LockArrives(w)
  BY <1>1, <1>2, <1>4 DEF LockArrives, CreateCheck, InCurrentWeek
<1> QED
  BY <1>2, <1>4, <1>5, <1>6
  DEF Arrives, LinkArrives, SaveArrives, CopyArrives, SumArrives, StatusArrives

LEMMA ArrivesLink ==
  ASSUME Types, NEW w \in Request, Excused(w), LinkLock(w) \/ LinkSum(w)
  PROVE  Arrives(w)
<1>1. CASE LinkLock(w) /\ Done(w) /\ late' = late \ {w}
  BY <1>1, IdleArrives DEF LinkLock, At, Excused, InSummed
<1>2. CASE LinkLock(w) /\ Becomes(w, [req[w] EXCEPT !.pc = "Link"]) /\ UNCHANGED late
  <2>1. PICK r : r = [req[w] EXCEPT !.pc = "Link"]
    OBVIOUS
  <2>2. Quiet(w) /\ req'[w] = r
    BY <1>2, <2>1, ReadArrives DEF LinkLock
  <2>3. req[w] \in LinkReq /\ req[w].pc = "Lock"
    BY <1>2, Typed, Shape DEF LinkLock, At
  <2>4. r.pc = "Link" /\ r.log = req[w].log /\ r.week = req[w].week /\ r.row = req[w].row
    BY <2>1, <2>3 DEF LinkReq
  <2>5. Excused(w)'
    BY <1>2, <2>2, <2>3, <2>4 DEF Excused, LinkLock, LatePcs, InChecked, InSummed
  <2>6. LinkArrives(w)
    BY <1>2, <2>2, <2>3, <2>4 DEF LinkArrives, LinkLock
  <2> QED
    BY <2>2, <2>4, <2>5, <2>6
    DEF Arrives, LockArrives, SaveArrives, CopyArrives, SumArrives, StatusArrives
<1>3. CASE LinkSum(w) /\ Done(w) /\ late' = late \ {w}
  BY <1>3, IdleArrives DEF LinkSum, At, Excused, InSummed
<1>4. CASE LinkSum(w) /\ ~ (Done(w) /\ late' = late \ {w})
  <2>1. PICK r : r = [pc |-> "Commit", log |-> req[w].log, week |-> req[w].week,
                      row |-> req[w].row,
                      sum |-> HoursWith(req[w].week, req[w].log, req[w].row)]
    OBVIOUS
  <2>2. Becomes(w, r) /\ LinkAllowed(w) /\ UNCHANGED late
    BY <1>4, <2>1 DEF LinkSum
  <2>3. Quiet(w) /\ req'[w] = r
    BY <1>4, <2>2, ReadArrives DEF LinkSum
  <2>4. Excused(w)'
    BY <1>4, <2>1, <2>2, <2>3 DEF Excused, LinkSum, LatePcs, InChecked, InSummed
  <2>5. LinkArrives(w)
    BY <1>4, <2>1, <2>2, <2>3 DEF LinkArrives, LinkSum, LinkAllowed, At
  <2> QED
    BY <2>1, <2>3, <2>4, <2>5
    DEF Arrives, LockArrives, SaveArrives, CopyArrives, SumArrives, StatusArrives
<1> QED
  BY <1>1, <1>2, <1>3, <1>4 DEF LinkLock

LEMMA ArrivesUpdate ==
  ASSUME Types, NEW w \in Request, Excused(w),
         \/ \E l \in Log, d \in Day, h \in Hours : UpdateLoad(w, l, d, h)
         \/ UpdateSave(w) \/ UpdateFind(w)
  PROVE  Arrives(w)
<1>1. ASSUME NEW l \in Log, NEW d \in Day, NEW h \in Hours, UpdateLoad(w, l, d, h)
      PROVE  Arrives(w)
  <2>1. PICK e : e = [log[l] EXCEPT !.day = d, !.hours = h]
    OBVIOUS
  <2>2. PICK r : r = [pc |-> "Save", log |-> l, week |-> log[l].week, row |-> e]
    OBVIOUS
  <2>3. Quiet(w) /\ req'[w] = r
    BY <1>1, <2>1, <2>2, ReadArrives DEF UpdateLoad
  <2>4. Excused(w)'
    BY <1>1, <2>2, <2>3 DEF Excused, UpdateLoad, LatePcs, InChecked, InSummed, At
  <2>5. e.day = d
    <3>1. PICK x \in Entry : x = log[l]
      BY <1>1, Typed DEF LogsFit, UpdateLoad
    <3>2. [x EXCEPT !.day = d, !.hours = h].day = d
      BY <1>1, ChangedEntry
    <3> QED
      BY <2>1, <3>1, <3>2
  <2>6. SaveArrives(w)
    <3>1. /\ log[l].state = "LIVE" /\ WeekOf(e.day) = thisWeek
          /\ log[l].week # 0 => sheet[log[l].week].status \notin Closed
      BY <1>1, <2>5 DEF UpdateLoad, InCurrentWeek
    <3> QED
      BY <2>2, <2>3, <3>1 DEF SaveArrives
  <2> QED
    BY <2>2, <2>3, <2>4, <2>6
    DEF Arrives, LockArrives, LinkArrives, CopyArrives, SumArrives, StatusArrives
<1>2. CASE UpdateSave(w) /\ req[w].week # 0
  <2>1. PICK r : r = [pc |-> "Total", log |-> req[w].log, week |-> req[w].week,
                      row |-> req[w].row,
                      sum |-> HoursWith(req[w].week, req[w].log, req[w].row)]
    OBVIOUS
  <2>2. Quiet(w) /\ req'[w] = r
    BY <1>2, <2>1, ReadArrives DEF UpdateSave
  <2>3. Excused(w)'
    BY <1>2, <2>1, <2>2 DEF Excused, UpdateSave, LatePcs, InChecked, InSummed
  <2>4. SaveArrives(w)
    BY <1>2, <2>1, <2>2 DEF SaveArrives, UpdateSave, At
  <2> QED
    BY <2>1, <2>2, <2>3, <2>4
    DEF Arrives, LockArrives, LinkArrives, CopyArrives, SumArrives, StatusArrives
<1>3. CASE UpdateSave(w) /\ req[w].week = 0
  <2>1. PICK r : r = [pc |-> "Find", log |-> req[w].log, row |-> req[w].row]
    OBVIOUS
  <2>2. Quiet(w) /\ req'[w] = r
    BY <1>3, <2>1, ReadArrives DEF UpdateSave
  <2>3. Excused(w)'
    BY <1>3, <2>1, <2>2 DEF Excused, UpdateSave, LatePcs, InChecked, InSummed, At
  <2>4. SaveArrives(w)
    BY <1>3, <2>1, <2>2 DEF SaveArrives, UpdateSave, At
  <2> QED
    BY <2>1, <2>2, <2>3, <2>4
    DEF Arrives, LockArrives, LinkArrives, CopyArrives, SumArrives, StatusArrives
<1>4. CASE UpdateFind(w) /\ Done(w) /\ late' = late \ {w}
  BY <1>4, IdleArrives DEF UpdateFind, At, Excused, InSummed
<1>5. CASE UpdateFind(w) /\ ~ (Done(w) /\ late' = late \ {w})
  <2>1. PICK k : k = WeekOf(req[w].row.day)
    OBVIOUS
  <2>2. PICK e : e = [req[w].row EXCEPT !.week = k]
    OBVIOUS
  <2>3. PICK r : r = [pc |-> "Lock", log |-> req[w].log, week |-> k,
                      fresh |-> sheet[k].status = "NONE", row |-> e]
    OBVIOUS
  <2>4. Becomes(w, r) /\ UNCHANGED late /\ sheet[k].status \notin Closed
    BY <1>5, <2>1, <2>2, <2>3 DEF UpdateFind
  <2>5. Quiet(w) /\ req'[w] = r
    BY <1>5, <2>4, ReadArrives DEF UpdateFind
  <2>6. Excused(w)'
    BY <1>5, <2>3, <2>4, <2>5 DEF Excused, UpdateFind, LatePcs, InChecked, InSummed, At
  <2>7. e.day = req[w].row.day
    <3>1. req[w] \in FindReq
      BY <1>5, Typed, Shape DEF UpdateFind, At
    <3>2. req[w].row \in Entry
      BY <3>1 DEF FindReq
    <3> QED
      BY <2>2, <3>2 DEF Entry
  <2>8. LockArrives(w)
    BY <1>5, <2>1, <2>3, <2>4, <2>5, <2>7 DEF LockArrives, UpdateFind, At
  <2> QED
    BY <2>3, <2>5, <2>6, <2>8
    DEF Arrives, LinkArrives, SaveArrives, CopyArrives, SumArrives, StatusArrives
<1> QED
  BY <1>1, <1>2, <1>3, <1>4, <1>5


\* One that opens a sheet.
LEMMA OpenArrives ==
  ASSUME Types, NEW w \in Request, NEW k \in Week, OpensSheet(k), NEW r, Becomes(w, r),
         UNCHANGED <<log, thisWeek, late, behind, raced, drifted, unaudited>>
  PROVE  Quiet(w) /\ req'[w] = r
<1>1. req'[w] = r /\ \A v \in Request \ {w} : req'[v] = req[v]
  BY Moves
<1>2. \A j \in Week : /\ \/ sheet'[j].status = sheet[j].status
                         \/ sheet[j].status = "NONE" /\ sheet'[j].status = "DRAFT"
                      /\ sheet'[j].last = sheet[j].last
  BY OpensFits
<1> QED
  BY <1>1, <1>2 DEF Quiet

\* One that writes a total it has read.
LEMMA TotalArrives ==
  ASSUME Types, NEW w \in Request, NEW k \in Week, NEW n \in Nat, WritesTotal(w, k, n, {}),
         UNCHANGED <<log, thisWeek, raced, unaudited>>
  PROVE  /\ w \notin behind' /\ \A v \in Request \ {w} : v \in behind' <=> v \in behind
         /\ \A j \in Week : \/ sheet'[j].status = sheet[j].status
                            \/ sheet[j].status = "NONE" /\ sheet'[j].status = "DRAFT"
         /\ \A j \in Week : sheet'[j].last = sheet[j].last
         /\ unaudited \subseteq unaudited'
<1>1. PICK J : J = {}
  OBVIOUS
<1>2. J \in SUBSET Week /\ WritesTotal(w, k, n, J)
  BY <1>1
<1>3. /\ sheet'[k].status = IF sheet[k].status = "NONE" THEN "DRAFT" ELSE sheet[k].status
      /\ sheet'[k].last = sheet[k].last
      /\ \A j \in Week \ {k} : sheet'[j] = sheet[j]
  <2>1. sheet'[k] = [status |-> IF sheet[k].status = "NONE" THEN "DRAFT" ELSE sheet[k].status,
                     total |-> n, last |-> sheet[k].last]
    BY <1>2, WritesTotalFits
  <2>2. \A j \in Week \ {k} : sheet'[j] = sheet[j]
    BY <1>2, WritesTotalFits
  <2> QED
    BY <2>1, <2>2
<1>4. behind' = (behind \cup UNION {Summed(j) : j \in J}) \ {w}
  BY <1>2 DEF WritesTotal
<1> QED
  BY <1>1, <1>3, <1>4

LEMMA ArrivesView ==
  ASSUME Types, NEW w \in Request, Excused(w), View(w)
  PROVE  Arrives(w)
<1>1. ASSUME NEW k \in Week, ViewLoad(w, k) PROVE Arrives(w)
  <2>1. PICK r : r = [pc |-> "View", week |-> k, sum |-> HoursOf(OnSheet(k))]
    OBVIOUS
  <2>2. Quiet(w) /\ req'[w] = r
    BY <1>1, <2>1, OpenArrives DEF ViewLoad
  <2>3. Excused(w)'
    BY <1>1, <2>1, <2>2 DEF Excused, ViewLoad, LatePcs, InChecked, InSummed, At
  <2>4. SumArrives(w)
    BY <2>1, <2>2 DEF SumArrives
  <2> QED
    BY <2>1, <2>2, <2>3, <2>4
    DEF Arrives, LockArrives, LinkArrives, SaveArrives, CopyArrives, StatusArrives
<1>2. CASE ViewSave(w)
  <2>1. req[w] \in ViewReq /\ req[w].pc = "View"
    BY <1>2, Typed, Shape DEF ViewSave, At
  <2>2. req[w].week \in Week /\ req[w].sum \in Nat
    BY <2>1 DEF ViewReq
  <2>3. w \notin late'
    BY <1>2, <2>1 DEF Excused, ViewSave, LatePcs, InChecked
  <2>4. /\ w \notin behind' /\ \A v \in Request \ {w} : v \in behind' <=> v \in behind
        /\ \A j \in Week : \/ sheet'[j].status = sheet[j].status
                           \/ sheet[j].status = "NONE" /\ sheet'[j].status = "DRAFT"
        /\ \A j \in Week : sheet'[j].last = sheet[j].last
        /\ unaudited \subseteq unaudited'
    BY <1>2, <2>2, TotalArrives DEF ViewSave
  <2> QED
    BY <1>2, <2>3, <2>4, IdleArrives DEF ViewSave
<1> QED
  BY <1>1, <1>2 DEF View

LEMMA ArrivesCopyOpen ==
  ASSUME Types, NEW w \in Request, Excused(w),
         (\E from, to \in Day : CopyStart(w, from, to)) \/ CopyOpen(w)
  PROVE  Arrives(w)
<1>1. ASSUME NEW from \in Day, NEW to \in Day, CopyStart(w, from, to) PROVE Arrives(w)
  <2>1. PICK k \in Week : k = WeekOf(to)
    BY WeekOfDay
  <2>2. PICK r : r = [pc |-> "CopyOpen", week |-> k, sum |-> HoursOf(OnSheet(k)),
                      from |-> from, to |-> to, open |-> sheet[k].status \notin Closed]
    OBVIOUS
  <2>3. OpensSheet(k) /\ Becomes(w, r)
    BY <1>1, <2>1, <2>2 DEF CopyStart
  <2>4. Quiet(w) /\ req'[w] = r
    BY <1>1, <2>3, OpenArrives DEF CopyStart
  <2>5. Excused(w)'
    BY <1>1, <2>2, <2>4 DEF Excused, CopyStart, LatePcs, InChecked, InSummed, At
  <2>6. SumArrives(w)
    BY <2>2, <2>4 DEF SumArrives
  <2>7. WeekOf(to) = thisWeek
    BY <1>1 DEF CopyStart, InCurrentWeek
  <2>8. CopyArrives(w)
    BY <2>1, <2>2, <2>4, <2>7 DEF CopyArrives
  <2> QED
    BY <2>2, <2>4, <2>5, <2>6, <2>8
    DEF Arrives, LockArrives, LinkArrives, SaveArrives, StatusArrives
<1>2. CASE CopyOpen(w)
  <2>1. req[w] \in OpenReq /\ req[w].pc = "CopyOpen"
    BY <1>2, Typed, Shape DEF CopyOpen, At
  <2>2. req[w].week \in Week /\ req[w].sum \in Nat
    BY <2>1 DEF OpenReq
  <2>3. w \notin late'
    BY <1>2, <2>1 DEF Excused, CopyOpen, LatePcs, InChecked
  <2>4. /\ w \notin behind' /\ \A v \in Request \ {w} : v \in behind' <=> v \in behind
        /\ \A j \in Week : \/ sheet'[j].status = sheet[j].status
                           \/ sheet[j].status = "NONE" /\ sheet'[j].status = "DRAFT"
        /\ \A j \in Week : sheet'[j].last = sheet[j].last
        /\ unaudited \subseteq unaudited'
    BY <1>2, <2>2, TotalArrives DEF CopyOpen
  <2>5. CASE Done(w)
    BY <1>2, <2>3, <2>4, <2>5, IdleArrives DEF CopyOpen
  <2>6. CASE ~ Done(w)
    <3>1. PICK T : T = {<<l, log[l].hours>> :
                          l \in {m \in Log : log[m].state = "LIVE" /\ log[m].day = req[w].from}}
      OBVIOUS
    <3>2. PICK r : r = [pc |-> "Copy", to |-> req[w].to, todo |-> T]
      OBVIOUS
    <3>3. Becomes(w, r)
      BY <1>2, <2>6, <3>1, <3>2 DEF CopyOpen
    <3>4. req'[w] = r /\ \A v \in Request \ {w} : req'[v] = req[v]
      BY <3>3, Moves
    <3>5. Quiet(w)
      BY <1>2, <2>4, <3>4 DEF Quiet, CopyOpen
    <3>6. Excused(w)'
      BY <2>3, <2>4 DEF Excused
    <3>7. CopyArrives(w)
      BY <2>1, <3>2, <3>4 DEF CopyArrives
    <3> QED
      BY <3>2, <3>4, <3>5, <3>6, <3>7
      DEF Arrives, LockArrives, LinkArrives, SaveArrives, SumArrives, StatusArrives
  <2> QED
    BY <2>5, <2>6
<1> QED
  BY <1>1, <1>2

LEMMA ArrivesCopy ==
  ASSUME Types, NEW w \in Request, Excused(w),
         CopyFind(w) \/ CopyFound(w) \/ CopySum(w) \/ CopyTotal(w)
  PROVE  Arrives(w)
<1>1. CASE CopyFind(w)
  <2>1. PICK k : k = WeekOf(req[w].to)
    OBVIOUS
  <2>2. PICK r : r = [pc |-> "CopyFound", log |-> req[w].log, to |-> req[w].to,
                      todo |-> req[w].todo, week |-> k, sum |-> HoursOf(OnSheet(k)),
                      open |-> sheet[k].status \notin Closed]
    OBVIOUS
  <2>3. r.open => sheet[k].status \notin Closed
    BY <2>2
  <2>4. Quiet(w) /\ req'[w] = r
    BY <1>1, <2>1, <2>2, ReadArrives DEF CopyFind
  <2>5. Excused(w)'
    BY <1>1, <2>2, <2>4 DEF Excused, CopyFind, LatePcs, InChecked, InSummed, At
  <2>6. SumArrives(w)
    BY <2>2, <2>4 DEF SumArrives
  <2>7. CopyArrives(w)
    <3>1. req[w].pc = "CopyFind"
      BY <1>1 DEF CopyFind, At
    <3>2. r.pc = "CopyFound" /\ r.log = req[w].log /\ r.to = req[w].to /\ r.week = WeekOf(r.to)
          /\ r.week = k
      BY <2>1, <2>2
    <3> QED
      BY <2>4, <2>3, <3>1, <3>2 DEF CopyArrives
  <2> QED
    BY <2>2, <2>4, <2>5, <2>6, <2>7
    DEF Arrives, LockArrives, LinkArrives, SaveArrives, StatusArrives
<1>2. CASE CopyFound(w)
  <2>1. req[w] \in FoundReq /\ req[w].pc = "CopyFound"
    BY <1>2, Typed, Shape DEF CopyFound, At
  <2>2. req[w].week \in Week /\ req[w].sum \in Nat
    BY <2>1 DEF FoundReq
  <2>3. /\ w \notin behind' /\ \A v \in Request \ {w} : v \in behind' <=> v \in behind
        /\ \A j \in Week : \/ sheet'[j].status = sheet[j].status
                           \/ sheet[j].status = "NONE" /\ sheet'[j].status = "DRAFT"
        /\ \A j \in Week : sheet'[j].last = sheet[j].last
        /\ unaudited \subseteq unaudited'
    BY <1>2, <2>2, TotalArrives DEF CopyFound
  <2>4. CASE Done(w) /\ late' = late \ {w}
    BY <1>2, <2>3, <2>4, IdleArrives DEF CopyFound
  <2>5. CASE ~ (Done(w) /\ late' = late \ {w})
    <3>1. PICK r : r = [pc |-> "CopyLink", log |-> req[w].log, to |-> req[w].to,
                        todo |-> req[w].todo, week |-> req[w].week]
      OBVIOUS
    <3>2. Becomes(w, r) /\ req[w].open /\ UNCHANGED late
      BY <1>2, <2>5, <3>1 DEF CopyFound
    <3>3. req'[w] = r /\ \A v \in Request \ {w} : req'[v] = req[v]
      BY <3>2, Moves
    <3>4. Quiet(w)
      BY <1>2, <2>3, <3>2, <3>3 DEF Quiet, CopyFound
    <3>5. Excused(w)'
      BY <2>3, <3>1, <3>2, <3>3 DEF Excused, LatePcs, InChecked
    <3>6. CopyArrives(w)
      BY <2>1, <3>1, <3>2, <3>3 DEF CopyArrives
    <3> QED
      BY <3>1, <3>3, <3>4, <3>5, <3>6
      DEF Arrives, LockArrives, LinkArrives, SaveArrives, SumArrives, StatusArrives
  <2> QED
    BY <2>4, <2>5
<1>3. CASE CopySum(w)
  <2>1. PICK r : r = [pc |-> "CopyTotal", to |-> req[w].to, todo |-> req[w].todo,
                      week |-> req[w].week, sum |-> HoursOf(OnSheet(req[w].week))]
    OBVIOUS
  <2>2. Quiet(w) /\ req'[w] = r
    BY <1>3, <2>1, ReadArrives DEF CopySum
  <2>3. Excused(w)'
    BY <1>3, <2>1, <2>2 DEF Excused, CopySum, LatePcs, InChecked, InSummed, At
  <2>4. SumArrives(w)
    BY <2>1, <2>2 DEF SumArrives
  <2>5. CopyArrives(w)
    BY <1>3, <2>1, <2>2 DEF CopyArrives, CopySum, At
  <2> QED
    BY <2>1, <2>2, <2>3, <2>4, <2>5
    DEF Arrives, LockArrives, LinkArrives, SaveArrives, StatusArrives
<1>4. CASE CopyTotal(w)
  <2>1. req[w] \in TotalReq /\ req[w].pc = "CopyTotal"
    BY <1>4, Typed, Shape DEF CopyTotal, At
  <2>2. req[w].week \in Week /\ req[w].sum \in Nat
    BY <2>1 DEF TotalReq
  <2>3. /\ w \notin behind' /\ \A v \in Request \ {w} : v \in behind' <=> v \in behind
        /\ \A j \in Week : \/ sheet'[j].status = sheet[j].status
                           \/ sheet[j].status = "NONE" /\ sheet'[j].status = "DRAFT"
        /\ \A j \in Week : sheet'[j].last = sheet[j].last
        /\ unaudited \subseteq unaudited'
    BY <1>4, <2>2, TotalArrives DEF CopyTotal
  <2>4. PICK r : r = [pc |-> "Copy", to |-> req[w].to, todo |-> req[w].todo]
    OBVIOUS
  <2>5. req'[w] = r /\ \A v \in Request \ {w} : req'[v] = req[v]
    BY <1>4, <2>4, Moves DEF CopyTotal
  <2>6. Quiet(w)
    BY <1>4, <2>3, <2>5 DEF Quiet, CopyTotal
  <2>7. Excused(w)'
    BY <1>4, <2>1, <2>3 DEF Excused, CopyTotal, LatePcs, InChecked
  <2>8. CopyArrives(w)
    BY <2>1, <2>4, <2>5 DEF CopyArrives
  <2> QED
    BY <2>4, <2>5, <2>6, <2>7, <2>8
    DEF Arrives, LockArrives, LinkArrives, SaveArrives, SumArrives, StatusArrives
<1> QED
  BY <1>1, <1>2, <1>3, <1>4

LEMMA ArrivesReview ==
  ASSUME Types, NEW w \in Request, Excused(w),
         \/ \E k \in Week : SubmitLoad(w, k)
         \/ \E k \in Week, r \in Reviewer, to \in {"APPROVED", "REJECTED"}, b \in BOOLEAN :
              ReviewLoad(w, k, r, to, b)
         \/ Audit(w) \/ Relabel(w)
  PROVE  Arrives(w)
<1>1. ASSUME NEW k \in Week, NEW to \in {"SUBMITTED", "APPROVED", "REJECTED"}, NEW b \in BOOLEAN,
             At(w, "Idle"),
             sheet[k].status \in IF to = "SUBMITTED" THEN Editable ELSE {"SUBMITTED"},
             Becomes(w, [pc |-> "SaveStatus", week |-> k, to |-> to, relabel |-> b]),
             UNCHANGED <<sheet, log, thisWeek, late, behind, raced, drifted, unaudited>>
      PROVE  Arrives(w)
  <2>1. PICK r : r = [pc |-> "SaveStatus", week |-> k, to |-> to, relabel |-> b]
    OBVIOUS
  <2>2. Quiet(w) /\ req'[w] = r
    BY <1>1, <2>1, ReadArrives
  <2>3. Excused(w)'
    BY <1>1, <2>1, <2>2 DEF Excused, LatePcs, InChecked, InSummed, At
  <2>4. StatusArrives(w)
    BY <1>1, <2>1, <2>2 DEF StatusArrives
  <2> QED
    BY <2>1, <2>2, <2>3, <2>4
    DEF Arrives, LockArrives, LinkArrives, SaveArrives, CopyArrives, SumArrives
<1>2. ASSUME NEW k \in Week, SubmitLoad(w, k) PROVE Arrives(w)
  BY <1>1, <1>2 DEF SubmitLoad
<1>3. ASSUME NEW k \in Week, NEW r \in Reviewer, NEW to \in {"APPROVED", "REJECTED"},
             NEW b \in BOOLEAN, ReviewLoad(w, k, r, to, b)
      PROVE  Arrives(w)
  BY <1>1, <1>3 DEF ReviewLoad
<1>4. CASE Audit(w)
  <2>1. req[w] \in StatusReq /\ req[w].pc = "Audit"
    BY <1>4, Typed, Shape DEF Audit, At
  <2>2. PICK k \in Week, t \in {"SUBMITTED", "APPROVED", "REJECTED"} :
          k = req[w].week /\ t = req[w].to
    BY <2>1 DEF StatusReq
  <2>3. \A j \in Week : sheet'[j].status = sheet[j].status
    BY <1>4, <2>2, Actioned, LastWritten DEF Audit
  <2>4. w \notin late' /\ w \notin behind'
    BY <1>4, <2>1 DEF Excused, Audit, LatePcs, InChecked, InSummed
  <2>5. CASE Done(w)
    BY <1>4, <2>1, <2>3, <2>4, <2>5, IdleArrives DEF Audit
  <2>6. CASE ~ Done(w)
    <3>1. PICK r : r = [pc |-> "Relabel", week |-> k]
      OBVIOUS
    <3>2. Becomes(w, r)
      BY <1>4, <2>2, <2>6, <3>1 DEF Audit
    <3>3. req'[w] = r /\ \A v \in Request \ {w} : req'[v] = req[v]
      BY <3>2, Moves
    <3>4. Quiet(w)
      BY <1>4, <2>1, <2>3, <3>3 DEF Quiet, Audit
    <3>5. Excused(w)'
      BY <2>4 DEF Excused
    <3> QED
      BY <3>1, <3>3, <3>4, <3>5 DEF Arrives, LockArrives, LinkArrives, SaveArrives,
         CopyArrives, SumArrives, StatusArrives
  <2> QED
    BY <2>5, <2>6
<1>5. CASE Relabel(w)
  <2>1. req[w] \in RelabelReq /\ req[w].pc = "Relabel"
    BY <1>5, Typed, Shape DEF Relabel, At
  <2>2. PICK k \in Week : k = req[w].week
    BY <2>1 DEF RelabelReq
  <2>3. \A j \in Week : sheet'[j].status = sheet[j].status
    BY <1>5, <2>2, LastWritten DEF Relabel
  <2>4. w \notin late' /\ w \notin behind'
    BY <1>5, <2>1 DEF Excused, Relabel, LatePcs, InChecked, InSummed
  <2> QED
    BY <1>5, <2>1, <2>3, <2>4, IdleArrives DEF Relabel
<1> QED
  BY <1>2, <1>3, <1>4, <1>5

LEMMA QuietArrives ==
  ASSUME Types, NEW w \in Request, Excused(w), QuietStep(w)
  PROVE  Arrives(w)
<1>1. ASSUME Die(w) PROVE Arrives(w)
  BY <1>1, IdleArrives DEF Die
<1> QED
  BY <1>1, ArrivesCreate, ArrivesLink, ArrivesUpdate, ArrivesView, ArrivesCopyOpen, ArrivesCopy,
     ArrivesReview DEF QuietStep

\* Every step is one of these, or one of a few that write entries or statuses.
LEMMA StepKinds ==
  ASSUME [Next]_vars
  PROVE  \/ \E w \in Request : QuietStep(w)
         \/ \E w \in Request : LinkCommit(w) \/ UpdateTotal(w)
         \/ \E w \in Request : CopyCreate(w)
         \/ \E w \in Request : CopyLink(w)
         \/ \E w \in Request : StatusSave(w)
         \/ \E l \in Log : LogDelete(l)
         \/ NextWeek
         \/ UNCHANGED vars
<1>1. ASSUME NEW w \in Request, Handlers(w) \/ Die(w)
      PROVE  QuietStep(w) \/ LinkCommit(w) \/ UpdateTotal(w) \/ CopyCreate(w) \/ CopyLink(w)
             \/ StatusSave(w)
  BY <1>1 DEF Handlers, Update, Link, Copy, Review, QuietStep
<1> QED
  BY <1>1 DEF Next


(***************************************************************************)
(* Locks                                                                   *)
(***************************************************************************)
SheetLock == {"Link", "Commit"}
LogLock == {"Total", "Find", "Lock", "Link", "Commit"}
LogKnown == {"Save", "Total", "Find", "CopyFind", "CopyFound", "CopyLink"}

\* A sheet's row, and an entry's, is locked by one request at a time.
Apart ==
  \A v, w \in Request : v # w =>
    /\ req[v].pc \in SheetLock /\ req[w].pc \in SheetLock => req[v].week # req[w].week
    /\ req[v].pc \in LogLock /\ req[w].pc \in LogLock => req[v].log # req[w].log

\* The entry a request has read exists.
Known(w) == req[w].pc \in LogKnown => log[req[w].log].state # "NONE"

\* The sheet a new entry is about to be committed to is open.
Guarded(w) ==
  req[w].pc = "Commit" /\ log[req[w].log].state = "NONE"
    => sheet[req[w].week].status \notin Closed

\* An entry that does not exist is on no sheet.
Unmade == \A l \in Log : log[l].state = "NONE" => log[l].week = 0

Locks ==
  /\ Types /\ Apart /\ Unmade
  /\ \A w \in Request : Excused(w) /\ Known(w) /\ Guarded(w)

\* Entry l, which no other request has locked, is written; W is the request
\* that does it.
Rewrites(l, W) ==
  /\ thisWeek' = thisWeek /\ unaudited' = unaudited
  /\ \A m \in Log \ {l} : log'[m] = log[m]
  /\ log'[l].state # "NONE"
  /\ \A v \in Request \ W :
       /\ req'[v] = req[v]
       /\ v \in late' <=> v \in late \/ v \in Holding(l)
       /\ v \in behind' <=> \/ v \in behind
                            \/ \E j \in {log[l].week, log'[l].week} \ {0} : v \in Summed(j)
       /\ req[v].pc \in LogLock => req[v].log # l
  /\ \A k \in Week : \/ sheet'[k].status = sheet[k].status
                     \/ sheet[k].status = "NONE" /\ sheet'[k].status = "DRAFT"
  /\ \A k \in Week : sheet'[k].last = sheet[k].last

\* Nothing is locked that was not locked before.
LEMMA ApartKept ==
  ASSUME Apart, \A v \in Request : req'[v] = req[v] \/ req'[v].pc \notin LogLock
  PROVE  Apart'
  BY DEF Apart, SheetLock, LogLock

LEMMA ApartQuiet ==
  ASSUME Locks, NEW w \in Request, Arrives(w)
  PROVE  Apart'
<1>1. \A v \in Request \ {w} : req'[v] = req[v]
  BY DEF Arrives, Quiet
<1>2. CASE req'[w].pc = "Lock"
  <2>1. \A v \in Request \ {w} : req[v].pc \in LogLock => req[v].log # req'[w].log
    <3>1. CASE log[req'[w].log].state = "NONE" /\ ~ Reserved(req'[w].log)
      BY <3>1 DEF Locks, Known, LogKnown, LogLock, Reserved
    <3>2. CASE req[w].pc = "Find" /\ req'[w].log = req[w].log
      BY <3>2 DEF Locks, Apart, LogLock
    <3> QED
      BY <1>2, <3>1, <3>2 DEF Arrives, LockArrives
  <2> QED
    BY <1>1, <1>2, <2>1 DEF Locks, Apart, SheetLock, LogLock
<1>3. CASE req'[w].pc = "Link"
  <2>1. /\ \A v \in Request \ {w} : req[v].pc \in LogLock => req[v].log # req'[w].log
        /\ \A v \in Request \ {w} : req[v].pc \in SheetLock => req[v].week # req'[w].week
    BY <1>3 DEF Arrives, LinkArrives, Locks, Apart, LogLock, SheetLock, Locked
  <2> QED
    BY <1>1, <1>3, <2>1 DEF Locks, Apart, SheetLock, LogLock
<1>4. CASE req'[w].pc = "Commit"
  <2>1. /\ \A v \in Request \ {w} : req[v].pc \in LogLock => req[v].log # req'[w].log
        /\ \A v \in Request \ {w} : req[v].pc \in SheetLock => req[v].week # req'[w].week
    BY <1>4 DEF Arrives, LinkArrives, Locks, Apart, LogLock, SheetLock
  <2> QED
    BY <1>1, <1>4, <2>1 DEF Locks, Apart, SheetLock, LogLock
<1>5. CASE req'[w].pc \in {"Total", "Find"}
  <2>1. \A v \in Request \ {w} : req[v].pc \in LogLock => req[v].log # req'[w].log
    BY <1>5 DEF Arrives, SaveArrives, LogLock, LogLocked
  <2> QED
    BY <1>1, <1>5, <2>1 DEF Locks, Apart, SheetLock, LogLock
<1>6. CASE req'[w].pc \notin LogLock
  BY <1>1, <1>6, ApartKept DEF Locks
<1> QED
  BY <1>2, <1>3, <1>4, <1>5, <1>6 DEF LogLock

\* What a quiet step keeps ...
LEMMA LocksQuiet ==
  ASSUME Locks, NEW w \in Request, QuietStep(w), Types'
  PROVE  Locks'
<1>1. Arrives(w)
  BY QuietArrives DEF Locks
<1>2. Apart'
  BY <1>1, ApartQuiet
<1>3. Unmade'
  BY <1>1 DEF Locks, Arrives, Quiet, Unmade
<1>4. ASSUME NEW v \in Request \ {w} PROVE Excused(v)' /\ Known(v)' /\ Guarded(v)'
  <2>1. Excused(v)' /\ Known(v)'
    BY <1>1 DEF Locks, Arrives, Quiet, Excused, Known
  <2>2. Guarded(v)'
    <3>1. req[v].pc = "Commit" => req[v].week \in Week
      BY Typed, Shape DEF Locks, SumReq
    <3> QED
      BY <1>1, <3>1 DEF Locks, Arrives, Quiet, Guarded, Closed
  <2> QED
    BY <2>1, <2>2
<1>5. Excused(w)'
  BY <1>1 DEF Arrives
<1>6. Known(w)'
  BY <1>1 DEF Locks, Arrives, Quiet, Known, LogKnown, SaveArrives, CopyArrives
<1>7. Guarded(w)'
  <2> SUFFICES ASSUME req'[w].pc = "Commit" PROVE Guarded(w)'
    BY DEF Guarded
  <2>1. req'[w] \in SumReq
    BY Shape DEF Types
  <2>2. req'[w].week \in Week
    BY <2>1 DEF SumReq
  <2> QED
    BY <1>1, <2>2 DEF Arrives, Quiet, LinkArrives, Guarded, Closed
<1> QED
  BY <1>2, <1>3, <1>4, <1>5, <1>6, <1>7 DEF Locks

\* ... and what the writing of an entry keeps.
LEMMA LocksRewrite ==
  ASSUME Locks, Types', NEW l \in Log, NEW W, Rewrites(l, W),
         \A w \in W \cap Request : /\ req'[w].pc \notin LogLock
                                   /\ Excused(w)' /\ Known(w)'
  PROVE  Locks'
<1>1. Apart'
  BY ApartKept DEF Locks, Rewrites
<1>2. Unmade'
  BY DEF Locks, Rewrites, Unmade
<1>3. ASSUME NEW v \in Request \ W PROVE Excused(v)' /\ Known(v)' /\ Guarded(v)'
  <2>1. Excused(v)'
    BY DEF Locks, Rewrites, Excused, LatePcs, InChecked, Holding, Summed
  <2>2. Known(v)'
    <3>1. req[v].pc \in LogKnown => req[v].log \in Log
      BY Typed, Shape DEF Locks, LogKnown, SaveReq, SumReq, FindReq, CopiedReq, FoundReq, LinkedReq
    <3> QED
      BY <3>1 DEF Locks, Rewrites, Known
  <2>3. Guarded(v)'
    <3>1. req[v].pc = "Commit" => req[v].week \in Week /\ req[v].log \in Log
      BY Typed, Shape DEF Locks, SumReq
    <3> QED
      BY <3>1 DEF Locks, Rewrites, Guarded, Closed, LogLock
  <2> QED
    BY <2>1, <2>2, <2>3
<1>4. \A w \in W \cap Request : Guarded(w)'
  BY DEF Guarded, LogLock
<1> QED
  BY <1>1, <1>2, <1>3, <1>4 DEF Locks


\* The commit of an entry writes an entry.
LEMMA CommitRewrites ==
  ASSUME Locks, NEW w \in Request, LinkCommit(w) \/ UpdateTotal(w)
  PROVE  /\ Rewrites(req[w].log, {w}) /\ req[w] \in SumReq
         /\ log'[req[w].log] = req[w].row /\ req[w].row.week = req[w].week
         /\ WritesTotal(w, req[w].week, req[w].sum, Touched(req[w].log, req[w].week))
         /\ Touched(req[w].log, req[w].week) \in SUBSET Week
         /\ req'[w] = [pc |-> "Idle"] /\ w \notin late' /\ w \notin behind'
<1>1. /\ req[w] \in SumReq /\ req[w].row.week = req[w].week
      /\ At(w, "Commit") \/ At(w, "Total")
  BY Typed, Shape DEF Locks, LinkCommit, UpdateTotal, At, RowFits
<1>2. PICK l, k, e, n : l = req[w].log /\ k = req[w].week /\ e = req[w].row /\ n = req[w].sum
  OBVIOUS
<1>3. l \in Log /\ k \in Week /\ e \in Entry /\ n \in Nat /\ e.week = k
  BY <1>1, <1>2 DEF SumReq
<1>4. /\ log' = [log EXCEPT ![l] = e] /\ WritesTotal(w, k, n, Touched(l, k)) /\ Done(w)
      /\ late' = (late \cup Holding(l)) \ {w} /\ UNCHANGED <<thisWeek, raced, unaudited>>
  BY <1>2 DEF LinkCommit, UpdateTotal
<1>5. log'[l] = e /\ \A m \in Log \ {l} : log'[m] = log[m]
  BY <1>3, <1>4, Typed DEF Locks
<1>6. Touched(l, k) \in SUBSET Week
  BY <1>3, Weeks0, TouchedFits DEF Locks
<1>7. /\ sheet'[k] = [status |-> IF sheet[k].status = "NONE" THEN "DRAFT" ELSE sheet[k].status,
                      total |-> n, last |-> sheet[k].last]
      /\ \A j \in Week \ {k} : sheet'[j] = sheet[j]
  BY <1>3, <1>4, <1>6, WritesTotalFits DEF Locks
<1>8. \A j \in Week : /\ \/ sheet'[j].status = sheet[j].status
                         \/ sheet[j].status = "NONE" /\ sheet'[j].status = "DRAFT"
                      /\ sheet'[j].last = sheet[j].last
  <2>1. /\ sheet'[k].status = IF sheet[k].status = "NONE" THEN "DRAFT" ELSE sheet[k].status
        /\ sheet'[k].last = sheet[k].last
    BY <1>7
  <2> QED
    BY <1>7, <2>1
<1>9. \A v \in Request \ {w} :
        v \in behind' <=> \/ v \in behind
                          \/ \E j \in {log[l].week, log'[l].week} \ {0} : v \in Summed(j)
  <2>1. behind' = (behind \cup UNION {Summed(j) : j \in {log[l].week, k} \ {0}}) \ {w}
    BY <1>4 DEF WritesTotal, Touched
  <2> QED
    BY <1>3, <1>5, <2>1
<1>10. \A v \in Request \ {w} : req[v].pc \in LogLock => req[v].log # l
  BY <1>1, <1>2 DEF Locks, Apart, LogLock, At
<1>11. req'[w] = [pc |-> "Idle"] /\ \A v \in Request \ {w} : req'[v] = req[v]
  BY <1>4, Finishes DEF Locks
<1>12. w \notin late' /\ w \notin behind'
  BY <1>4 DEF WritesTotal
<1>13. log'[l].state # "NONE"
  BY <1>3, <1>5 DEF Entry
<1>14. Rewrites(l, {w})
  BY <1>4, <1>5, <1>8, <1>9, <1>10, <1>11, <1>13 DEF Rewrites
<1> QED
  BY <1>1, <1>2, <1>4, <1>5, <1>6, <1>11, <1>12, <1>14

\* So does a deletion ...
LEMMA DeleteRewrites ==
  ASSUME Locks, NEW l \in Log, LogDelete(l)
  PROVE  /\ Rewrites(l, {}) /\ UNCHANGED sheet
         /\ log'[l].state = "DELETED" /\ log'[l].week = log[l].week
         /\ log'[l].day = log[l].day /\ log'[l].hours = log[l].hours
         /\ drifted \subseteq drifted'
         /\ log[l].week # 0 => log[l].week \in drifted'
<1>1. log \in [Log -> LogRow] /\ log[l] \in LogRow
  BY Typed DEF Locks
<1>2. PICK e : e = [log[l] EXCEPT !.state = "DELETED"]
  OBVIOUS
<1>3. log'[l] = e /\ \A m \in Log \ {l} : log'[m] = log[m]
  BY <1>1, <1>2 DEF LogDelete
<1>4. e.state = "DELETED" /\ e.week = log[l].week /\ e.day = log[l].day /\ e.hours = log[l].hours
  BY <1>1, <1>2 DEF LogRow
<1>5. \A v \in Request :
        v \in behind' <=> \/ v \in behind
                          \/ \E j \in {log[l].week, log'[l].week} \ {0} : v \in Summed(j)
  BY <1>3, <1>4 DEF LogDelete
<1>6. \A v \in Request : req[v].pc \in LogLock => req[v].log # l
  BY DEF LogDelete, LogLocked, LogLock
<1>7. Rewrites(l, {})
  BY <1>3, <1>4, <1>5, <1>6 DEF Rewrites, LogDelete
<1> QED
  BY <1>3, <1>4, <1>7 DEF LogDelete

\* ... and a copy, when it makes its entry and when it links it.
LEMMA CopyRewrites ==
  ASSUME Locks, NEW w \in Request, CopyCreate(w)
  PROVE  \/ Done(w) /\ UNCHANGED <<log, sheet, thisWeek, late, behind, raced, drifted, unaudited>>
            /\ w \notin late' /\ w \notin behind'
         \/ \E n \in Log :
              /\ Rewrites(n, {w}) /\ UNCHANGED <<sheet, late, behind, raced, drifted>>
              /\ log[n].state = "NONE"
              /\ log'[n].week = 0 /\ log'[n].day = req[w].to /\ log'[n].state = "LIVE"
              /\ req'[w].pc = "CopyFind" /\ req'[w].log = n /\ req'[w].to = req[w].to
              /\ req[w] \in CopyReq
              /\ w \notin late' /\ w \notin behind'
<1>1. req[w] \in CopyReq /\ req[w].pc = "Copy"
  BY Typed, Shape DEF Locks, CopyCreate, At
<1>2. w \notin late /\ w \notin behind
  BY <1>1 DEF Locks, Excused, LatePcs, InChecked, InSummed
<1>3. CASE Done(w) /\ UNCHANGED log
  BY <1>2, <1>3 DEF CopyCreate
<1>4. ASSUME NEW src \in req[w].todo, NEW n \in Log, log[n].state = "NONE", ~ Reserved(n),
             log' = [log EXCEPT ![n] = [state |-> "LIVE", day |-> req[w].to,
                                        hours |-> src[2], week |-> 0]],
             Becomes(w, [pc |-> "CopyFind", log |-> n, to |-> req[w].to,
                         todo |-> req[w].todo \ {src}])
      PROVE  /\ Rewrites(n, {w})
             /\ log'[n].week = 0 /\ log'[n].day = req[w].to /\ log'[n].state = "LIVE"
             /\ req'[w].pc = "CopyFind" /\ req'[w].log = n /\ req'[w].to = req[w].to
  <2>1. PICK e : e = [state |-> "LIVE", day |-> req[w].to, hours |-> src[2], week |-> 0]
    OBVIOUS
  <2>2. log'[n] = e /\ \A m \in Log \ {n} : log'[m] = log[m]
    BY <1>4, <2>1, Typed DEF Locks
  <2>3. PICK r : r = [pc |-> "CopyFind", log |-> n, to |-> req[w].to,
                      todo |-> req[w].todo \ {src}]
    OBVIOUS
  <2>4. req'[w] = r /\ \A v \in Request \ {w} : req'[v] = req[v]
    BY <1>4, <2>3, Moves DEF Locks
  <2>5. UNCHANGED <<sheet, thisWeek, late, behind, raced, drifted, unaudited>>
    BY DEF CopyCreate
  <2>6. log[n].week = 0 /\ e.week = 0 /\ e.state = "LIVE" /\ e.day = req[w].to
    BY <1>4, <2>1 DEF Locks, Unmade
  <2>7. \A v \in Request : v \notin Holding(n)
    BY <1>4 DEF Locks, Known, Holding, LogKnown
  <2>8. \A v \in Request \ {w} : req[v].pc \in LogLock => req[v].log # n
    BY <1>4 DEF Locks, Known, Reserved, LogKnown, LogLock
  <2>9. {log[n].week, log'[n].week} \ {0} = {}
    BY <2>2, <2>6
  <2>10. Rewrites(n, {w})
    BY <2>2, <2>4, <2>5, <2>6, <2>7, <2>8, <2>9 DEF Rewrites
  <2> QED
    BY <2>2, <2>3, <2>4, <2>6, <2>10
<1>5. CASE \E src \in req[w].todo, n \in Log :
             /\ log[n].state = "NONE" /\ ~ Reserved(n)
             /\ log' = [log EXCEPT ![n] = [state |-> "LIVE", day |-> req[w].to,
                                           hours |-> src[2], week |-> 0]]
             /\ Becomes(w, [pc |-> "CopyFind", log |-> n, to |-> req[w].to,
                            todo |-> req[w].todo \ {src}])
  <2>1. UNCHANGED <<sheet, late, behind, raced, drifted>>
    BY DEF CopyCreate
  <2> QED
    BY <1>1, <1>2, <1>4, <1>5, <2>1
<1> QED
  BY <1>3, <1>5 DEF CopyCreate

LEMMA LinkRewrites ==
  ASSUME Locks, NEW w \in Request, CopyLink(w)
  PROVE  /\ req[w] \in LinkedReq /\ req[w].pc = "CopyLink"
         /\ Rewrites(req[w].log, {w}) /\ UNCHANGED sheet
         /\ log[req[w].log].state # "NONE"
         /\ log'[req[w].log].state = log[req[w].log].state
         /\ log'[req[w].log].day = log[req[w].log].day
         /\ log'[req[w].log].hours = log[req[w].log].hours
         /\ log'[req[w].log].week = req[w].week
         /\ req'[w].pc = "CopySum" /\ req'[w].to = req[w].to /\ req'[w].week = req[w].week
         /\ req'[w].log = req[w].log
         /\ drifted' = drifted \cup (Touched(req[w].log, req[w].week) \ {req[w].week})
         /\ w \notin late' /\ w \notin behind'
<1>1. req[w] \in LinkedReq /\ req[w].pc = "CopyLink"
  BY Typed, Shape DEF Locks, CopyLink, At
<1>2. PICK l, k : l = req[w].log /\ k = req[w].week
  OBVIOUS
<1>3. l \in Log /\ k \in Week /\ k # 0
  BY <1>1, <1>2, Weeks0 DEF LinkedReq
<1>4. log \in [Log -> LogRow] /\ log[l] \in LogRow
  BY <1>3, Typed DEF Locks
<1>5. PICK e : e = [log[l] EXCEPT !.week = k]
  OBVIOUS
<1>6. log'[l] = e /\ \A m \in Log \ {l} : log'[m] = log[m]
  BY <1>2, <1>3, <1>4, <1>5 DEF CopyLink
<1>7. e.state = log[l].state /\ e.week = k /\ e.day = log[l].day /\ e.hours = log[l].hours
  BY <1>4, <1>5 DEF LogRow
<1>8. log[l].state # "NONE"
  BY <1>1, <1>2 DEF Locks, Known, LogKnown
<1>9. PICK r : r = [req[w] EXCEPT !.pc = "CopySum"]
  OBVIOUS
<1>10. req'[w] = r /\ \A v \in Request \ {w} : req'[v] = req[v]
  BY <1>9, Moves DEF Locks, CopyLink
<1>11. r.pc = "CopySum" /\ r.to = req[w].to /\ r.week = req[w].week /\ r.log = req[w].log
  BY <1>1, <1>9 DEF LinkedReq
<1>12. /\ behind' = behind \cup UNION {Summed(j) : j \in Touched(l, k)}
       /\ drifted' = drifted \cup (Touched(l, k) \ {k})
       /\ late' = (late \cup Holding(l)) \ {w}
       /\ UNCHANGED <<sheet, thisWeek, raced, unaudited>>
  BY <1>2 DEF CopyLink
<1>13. \A v \in Request \ {w} :
         v \in behind' <=> \/ v \in behind
                           \/ \E j \in {log[l].week, log'[l].week} \ {0} : v \in Summed(j)
  BY <1>6, <1>7, <1>12 DEF Touched
<1>14. w \notin late' /\ w \notin behind'
  BY <1>1, <1>12 DEF Locks, Excused, Summed, InSummed
<1>15. \A v \in Request \ {w} : req[v].pc \in LogLock => req[v].log # l
  BY <1>2 DEF CopyLink, LogLocked, LogLock
<1>16. Rewrites(l, {w})
  BY <1>6, <1>7, <1>8, <1>10, <1>12, <1>13, <1>15 DEF Rewrites
<1> QED
  BY <1>1, <1>2, <1>6, <1>7, <1>8, <1>10, <1>11, <1>12, <1>14, <1>16


\* A status is saved.
LEMMA StatusDecides ==
  ASSUME Types, NEW w \in Request, StatusSave(w)
  PROVE  /\ req[w] \in StatusReq /\ req[w].pc = "SaveStatus" /\ req[w].week \in Week
         /\ UNCHANGED <<log, thisWeek, behind, drifted>>
         /\ \A v \in Request \ {w} : req'[v] = req[v]
         /\ req'[w].pc = "Audit" /\ req'[w].week = req[w].week /\ req'[w].to = req[w].to
         /\ \A j \in Week \ {req[w].week} : sheet'[j] = sheet[j]
         /\ sheet'[req[w].week].status = req[w].to
         /\ sheet'[req[w].week].total = sheet[req[w].week].total
         /\ sheet'[req[w].week].last = sheet[req[w].week].last
         /\ ~ Locked(req[w].week)
         /\ late' = (late \cup Checked(req[w].week)) \ {w}
         /\ raced \subseteq raced'
         /\ w \in late => req[w].week \in raced'
         /\ unaudited \subseteq unaudited'
         /\ \A v \in Request : At(v, "Audit") /\ req[v].week = req[w].week
              => req[w].week \in unaudited'
<1>1. req[w] \in StatusReq /\ req[w].pc = "SaveStatus" /\ req[w].week \in Week
  BY Typed, Shape DEF StatusSave, At, StatusReq
<1>2. /\ \A j \in Week \ {req[w].week} : sheet'[j] = sheet[j]
      /\ sheet'[req[w].week].status = req[w].to
      /\ sheet'[req[w].week].total = sheet[req[w].week].total
      /\ sheet'[req[w].week].last = sheet[req[w].week].last
  BY StatusWritten
<1>3. PICK r : r = [req[w] EXCEPT !.pc = "Audit"]
  OBVIOUS
<1>4. req'[w] = r /\ \A v \in Request \ {w} : req'[v] = req[v]
  BY <1>3, Moves DEF StatusSave
<1>5. r.pc = "Audit" /\ r.week = req[w].week /\ r.to = req[w].to
  BY <1>1, <1>3 DEF StatusReq
<1>6. /\ UNCHANGED <<log, thisWeek, behind, drifted>> /\ ~ Locked(req[w].week)
      /\ late' = (late \cup Checked(req[w].week)) \ {w}
  BY DEF StatusSave
<1>7. /\ raced \subseteq raced'
      /\ w \in late => req[w].week \in raced'
  BY DEF StatusSave
<1>8. /\ unaudited \subseteq unaudited'
      /\ \A v \in Request : At(v, "Audit") /\ req[v].week = req[w].week
           => req[w].week \in unaudited'
  BY DEF StatusSave
<1> QED
  BY <1>1, <1>2, <1>4, <1>5, <1>6, <1>7, <1>8

LEMMA LocksStatus ==
  ASSUME Locks, Types', NEW w \in Request, StatusSave(w)
  PROVE  Locks'
<1> USE StatusDecides DEF Locks
<1>1. Apart'
  BY ApartKept DEF LogLock
<1>2. Unmade'
  BY DEF Unmade
<1>3. ASSUME NEW v \in Request \ {w} PROVE Excused(v)' /\ Known(v)' /\ Guarded(v)'
  <2>1. Excused(v)' /\ Known(v)'
    BY DEF Excused, Known, LatePcs, Checked
  <2>2. Guarded(v)'
    <3>1. req[v].pc = "Commit" => req[v].week \in Week /\ req[v].week # req[w].week
      BY Typed, Shape DEF SumReq, Locked
    <3> QED
      BY <3>1 DEF Guarded
  <2> QED
    BY <2>1, <2>2
<1>4. Excused(w)' /\ Known(w)' /\ Guarded(w)'
  BY DEF Excused, Known, Guarded, LogKnown, InSummed
<1> QED
  BY <1>1, <1>2, <1>3, <1>4

\* Locks is inductive.
LEMMA LocksStep ==
  ASSUME Locks, [Next]_vars
  PROVE  Locks'
<1>1. Types'
  BY TypesStep DEF Locks
<1>2. ASSUME NEW w \in Request, QuietStep(w) PROVE Locks'
  BY <1>1, <1>2, LocksQuiet
<1>3. ASSUME NEW w \in Request, LinkCommit(w) \/ UpdateTotal(w) PROVE Locks'
  <2>1. /\ Rewrites(req[w].log, {w}) /\ req[w] \in SumReq
        /\ req'[w] = [pc |-> "Idle"] /\ w \notin late' /\ w \notin behind'
    BY <1>3, CommitRewrites
  <2>2. req'[w].pc \notin LogLock /\ Excused(w)' /\ Known(w)'
    BY <2>1 DEF LogLock, Excused, Known, LogKnown
  <2>3. req[w].log \in Log
    BY <2>1 DEF SumReq
  <2> QED
    BY <1>1, <2>1, <2>2, <2>3, LocksRewrite
<1>4. ASSUME NEW w \in Request, CopyCreate(w) PROVE Locks'
  <2>1. CASE Done(w) /\ UNCHANGED <<log, sheet, thisWeek, late, behind, raced, drifted, unaudited>>
             /\ w \notin late' /\ w \notin behind'
    <3>1. req'[w].pc = "Idle" /\ \A v \in Request \ {w} : req'[v] = req[v]
      BY <2>1, Finishes DEF Locks
    <3>2. Apart'
      BY <3>1, ApartKept DEF Locks, LogLock
    <3>3. \A v \in Request : Excused(v)' /\ Known(v)' /\ Guarded(v)'
      BY <2>1, <3>1 DEF Locks, Excused, Known, Guarded, LogKnown
    <3> QED
      BY <1>1, <2>1, <3>2, <3>3 DEF Locks, Unmade
  <2>2. ASSUME NEW n \in Log, Rewrites(n, {w}), log'[n].state = "LIVE",
               req'[w].pc = "CopyFind", req'[w].log = n, w \notin late', w \notin behind'
        PROVE  Locks'
    <3>1. req'[w].pc \notin LogLock /\ Excused(w)' /\ Known(w)'
      BY <2>2 DEF LogLock, Excused, Known
    <3> QED
      BY <1>1, <2>2, <3>1, LocksRewrite
  <2> QED
    BY <1>4, <2>1, <2>2, CopyRewrites
<1>5. ASSUME NEW w \in Request, CopyLink(w) PROVE Locks'
  <2>1. /\ req[w] \in LinkedReq /\ Rewrites(req[w].log, {w}) /\ req'[w].pc = "CopySum"
        /\ w \notin late' /\ w \notin behind'
    BY <1>5, LinkRewrites
  <2>2. req'[w].pc \notin LogLock /\ Excused(w)' /\ Known(w)'
    BY <2>1 DEF LogLock, Excused, Known, LogKnown
  <2>3. req[w].log \in Log
    BY <2>1 DEF LinkedReq
  <2> QED
    BY <1>1, <2>1, <2>2, <2>3, LocksRewrite
<1>6. ASSUME NEW w \in Request, StatusSave(w) PROVE Locks'
  BY <1>1, <1>6, LocksStatus
<1>7. ASSUME NEW l \in Log, LogDelete(l) PROVE Locks'
  <2>1. Rewrites(l, {})
    BY <1>7, DeleteRewrites
  <2> QED
    BY <1>1, <2>1, LocksRewrite
<1>8. CASE NextWeek \/ UNCHANGED vars
  <2>1. UNCHANGED <<sheet, log, req, late, behind>>
    BY <1>8 DEF NextWeek, vars
  <2>2. Apart' /\ Unmade' /\ \A w \in Request : Excused(w)' /\ Known(w)' /\ Guarded(w)'
    BY <2>1 DEF Locks, Apart, Unmade, Excused, Known, Guarded
  <2> QED
    BY <1>1, <2>2 DEF Locks
<1> QED
  BY <1>2, <1>3, <1>4, <1>5, <1>6, <1>7, <1>8, StepKinds

LEMMA LocksInit == Init => Locks
<1> SUFFICES ASSUME Init PROVE Locks
  OBVIOUS
<1>1. Types
  BY TypesInit
<1>2. \A w \in Request : req[w].pc = "Idle" /\ w \notin late /\ w \notin behind
  BY DEF Init
<1>3. Apart /\ \A w \in Request : Excused(w) /\ Known(w) /\ Guarded(w)
  BY <1>2 DEF Apart, Excused, Known, Guarded, SheetLock, LogLock, LogKnown
<1>4. Unmade
  BY DEF Unmade, Init, NoLog
<1> QED
  BY <1>1, <1>3, <1>4 DEF Locks


(***************************************************************************)
(* What a request has checked                                              *)
(***************************************************************************)
\* What a request has read of an entry's sheet, and of a sheet's status, still
\* holds, unless the request has been made late.
EntryChecked(w) ==
  /\ req[w].pc \in {"Save", "Total"} => log[req[w].log].week = req[w].week
  /\ req[w].pc \in {"Find", "Lock", "Link", "Commit", "CopyFind", "CopyFound", "CopyLink"}
       => log[req[w].log].week = 0
SheetChecked(w) ==
  \/ req[w].pc \in {"Save", "Total"} /\ req[w].week # 0
  \/ req[w].pc \in {"Lock", "Link", "Commit", "CopyLink"}
  \/ req[w].pc = "CopyFound" /\ req[w].open
  => sheet[req[w].week].status \notin Closed
StatusChecked(w) ==
  req[w].pc = "SaveStatus" =>
    sheet[req[w].week].status \in IF req[w].to = "SUBMITTED" THEN Editable ELSE {"SUBMITTED"}
Checks(w) == w \notin late => EntryChecked(w) /\ SheetChecked(w) /\ StatusChecked(w)

\* Those that have checked a sheet have one, and an entry.
LEMMA CheckedHave ==
  ASSUME Types, NEW w \in Request
  PROVE  /\ req[w].pc \in InChecked /\ req[w].pc # "Save" => req[w].week \in Week
         /\ req[w].pc = "Save" /\ req[w].week # 0 => req[w].week \in Week
         /\ req[w].pc \in LogLock \cup LogKnown => req[w].log \in Log
<1>1. req[w] \in Req
  BY Typed
<1>2. req[w].pc = "Save" => req[w].week \in 0..LastWeek
  BY <1>1, Shape DEF SaveReq
<1> QED
  BY <1>1, <1>2, Shape, Weeks0
  DEF InChecked, LogLock, LogKnown, SaveReq, SumReq, FindReq, LinkReq, CopiedReq, FoundReq,
      LinkedReq, StatusReq

\* The same after a step.
CheckedHaveAll ==
  Types => \A w \in Request :
    /\ req[w].pc \in InChecked /\ req[w].pc # "Save" => req[w].week \in Week
    /\ req[w].pc = "Save" /\ req[w].week # 0 => req[w].week \in Week
    /\ req[w].pc \in LogLock \cup LogKnown => req[w].log \in Log

LEMMA CheckedHaveThen == CheckedHaveAll'
<1>1. CheckedHaveAll
  BY CheckedHave DEF CheckedHaveAll
<1> QED
  BY <1>1, PTL

LEMMA ChecksQuiet ==
  ASSUME Locks, Locks', \A v \in Request : Checks(v), NEW w \in Request, QuietStep(w)
  PROVE  \A v \in Request : Checks(v)'
<1>1. Arrives(w)
  BY QuietArrives DEF Locks
<1>2. ASSUME NEW v \in Request \ {w} PROVE Checks(v)'
  <2>1. req'[v] = req[v] /\ log' = log /\ (v \in late' <=> v \in late)
    BY <1>1 DEF Arrives, Quiet
  <2>2. EntryChecked(v) => EntryChecked(v)'
    BY <2>1 DEF EntryChecked
  <2>3. /\ SheetChecked(v) => SheetChecked(v)'
        /\ StatusChecked(v) => StatusChecked(v)'
    BY <1>1, <2>1, CheckedHave
    DEF SheetChecked, StatusChecked, Arrives, Quiet, Locks, InChecked, Closed, Editable
  <2> QED
    BY <2>1, <2>2, <2>3 DEF Checks
<1>3. Checks(w)'
  <2> SUFFICES ASSUME w \notin late', req'[w].pc # "Idle"
               PROVE  EntryChecked(w)' /\ SheetChecked(w)' /\ StatusChecked(w)'
    BY DEF Checks, EntryChecked, SheetChecked, StatusChecked
  <2>1. EntryChecked(w) /\ SheetChecked(w) /\ log' = log
    BY <1>1 DEF Checks, Arrives, Quiet
  <2>2. EntryChecked(w)'
    <3>1. CASE req'[w].pc \in {"Lock", "Link", "Commit"}
      BY <1>1, <2>1, <3>1, CheckedHaveThen
      DEF EntryChecked, Arrives, LockArrives, LinkArrives, Locks, Unmade, CheckedHaveAll, LogLock
    <3>2. CASE req'[w].pc \in {"Save", "Total", "Find"}
      BY <1>1, <2>1, <3>2 DEF EntryChecked, Arrives, SaveArrives
    <3>3. CASE req'[w].pc \in {"CopyFind", "CopyFound", "CopyLink"}
      BY <1>1, <2>1, <3>3 DEF EntryChecked, Arrives, CopyArrives
    <3> QED
      BY <3>1, <3>2, <3>3 DEF EntryChecked
  <2>3. \A k \in Week : sheet[k].status \notin Closed => sheet'[k].status \notin Closed
    BY <1>1 DEF Arrives, Quiet, Closed
  <2>4. SheetChecked(w)'
    <3>1. CASE req'[w].pc \in {"Lock", "Link", "Commit"}
      <4>1. req'[w].week \in Week
        BY <3>1, CheckedHaveThen DEF CheckedHaveAll, Locks, InChecked
      <4>2. sheet[req'[w].week].status \notin Closed
        BY <1>1, <2>1, <3>1 DEF SheetChecked, Arrives, LockArrives, LinkArrives
      <4> QED
        BY <2>3, <4>1, <4>2 DEF SheetChecked
    <3>2. CASE req'[w].pc \in {"Save", "Total"} /\ req'[w].week # 0
      <4>1. req'[w].week \in Week
        BY <3>2, CheckedHaveThen DEF CheckedHaveAll, Locks, InChecked
      <4>2. sheet[req'[w].week].status \notin Closed
        BY <1>1, <2>1, <3>2 DEF SheetChecked, Arrives, SaveArrives
      <4> QED
        BY <2>3, <4>1, <4>2 DEF SheetChecked
    <3>3. CASE req'[w].pc = "CopyLink" \/ (req'[w].pc = "CopyFound" /\ req'[w].open)
      <4>1. req'[w].week \in Week
        BY <3>3, CheckedHaveThen DEF CheckedHaveAll, Locks, InChecked
      <4>2. sheet[req'[w].week].status \notin Closed
        BY <1>1, <2>1, <3>3 DEF SheetChecked, Arrives, CopyArrives
      <4> QED
        BY <2>3, <4>1, <4>2 DEF SheetChecked
    <3> QED
      BY <3>1, <3>2, <3>3 DEF SheetChecked
  <2>5. StatusChecked(w)'
    <3> SUFFICES ASSUME req'[w].pc = "SaveStatus" PROVE StatusChecked(w)'
      BY DEF StatusChecked
    <3>1. req'[w].week \in Week
      BY CheckedHaveThen DEF CheckedHaveAll, Locks, InChecked
    <3> QED
      BY <1>1, <3>1 DEF StatusChecked, StatusArrives, Arrives, Quiet, Editable
  <2> QED
    BY <2>2, <2>4, <2>5
<1> QED
  BY <1>2, <1>3

LEMMA ChecksRewrite ==
  ASSUME Locks, \A v \in Request : Checks(v), NEW l \in Log, NEW W, Rewrites(l, W),
         \A w \in W \cap Request : Checks(w)'
  PROVE  \A v \in Request : Checks(v)'
<1>1. ASSUME NEW v \in Request \ W, v \notin late' PROVE Checks(v)'
  <2>1. /\ req'[v] = req[v] /\ v \notin late /\ v \notin Holding(l)
        /\ req[v].pc \in LogLock => req[v].log # l
    BY <1>1 DEF Rewrites
  <2>2. req[v].pc \in LogLock \cup LogKnown => req[v].log \in Log \ {l}
    BY <2>1, CheckedHave DEF Locks, Holding, LogKnown, LogLock
  <2>3. EntryChecked(v)'
    <3>1. EntryChecked(v) /\ \A m \in Log \ {l} : log'[m] = log[m]
      BY <2>1 DEF Checks, Rewrites
    <3> QED
      BY <2>1, <2>2, <3>1 DEF EntryChecked, LogLock, LogKnown
  <2>4. SheetChecked(v)' /\ StatusChecked(v)'
    <3>1. SheetChecked(v) /\ StatusChecked(v)
      BY <2>1 DEF Checks
    <3> QED
      BY <2>1, <3>1, CheckedHave
      DEF SheetChecked, StatusChecked, Rewrites, Locks, InChecked, Closed, Editable
  <2> QED
    BY <2>3, <2>4 DEF Checks
<1> QED
  BY <1>1 DEF Checks

LEMMA ChecksStatus ==
  ASSUME Locks, \A v \in Request : Checks(v), NEW w \in Request, StatusSave(w)
  PROVE  \A v \in Request : Checks(v)'
<1> USE StatusDecides DEF Locks
<1>1. ASSUME NEW v \in Request \ {w}, v \notin late' PROVE Checks(v)'
  <2>1. req'[v] = req[v] /\ v \notin late /\ log' = log
        /\ (req[v].pc \in InChecked => req[v].week # req[w].week)
    BY <1>1 DEF Checked
  <2>2. EntryChecked(v)'
    BY <2>1 DEF Checks, EntryChecked
  <2>3. req[v].pc \in InChecked /\ (req[v].pc = "Save" => req[v].week # 0)
          => sheet'[req[v].week] = sheet[req[v].week]
    BY <2>1, CheckedHave
  <2>4. SheetChecked(v)' /\ StatusChecked(v)'
    BY <2>1, <2>3 DEF Checks, SheetChecked, StatusChecked, InChecked
  <2> QED
    BY <2>2, <2>4 DEF Checks
<1>2. Checks(w)'
  BY DEF Checks, EntryChecked, SheetChecked, StatusChecked
<1> QED
  BY <1>1, <1>2 DEF Checks

LEMMA ChecksStep ==
  ASSUME Locks, Locks', \A v \in Request : Checks(v), [Next]_vars
  PROVE  \A v \in Request : Checks(v)'
<1>1. ASSUME NEW w \in Request, QuietStep(w) PROVE \A v \in Request : Checks(v)'
  BY <1>1, ChecksQuiet
<1>2. ASSUME NEW w \in Request, req'[w].pc \in {"Idle", "CopySum"} PROVE Checks(w)'
  BY <1>2 DEF Checks, EntryChecked, SheetChecked, StatusChecked
<1>3. ASSUME NEW w \in Request, LinkCommit(w) \/ UpdateTotal(w)
      PROVE  \A v \in Request : Checks(v)'
  <2>1. Rewrites(req[w].log, {w}) /\ req[w] \in SumReq /\ req'[w] = [pc |-> "Idle"]
    BY <1>3, CommitRewrites
  <2>2. req[w].log \in Log /\ Checks(w)'
    BY <1>2, <2>1 DEF SumReq
  <2> QED
    BY <2>1, <2>2, ChecksRewrite
<1>4. ASSUME NEW w \in Request, CopyCreate(w) PROVE \A v \in Request : Checks(v)'
  <2>1. CASE Done(w) /\ UNCHANGED <<log, sheet, thisWeek, late, behind, raced, drifted, unaudited>>
    <3>1. req'[w].pc = "Idle" /\ \A v \in Request \ {w} : req'[v] = req[v]
      BY <2>1, Finishes DEF Locks
    <3>2. \A v \in Request \ {w} : Checks(v)'
      BY <2>1, <3>1 DEF Checks, EntryChecked, SheetChecked, StatusChecked
    <3> QED
      BY <1>2, <3>1, <3>2
  <2>2. ASSUME NEW n \in Log, Rewrites(n, {w}), log'[n].week = 0, req'[w].pc = "CopyFind",
               req'[w].log = n
        PROVE  \A v \in Request : Checks(v)'
    <3>1. Checks(w)'
      BY <2>2 DEF Checks, EntryChecked, SheetChecked, StatusChecked
    <3> QED
      BY <2>2, <3>1, ChecksRewrite
  <2> QED
    BY <1>4, <2>1, <2>2, CopyRewrites
<1>5. ASSUME NEW w \in Request, CopyLink(w) PROVE \A v \in Request : Checks(v)'
  <2>1. req[w] \in LinkedReq /\ Rewrites(req[w].log, {w}) /\ req'[w].pc = "CopySum"
    BY <1>5, LinkRewrites
  <2>2. req[w].log \in Log /\ Checks(w)'
    BY <1>2, <2>1 DEF LinkedReq
  <2> QED
    BY <2>1, <2>2, ChecksRewrite
<1>6. ASSUME NEW w \in Request, StatusSave(w) PROVE \A v \in Request : Checks(v)'
  BY <1>6, ChecksStatus
<1>7. ASSUME NEW l \in Log, LogDelete(l) PROVE \A v \in Request : Checks(v)'
  <2>1. Rewrites(l, {})
    BY <1>7, DeleteRewrites
  <2> QED
    BY <2>1, ChecksRewrite
<1>8. CASE NextWeek \/ UNCHANGED vars
  <2>1. UNCHANGED <<sheet, log, req, late>>
    BY <1>8 DEF NextWeek, vars
  <2> QED
    BY <2>1 DEF Checks, EntryChecked, SheetChecked, StatusChecked
<1> QED
  BY <1>1, <1>3, <1>4, <1>5, <1>6, <1>7, <1>8, StepKinds


\* What a step may do to a closed sheet and to a status, given the checks.
LEMMA QuietSeals ==
  ASSUME Locks, NEW w \in Request, QuietStep(w)
  PROVE  NoLateEntryStep /\ SealedUnlessRacedStep /\ StatusMovesStep
<1>1. Quiet(w)
  BY QuietArrives DEF Locks, Arrives
<1> QED
  BY <1>1 DEF Quiet, NoLateEntryStep, SealedUnlessRacedStep, StatusMovesStep

LEMMA CommitSeals ==
  ASSUME Locks, NEW w \in Request, Checks(w), LinkCommit(w) \/ UpdateTotal(w)
  PROVE  NoLateEntryStep /\ SealedUnlessRacedStep /\ StatusMovesStep
<1>1. PICK l \in Log, k \in Week : l = req[w].log /\ k = req[w].week
  BY CommitRewrites DEF SumReq
<1>2. /\ \A m \in Log \ {l} : log'[m] = log[m]
      /\ log'[l].week = k
      /\ req'[w].pc = "Idle" /\ req[w].pc \in {"Commit", "Total"}
      /\ \A j \in Week : \/ sheet'[j].status = sheet[j].status
                         \/ sheet[j].status = "NONE" /\ sheet'[j].status = "DRAFT"
  BY <1>1, CommitRewrites DEF Rewrites, SumReq
<1>3. NoLateEntryStep
  BY <1>1, <1>2 DEF NoLateEntryStep, Locks, Known, Guarded, LogKnown
<1>4. SealedUnlessRacedStep
  <2>1. CASE w \in late
    <3>1. req'[w] # req[w]
      BY <1>2
    <3> QED
      BY <2>1, <3>1 DEF SealedUnlessRacedStep
  <2>2. CASE w \notin late
    <3>1. EntryChecked(w) /\ SheetChecked(w)
      BY <2>2 DEF Checks
    <3>2. k # 0
      BY Weeks0
    <3>3. log[l].week \in {0, k} /\ sheet[k].status \notin Closed
      BY <1>1, <1>2, <3>1, <3>2 DEF EntryChecked, SheetChecked
    <3> QED
      BY <1>2, <3>3 DEF SealedUnlessRacedStep, Touched
  <2> QED
    BY <2>1, <2>2
<1>5. StatusMovesStep
  BY <1>2 DEF StatusMovesStep
<1> QED
  BY <1>3, <1>4, <1>5

LEMMA CopySeals ==
  ASSUME Locks, NEW w \in Request, CopyCreate(w)
  PROVE  NoLateEntryStep /\ SealedUnlessRacedStep /\ StatusMovesStep
<1>1. sheet' = sheet
  BY DEF CopyCreate
<1>2. StatusMovesStep
  BY <1>1 DEF StatusMovesStep
<1>3. log' = log \/ \E n \in Log : /\ \A m \in Log \ {n} : log'[m] = log[m]
                                   /\ log[n].week = 0 /\ log'[n].week = 0
  BY CopyRewrites DEF Locks, Unmade, Rewrites
<1> QED
  BY <1>2, <1>3 DEF NoLateEntryStep, SealedUnlessRacedStep, Touched

LEMMA LinkSeals ==
  ASSUME Locks, NEW w \in Request, Checks(w), CopyLink(w)
  PROVE  NoLateEntryStep /\ SealedUnlessRacedStep /\ StatusMovesStep
<1>1. PICK l \in Log, k \in Week : l = req[w].log /\ k = req[w].week
  BY LinkRewrites DEF LinkedReq
<1>2. /\ \A m \in Log \ {l} : log'[m] = log[m]
      /\ log'[l].week = k /\ log[l].state # "NONE"
      /\ req'[w].pc = "CopySum" /\ req[w].pc = "CopyLink" /\ sheet' = sheet
  BY <1>1, LinkRewrites DEF Rewrites
<1>3. NoLateEntryStep /\ StatusMovesStep
  BY <1>2 DEF NoLateEntryStep, StatusMovesStep
<1>4. SealedUnlessRacedStep
  <2>1. CASE w \in late
    <3>1. req'[w] # req[w]
      BY <1>2
    <3> QED
      BY <2>1, <3>1 DEF SealedUnlessRacedStep
  <2>2. CASE w \notin late
    <3>1. log[l].week = 0 /\ sheet[k].status \notin Closed
      BY <1>1, <1>2, <2>2 DEF Checks, EntryChecked, SheetChecked
    <3> QED
      BY <1>2, <3>1 DEF SealedUnlessRacedStep, Touched
  <2> QED
    BY <2>1, <2>2
<1> QED
  BY <1>3, <1>4

LEMMA StatusSeals ==
  ASSUME Locks, NEW w \in Request, Checks(w), StatusSave(w)
  PROVE  NoLateEntryStep /\ SealedUnlessRacedStep /\ StatusMovesStep
<1> USE StatusDecides DEF Locks
<1>1. NoLateEntryStep /\ SealedUnlessRacedStep
  BY DEF NoLateEntryStep, SealedUnlessRacedStep
<1>2. StatusMovesStep
  <2> SUFFICES ASSUME req[w].week \notin raced'
               PROVE  <<sheet[req[w].week].status, sheet'[req[w].week].status>> \in
                        {<<"NONE", "DRAFT">>, <<"DRAFT", "SUBMITTED">>, <<"REJECTED", "SUBMITTED">>,
                         <<"SUBMITTED", "APPROVED">>, <<"SUBMITTED", "REJECTED">>}
    BY DEF StatusMovesStep
  <2>1. sheet[req[w].week].status \in IF req[w].to = "SUBMITTED" THEN Editable ELSE {"SUBMITTED"}
    BY DEF Checks, StatusChecked
  <2>2. req[w].to \in {"SUBMITTED", "APPROVED", "REJECTED"}
    BY DEF StatusReq
  <2> QED
    BY <2>1, <2>2 DEF Editable
<1> QED
  BY <1>1, <1>2

LEMMA StepSeals ==
  ASSUME Locks, \A w \in Request : Checks(w), [Next]_vars
  PROVE  NoLateEntryStep /\ SealedUnlessRacedStep /\ StatusMovesStep
<1>1. ASSUME NEW l \in Log, LogDelete(l)
      PROVE  NoLateEntryStep /\ SealedUnlessRacedStep /\ StatusMovesStep
  <2>1. log' = [log EXCEPT ![l].state = "DELETED"] /\ sheet' = sheet
    BY <1>1 DEF LogDelete
  <2>2. /\ \A m \in Log \ {l} : log'[m] = log[m]
        /\ log'[l].state = "DELETED"
    BY <1>1, DeleteRewrites DEF Rewrites
  <2>3. NoLateEntryStep
    BY <2>2 DEF NoLateEntryStep
  <2>4. SealedUnlessRacedStep
    BY <2>1, <2>2 DEF SealedUnlessRacedStep
  <2>5. StatusMovesStep
    BY <2>1 DEF StatusMovesStep
  <2> QED
    BY <2>3, <2>4, <2>5
<1>2. CASE NextWeek \/ UNCHANGED vars
  <2>1. log' = log /\ sheet' = sheet
    BY <1>2 DEF NextWeek, vars
  <2> QED
    BY <2>1 DEF NoLateEntryStep, SealedUnlessRacedStep, StatusMovesStep
<1> QED
  BY <1>1, <1>2, QuietSeals, CommitSeals, CopySeals, LinkSeals, StatusSeals, StepKinds


(***************************************************************************)
(* What a request has summed                                               *)
(***************************************************************************)
\* The hours of a sheet, and of a sheet but one entry.
SheetHours(k) == HoursOf(OnSheet(k))
Others(k, l) == HoursOf(OnSheet(k) \ {l})

\* Both as sums, now and after a step.
SheetSums ==
  \A k, l : /\ SheetHours(k) = SumOf([m \in Log |-> log[m].hours], OnSheet(k))
            /\ Others(k, l) = SumOf([m \in Log |-> log[m].hours], OnSheet(k) \ {l})

LEMMA SheetSumsNow == SheetSums
<1> SUFFICES ASSUME NEW k, NEW l
             PROVE  /\ SheetHours(k) = SumOf([m \in Log |-> log[m].hours], OnSheet(k))
                    /\ Others(k, l) = SumOf([m \in Log |-> log[m].hours], OnSheet(k) \ {l})
  BY DEF SheetSums
<1>1. OnSheet(k) \in SUBSET Log /\ OnSheet(k) \ {l} \in SUBSET Log
  BY DEF OnSheet
<1> QED
  BY <1>1, HoursAre DEF SheetHours, Others

LEMMA SheetSumsThen == SheetSums'
  BY SheetSumsNow, PTL

LEMMA HoursKnownThen == (Types => HoursKnown)'
<1>1. Types => HoursKnown
  BY Typed
<1> QED
  BY <1>1, PTL

\* Where no entry changes, nor do the hours of a sheet ...
LEMMA HoursSame ==
  ASSUME UNCHANGED log
  PROVE  \A k, l : SheetHours(k)' = SheetHours(k) /\ Others(k, l)' = Others(k, l)
<1> SUFFICES ASSUME NEW k, NEW l
             PROVE  SheetHours(k)' = SheetHours(k) /\ Others(k, l)' = Others(k, l)
  OBVIOUS
<1>1. OnSheet(k)' = OnSheet(k) /\ (OnSheet(k) \ {l})' = OnSheet(k) \ {l}
  BY DEF OnSheet
<1>2. [m \in Log |-> log'[m].hours] = [m \in Log |-> log[m].hours]
  OBVIOUS
<1> QED
  BY <1>1, <1>2, SheetSumsNow, SheetSumsThen DEF SheetSums

\* ... and where one entry does, only the sheets it is on are affected ...
LEMMA HoursKept ==
  ASSUME NEW n \in Log, \A m \in Log \ {n} : log'[m] = log[m],
         NEW k, k # log[n].week, k # log'[n].week, NEW l
  PROVE  SheetHours(k)' = SheetHours(k) /\ Others(k, l)' = Others(k, l)
<1> DEFINE h == [m \in Log |-> log[m].hours]
           g == [m \in Log |-> log'[m].hours]
<1>1. PICK L : L = OnSheet(k)
  OBVIOUS
<1>2. OnSheet(k)' = L /\ n \notin L /\ L \in SUBSET Log
  BY <1>1 DEF OnSheet
<1>3. IsFiniteSet(L) /\ IsFiniteSet(L \ {l})
  BY <1>2, FS_Subset, TimesheetAssumption DEF TimesheetAssumption
<1>4. \A m \in L : h[m] = g[m]
  BY <1>2
<1>5. SumOf(h, L) = SumOf(g, L) /\ SumOf(h, L \ {l}) = SumOf(g, L \ {l})
  <2> HIDE DEF h, g
  <2> QED
    BY <1>3, <1>4, SumOfSame
<1> QED
  BY <1>1, <1>2, <1>5, SheetSumsNow, SheetSumsThen DEF SheetSums

\* ... of which the one it is put on grows by its hours.
LEMMA HoursWritten ==
  ASSUME NEW n \in Log, \A m \in Log \ {n} : log'[m] = log[m], HoursKnown',
         NEW k, log'[n].week = k, log'[n].state = "LIVE"
  PROVE  SheetHours(k)' = log'[n].hours + Others(k, n)
<1> DEFINE h == [m \in Log |-> log[m].hours]
           g == [m \in Log |-> log'[m].hours]
<1>1. PICK L, M : L = OnSheet(k) /\ M = OnSheet(k)'
  OBVIOUS
<1>2. L \in SUBSET Log /\ M \in SUBSET Log /\ n \in M /\ M \ {n} = L \ {n}
  BY <1>1 DEF OnSheet
<1>3. IsFiniteSet(M) /\ IsFiniteSet(L \ {n})
  BY <1>2, FS_Subset, TimesheetAssumption DEF TimesheetAssumption
<1>4. (\A m \in L \ {n} : h[m] = g[m]) /\ \A m \in M : g[m] \in Nat
  BY <1>2 DEF HoursKnown
<1>5. SumOf(g, M) = g[n] + SumOf(g, M \ {n})
  <2> HIDE DEF h, g
  <2> QED
    BY <1>2, <1>3, <1>4, SumOfSplit
<1>6. SumOf(g, L \ {n}) = SumOf(h, L \ {n})
  <2> HIDE DEF h, g
  <2> QED
    BY <1>3, <1>4, SumOfSame
<1>7. SheetHours(k)' = SumOf(g, M) /\ Others(k, n) = SumOf(h, L \ {n}) /\ g[n] = log'[n].hours
  BY <1>1, SheetSumsNow, SheetSumsThen DEF SheetSums
<1> QED
  BY <1>2, <1>5, <1>6, <1>7

\* What a request has summed is what there is, unless it has fallen behind.
SumHolds(w) ==
  w \notin behind =>
    /\ \A k \in Week :
         req[w].pc \in {"View", "CopyOpen", "CopyFound", "CopyTotal"} /\ req[w].week = k
           => req[w].sum = SheetHours(k)
    /\ \A k \in Week, l \in Log :
         req[w].pc \in {"Total", "Commit"} /\ req[w].week = k /\ req[w].log = l
           => req[w].sum = req[w].row.hours + Others(k, l)

LEMMA SumsQuiet ==
  ASSUME Locks, Locks', \A v \in Request : SumHolds(v), NEW w \in Request, QuietStep(w)
  PROVE  \A v \in Request : SumHolds(v)'
<1>1. Arrives(w)
  BY QuietArrives DEF Locks
<1>2. \A k, l : SheetHours(k)' = SheetHours(k) /\ Others(k, l)' = Others(k, l)
  BY <1>1, HoursSame DEF Arrives, Quiet
<1>3. ASSUME NEW v \in Request \ {w} PROVE SumHolds(v)'
  BY <1>1, <1>2 DEF SumHolds, Arrives, Quiet
<1>4. ASSUME NEW k \in Week, req'[w].week = k,
             req'[w].pc \in {"View", "CopyOpen", "CopyFound", "CopyTotal"}
      PROVE  req'[w].sum = SheetHours(k)'
  BY <1>1, <1>2, <1>4 DEF Arrives, SumArrives, SheetHours
<1>5. ASSUME NEW k \in Week, NEW l \in Log, req'[w].week = k, req'[w].log = l,
             req'[w].pc \in {"Total", "Commit"}
      PROVE  req'[w].sum = req'[w].row.hours + Others(k, l)'
  <2>1. req'[w].row.week = k /\ req'[w] \in SumReq
    BY <1>5, Shape DEF Locks, Types, RowFits
  <2>2. req'[w].sum = HoursWith(k, l, req'[w].row)
    BY <1>1, <1>5 DEF Arrives, LinkArrives, SaveArrives
  <2>3. req'[w].sum = Others(k, l) + req'[w].row.hours
    BY <2>1, <2>2 DEF HoursWith, Others
  <2>4. Others(k, l) \in Nat
    BY Typed, HoursAreNat DEF Locks, Others, OnSheet
  <2>5. req'[w].row.hours \in Nat
    BY <2>1, Given DEF SumReq, Entry
  <2> QED
    BY <1>2, <2>3, <2>4, <2>5
<1> QED
  BY <1>3, <1>4, <1>5 DEF SumHolds

LEMMA SumsRewrite ==
  ASSUME Locks, \A v \in Request : SumHolds(v), NEW n \in Log, NEW W, Rewrites(n, W),
         \A w \in W \cap Request :
           req'[w].pc \notin {"View", "CopyOpen", "CopyFound", "CopyTotal", "Total", "Commit"}
  PROVE  \A v \in Request : SumHolds(v)'
<1>1. ASSUME NEW v \in Request \ W, v \notin behind', req[v].pc \in InSummed
      PROVE  /\ req'[v] = req[v] /\ SumHolds(v) /\ v \notin behind
             /\ \A l : /\ SheetHours(req[v].week)' = SheetHours(req[v].week)
                       /\ Others(req[v].week, l)' = Others(req[v].week, l)
  <2>1. /\ req'[v] = req[v] /\ v \notin behind
        /\ \A j \in {log[n].week, log'[n].week} \ {0} : v \notin Summed(j)
    BY <1>1 DEF Rewrites
  <2>2. PICK k : k = req[v].week
    OBVIOUS
  <2>3. k \in Week /\ k # 0
    BY <1>1, <2>2, Typed, Shape, Weeks0
    DEF Locks, InSummed, ViewReq, SumReq, OpenReq, FoundReq, TotalReq
  <2>4. k # log[n].week /\ k # log'[n].week
    BY <1>1, <2>1, <2>2, <2>3 DEF Summed
  <2>5. \A m \in Log \ {n} : log'[m] = log[m]
    BY DEF Rewrites
  <2>6. \A l : SheetHours(k)' = SheetHours(k) /\ Others(k, l)' = Others(k, l)
    BY <2>4, <2>5, HoursKept
  <2> QED
    BY <2>1, <2>2, <2>6
<1>2. ASSUME NEW v \in Request \ W PROVE SumHolds(v)'
  <2>1. req'[v] = req[v]
    BY DEF Rewrites
  <2> QED
    BY <1>1, <2>1 DEF SumHolds, InSummed
<1>3. ASSUME NEW v \in W \cap Request PROVE SumHolds(v)'
  BY <1>3 DEF SumHolds
<1> QED
  BY <1>2, <1>3


Counting == {"CopySum", "CopyTotal"}

\* A step that writes no total.
TotalsKept ==
  /\ \A k \in Week : sheet'[k].total = sheet[k].total
  /\ drifted \subseteq drifted'
  /\ \A v \in Request :
       req[v].pc \in Counting => \/ req[v].week \in drifted'
                                 \/ req'[v].pc \in Counting /\ req'[v].week = req[v].week

LEMMA TotalsStay ==
  ASSUME TotalIsSum, TotalsKept,
         \A k \in Week : \/ SheetHours(k)' = SheetHours(k)
                         \/ k \in drifted'
                         \/ \E w \in Request : req'[w].pc \in Counting /\ req'[w].week = k
  PROVE  TotalIsSum'
<1> SUFFICES ASSUME NEW k \in Week, k \notin drifted',
                    ~ \E w \in Request : req'[w].pc \in Counting /\ req'[w].week = k
             PROVE  sheet'[k].total = SheetHours(k)'
  BY DEF TotalIsSum, SheetHours, Counting
<1>1. k \notin drifted /\ ~ \E w \in Request : req[w].pc \in Counting /\ req[w].week = k
  BY DEF TotalsKept
<1>2. sheet[k].total = SheetHours(k)
  BY <1>1 DEF TotalIsSum, SheetHours, Counting
<1> QED
  BY <1>2 DEF TotalsKept

\* A step that writes one.
LEMMA TotalsWritten ==
  ASSUME Types, TotalIsSum, NEW w \in Request, NEW k \in Week, NEW n \in Nat,
         NEW J \in SUBSET Week, WritesTotal(w, k, n, J),
         w \notin behind => n = SheetHours(k)',
         \A j \in Week \ {k} : SheetHours(j)' = SheetHours(j) \/ j \in J,
         \A v \in Request : req'[v] = req[v] \/ (req[v].pc \in Counting => req[v].week = k)
  PROVE  TotalIsSum'
<1>1. sheet'[k].total = n /\ \A j \in Week \ {k} : sheet'[j] = sheet[j]
  <2>1. /\ sheet'[k] = [status |-> IF sheet[k].status = "NONE" THEN "DRAFT" ELSE sheet[k].status,
                        total |-> n, last |-> sheet[k].last]
        /\ \A j \in Week \ {k} : sheet'[j] = sheet[j]
    BY WritesTotalFits
  <2> QED
    BY <2>1
<1>2. drifted' = (drifted \ {k}) \cup (J \ {k}) \cup IF w \in behind THEN {k} ELSE {}
  BY DEF WritesTotal
<1>3. sheet'[k].total = SheetHours(k)' \/ k \in drifted'
  BY <1>1, <1>2
<1>4. ASSUME NEW j \in Week \ {k}, j \notin drifted',
             ~ \E v \in Request : req'[v].pc \in Counting /\ req'[v].week = j
      PROVE  sheet'[j].total = SheetHours(j)'
  <2>1. j \notin drifted /\ j \notin J
    BY <1>2, <1>4
  <2>2. ~ \E v \in Request : req[v].pc \in Counting /\ req[v].week = j
    BY <1>4
  <2>3. sheet[j].total = SheetHours(j)
    BY <1>4, <2>1, <2>2 DEF TotalIsSum, SheetHours, Counting
  <2> QED
    BY <1>1, <2>1, <2>3
<1> QED
  BY <1>3, <1>4 DEF TotalIsSum, SheetHours, Counting

\* The steps that write no entry.
LEMMA TotalsRead ==
  ASSUME NEW w \in Request, \A v \in Request \ {w} : req'[v] = req[v],
         UNCHANGED <<sheet, drifted>>, req[w].pc \notin Counting
  PROVE  TotalsKept
  BY DEF TotalsKept

LEMMA TotalsOpen ==
  ASSUME Types, NEW w \in Request, \A v \in Request \ {w} : req'[v] = req[v],
         NEW k \in Week, OpensSheet(k), UNCHANGED drifted, req[w].pc \notin Counting
  PROVE  TotalsKept
<1>1. \A j \in Week : sheet'[j].total = sheet[j].total
  BY OpensFits
<1> QED
  BY <1>1 DEF TotalsKept

\* A total written by a request that has summed the sheet.
LEMMA TotalsSummed ==
  ASSUME Locks, TotalIsSum, NEW w \in Request, SumHolds(w), NEW r, Becomes(w, r),
         req[w].pc \in {"View", "CopyOpen", "CopyFound", "CopyTotal"},
         WritesTotal(w, req[w].week, req[w].sum, {}), UNCHANGED log
  PROVE  TotalIsSum'
<1>1. PICK k \in Week, n \in Nat : k = req[w].week /\ n = req[w].sum
  BY Typed, Shape DEF Locks, ViewReq, OpenReq, FoundReq, TotalReq
<1>2. PICK J : J = {}
  OBVIOUS
<1>3. J \in SUBSET Week /\ WritesTotal(w, k, n, J)
  BY <1>1, <1>2
<1>4. \A j : SheetHours(j)' = SheetHours(j)
  BY HoursSame
<1>5. w \notin behind => n = SheetHours(k)'
  BY <1>1, <1>4 DEF SumHolds
<1>6. \A v \in Request \ {w} : req'[v] = req[v]
  BY Moves DEF Locks
<1> QED
  BY <1>1, <1>3, <1>4, <1>5, <1>6, TotalsWritten DEF Locks

LEMMA TotalsQuiet ==
  ASSUME Locks, TotalIsSum, \A v \in Request : SumHolds(v), NEW w \in Request, QuietStep(w)
  PROVE  TotalIsSum'
<1>0. UNCHANGED log /\ \A v \in Request \ {w} : req'[v] = req[v]
  BY QuietArrives DEF Locks, Arrives, Quiet
<1>1. \A k : SheetHours(k)' = SheetHours(k)
  BY <1>0, HoursSame
<1>2. CASE TotalsKept
  BY <1>1, <1>2, TotalsStay
<1>3. CASE Create(w) \/ LinkLock(w) \/ LinkSum(w)
  <2>1. ASSUME NEW l \in Log, NEW d \in Day, NEW h \in Hours, CreateCheck(w, l, d, h)
        PROVE  TotalsKept
    BY <1>0, <2>1, TotalsRead DEF CreateCheck, At, Counting
  <2>2. CASE LinkLock(w)
    BY <1>0, <1>2, <2>2, TotalsRead DEF LinkLock, At, Counting
  <2>3. CASE LinkSum(w)
    BY <1>0, <1>2, <2>3, TotalsRead DEF LinkSum, At, Counting
  <2> QED
    BY <1>2, <1>3, <2>1, <2>2, <2>3 DEF Create
<1>4. CASE \/ \E l \in Log, d \in Day, h \in Hours : UpdateLoad(w, l, d, h)
           \/ UpdateSave(w) \/ UpdateFind(w)
  <2>1. ASSUME NEW l \in Log, NEW d \in Day, NEW h \in Hours, UpdateLoad(w, l, d, h)
        PROVE  TotalsKept
    BY <1>0, <2>1, TotalsRead DEF UpdateLoad, At, Counting
  <2>2. CASE UpdateSave(w)
    BY <1>0, <1>2, <2>2, TotalsRead DEF UpdateSave, At, Counting
  <2>3. CASE UpdateFind(w)
    BY <1>0, <1>2, <2>3, TotalsRead DEF UpdateFind, At, Counting
  <2> QED
    BY <1>2, <1>4, <2>1, <2>2, <2>3
<1>5. CASE View(w)
  <2>1. ASSUME NEW k \in Week, ViewLoad(w, k) PROVE TotalsKept
    BY <1>0, <2>1, TotalsOpen DEF ViewLoad, At, Counting, Locks
  <2>2. CASE ViewSave(w)
    BY <2>2, TotalsSummed DEF ViewSave, At, Done
  <2> QED
    BY <1>2, <1>5, <2>1, <2>2 DEF View
<1>6. ASSUME NEW from \in Day, NEW to \in Day, CopyStart(w, from, to) PROVE TotalIsSum'
  BY <1>0, <1>2, <1>6, WeekOfDay, TotalsOpen DEF CopyStart, At, Counting, Locks
<1>7. CASE CopyOpen(w)
  BY <1>7, TotalsSummed DEF CopyOpen, At, Done
<1>8. CASE CopyFind(w)
  BY <1>0, <1>2, <1>8, TotalsRead DEF CopyFind, At, Counting
<1>9. CASE CopyFound(w)
  BY <1>9, TotalsSummed DEF CopyFound, At, Done
<1>10. CASE CopySum(w)
  <2>1. PICK r : r = [pc |-> "CopyTotal", to |-> req[w].to, todo |-> req[w].todo,
                      week |-> req[w].week, sum |-> HoursOf(OnSheet(req[w].week))]
    OBVIOUS
  <2>2. req'[w] = r /\ \A v \in Request \ {w} : req'[v] = req[v]
    BY <1>10, <2>1, Moves DEF CopySum, Locks
  <2>3. TotalsKept
    BY <1>10, <2>1, <2>2 DEF TotalsKept, CopySum, Counting
  <2> QED
    BY <1>2, <2>3
<1>11. CASE CopyTotal(w)
  BY <1>11, TotalsSummed DEF CopyTotal, At
<1>12. ASSUME NEW k \in Week, SubmitLoad(w, k) PROVE TotalIsSum'
  BY <1>0, <1>2, <1>12, TotalsRead DEF SubmitLoad, At, Counting
<1>13. ASSUME NEW k \in Week, NEW r \in Reviewer, NEW to \in {"APPROVED", "REJECTED"},
              NEW b \in BOOLEAN, ReviewLoad(w, k, r, to, b)
       PROVE  TotalIsSum'
  BY <1>0, <1>2, <1>13, TotalsRead DEF ReviewLoad, At, Counting
<1>14. CASE Audit(w)
  <2>1. req[w] \in StatusReq /\ req[w].pc = "Audit"
    BY <1>14, Typed, Shape DEF Audit, At, Locks
  <2>2. PICK k \in Week, t \in {"SUBMITTED", "APPROVED", "REJECTED"} :
          k = req[w].week /\ t = req[w].to
    BY <2>1 DEF StatusReq
  <2>3. \A j \in Week : sheet'[j].total = sheet[j].total
    BY <1>14, <2>2, Actioned, LastWritten DEF Audit, Locks
  <2>4. \A v \in Request \ {w} : req'[v] = req[v]
    BY <1>14, Moves DEF Audit, Locks, Done
  <2>5. TotalsKept
    BY <1>14, <2>1, <2>3, <2>4 DEF TotalsKept, Audit, Counting
  <2> QED
    BY <1>2, <2>5
<1>15. CASE Relabel(w)
  <2>1. req[w] \in RelabelReq /\ req[w].pc = "Relabel"
    BY <1>15, Typed, Shape DEF Relabel, At, Locks
  <2>2. PICK k \in Week : k = req[w].week
    BY <2>1 DEF RelabelReq
  <2>3. \A j \in Week : sheet'[j].total = sheet[j].total
    BY <1>15, <2>2, LastWritten DEF Relabel, Locks
  <2>4. \A v \in Request \ {w} : req'[v] = req[v]
    BY <1>15, Finishes DEF Relabel, Locks
  <2>5. TotalsKept
    BY <1>15, <2>1, <2>3, <2>4 DEF TotalsKept, Relabel, Counting
  <2> QED
    BY <1>2, <2>5
<1>16. CASE Die(w)
  <2>1. \A v \in Request \ {w} : req'[v] = req[v]
    BY <1>16, Finishes DEF Die, Locks
  <2>2. TotalsKept
    BY <1>16, <2>1 DEF TotalsKept, Die, Counting
  <2> QED
    BY <1>2, <2>2
<1> QED
  BY <1>3, <1>4, <1>5, <1>6, <1>7, <1>8, <1>9, <1>10, <1>11, <1>12, <1>13, <1>14, <1>15, <1>16
  DEF QuietStep

\* The totals and the sums, step by step.
LEMMA SumsStep ==
  ASSUME Locks, Locks', TotalIsSum, \A v \in Request : SumHolds(v), [Next]_vars
  PROVE  TotalIsSum' /\ \A v \in Request : SumHolds(v)'
<1>1. ASSUME NEW w \in Request, QuietStep(w)
      PROVE  TotalIsSum' /\ \A v \in Request : SumHolds(v)'
  BY <1>1, SumsQuiet, TotalsQuiet
<1>2. ASSUME NEW w \in Request, LinkCommit(w) \/ UpdateTotal(w)
      PROVE  TotalIsSum' /\ \A v \in Request : SumHolds(v)'
  <2>1. PICK l \in Log, k \in Week, n \in Nat, e \in Entry, J \in SUBSET Week :
          /\ l = req[w].log /\ k = req[w].week /\ n = req[w].sum /\ e = req[w].row
          /\ J = Touched(l, k) /\ WritesTotal(w, k, n, J)
    BY <1>2, CommitRewrites DEF SumReq
  <2>2. /\ Rewrites(l, {w}) /\ log'[l] = e /\ e.week = k
        /\ req'[w] = [pc |-> "Idle"] /\ req[w].pc \in {"Total", "Commit"}
    BY <1>2, <2>1, CommitRewrites DEF SumReq
  <2>3. \A v \in Request : SumHolds(v)'
    BY <2>2, SumsRewrite
  <2>4. \A m \in Log \ {l} : log'[m] = log[m]
    BY <2>2 DEF Rewrites
  <2>5. SheetHours(k)' = e.hours + Others(k, l)
    <3>1. HoursKnown' /\ e.state = "LIVE"
      BY HoursKnownThen DEF Locks, Entry
    <3> QED
      BY <2>2, <2>4, <3>1, HoursWritten
  <2>6. w \notin behind => n = SheetHours(k)'
    BY <2>1, <2>2, <2>5 DEF SumHolds
  <2>7. \A j \in Week \ {k} : SheetHours(j)' = SheetHours(j) \/ j \in J
    <3> SUFFICES ASSUME NEW j \in Week \ {k}, j \notin J PROVE SheetHours(j)' = SheetHours(j)
      OBVIOUS
    <3>1. j # log[l].week /\ j # log'[l].week
      BY <2>1, <2>2, Weeks0 DEF Touched
    <3> QED
      BY <2>4, <3>1, HoursKept
  <2>8. \A v \in Request : req'[v] = req[v] \/ (req[v].pc \in Counting => req[v].week = k)
    BY <2>1, <2>2 DEF Rewrites
  <2>9. TotalIsSum'
    BY <2>1, <2>6, <2>7, <2>8, TotalsWritten DEF Locks
  <2> QED
    BY <2>3, <2>9
<1>3. ASSUME NEW w \in Request, CopyCreate(w)
      PROVE  TotalIsSum' /\ \A v \in Request : SumHolds(v)'
  <2>1. req[w].pc = "Copy" /\ UNCHANGED <<sheet, drifted>>
    BY <1>3 DEF CopyCreate, At
  <2>2. CASE Done(w) /\ UNCHANGED <<log, sheet, thisWeek, late, behind, raced, drifted, unaudited>>
    <3>1. req'[w].pc = "Idle" /\ \A v \in Request \ {w} : req'[v] = req[v]
      BY <2>2, Finishes DEF Locks
    <3>2. \A k, l : SheetHours(k)' = SheetHours(k) /\ Others(k, l)' = Others(k, l)
      BY <2>2, HoursSame
    <3>3. \A v \in Request : SumHolds(v)'
      BY <2>2, <3>1, <3>2 DEF SumHolds
    <3>4. TotalsKept
      BY <2>1, <3>1 DEF TotalsKept, Counting
    <3> QED
      BY <3>2, <3>3, <3>4, TotalsStay
  <2>3. ASSUME NEW n \in Log, Rewrites(n, {w}), log[n].state = "NONE", log'[n].week = 0,
               req'[w].pc = "CopyFind"
        PROVE  TotalIsSum' /\ \A v \in Request : SumHolds(v)'
    <3>1. \A v \in Request : SumHolds(v)'
      BY <2>3, SumsRewrite
    <3>2. TotalsKept
      BY <2>1, <2>3 DEF TotalsKept, Counting, Rewrites
    <3>3. ASSUME NEW k \in Week PROVE SheetHours(k)' = SheetHours(k)
      <4>1. k # log[n].week /\ k # log'[n].week
        BY <2>3, Weeks0 DEF Locks, Unmade
      <4>2. \A m \in Log \ {n} : log'[m] = log[m]
        BY <2>3 DEF Rewrites
      <4> QED
        BY <4>1, <4>2, HoursKept
    <3> QED
      BY <3>1, <3>2, <3>3, TotalsStay
  <2> QED
    BY <1>3, <2>2, <2>3, CopyRewrites
<1>4. ASSUME NEW w \in Request, CopyLink(w)
      PROVE  TotalIsSum' /\ \A v \in Request : SumHolds(v)'
  <2>1. PICK l \in Log, k \in Week : l = req[w].log /\ k = req[w].week
    BY <1>4, LinkRewrites DEF LinkedReq
  <2>2. /\ Rewrites(l, {w}) /\ UNCHANGED sheet /\ log'[l].week = k
        /\ req[w].pc = "CopyLink" /\ req'[w].pc = "CopySum" /\ req'[w].week = k
        /\ drifted' = drifted \cup (Touched(l, k) \ {k})
    BY <1>4, <2>1, LinkRewrites
  <2>3. \A v \in Request : SumHolds(v)'
    BY <2>2, SumsRewrite
  <2>4. TotalsKept
    BY <2>2 DEF TotalsKept, Counting, Rewrites
  <2>5. ASSUME NEW j \in Week, j \notin drifted', j # k PROVE SheetHours(j)' = SheetHours(j)
    <3>1. j # log[l].week /\ j # log'[l].week
      BY <2>2, <2>5, Weeks0 DEF Touched
    <3>2. \A m \in Log \ {l} : log'[m] = log[m]
      BY <2>2 DEF Rewrites
    <3> QED
      BY <3>1, <3>2, HoursKept
  <2>6. TotalIsSum'
    BY <2>2, <2>4, <2>5, TotalsStay DEF Counting
  <2> QED
    BY <2>3, <2>6
<1>5. ASSUME NEW w \in Request, StatusSave(w)
      PROVE  TotalIsSum' /\ \A v \in Request : SumHolds(v)'
  <2> USE <1>5, StatusDecides DEF Locks
  <2>1. \A k, l : SheetHours(k)' = SheetHours(k) /\ Others(k, l)' = Others(k, l)
    BY HoursSame
  <2>2. TotalsKept
    BY DEF TotalsKept, Counting
  <2>3. \A v \in Request : SumHolds(v)'
    BY <2>1 DEF SumHolds
  <2> QED
    BY <2>1, <2>2, <2>3, TotalsStay
<1>6. ASSUME NEW l \in Log, LogDelete(l)
      PROVE  TotalIsSum' /\ \A v \in Request : SumHolds(v)'
  <2>1. /\ Rewrites(l, {}) /\ UNCHANGED sheet /\ log'[l].week = log[l].week
        /\ drifted \subseteq drifted'
        /\ log[l].week # 0 => log[l].week \in drifted'
    BY <1>6, DeleteRewrites
  <2>2. \A v \in Request : SumHolds(v)'
    BY <2>1, SumsRewrite
  <2>3. TotalsKept
    BY <2>1 DEF TotalsKept, Rewrites
  <2>4. ASSUME NEW j \in Week, j \notin drifted' PROVE SheetHours(j)' = SheetHours(j)
    <3>1. j # log[l].week /\ j # log'[l].week
      BY <2>1, <2>4, Weeks0
    <3>2. \A m \in Log \ {l} : log'[m] = log[m]
      BY <2>1 DEF Rewrites
    <3> QED
      BY <3>1, <3>2, HoursKept
  <2> QED
    BY <2>2, <2>3, <2>4, TotalsStay
<1>7. CASE NextWeek \/ UNCHANGED vars
  <2>1. UNCHANGED <<sheet, log, req, behind, drifted>>
    BY <1>7 DEF NextWeek, vars
  <2>2. \A k, l : SheetHours(k)' = SheetHours(k) /\ Others(k, l)' = Others(k, l)
    BY <2>1, HoursSame
  <2>3. TotalsKept /\ \A v \in Request : SumHolds(v)'
    BY <2>1, <2>2 DEF TotalsKept, SumHolds
  <2> QED
    BY <2>2, <2>3, TotalsStay
<1> QED
  BY <1>1, <1>2, <1>3, <1>4, <1>5, <1>6, <1>7, StepKinds


(***************************************************************************)
(* The review log                                                          *)
(***************************************************************************)
\* A sheet whose status has been saved is as the request that is about to log
\* it has saved it, unless another has done so since.
Audits(w) ==
  \A k \in Week : At(w, "Audit") /\ req[w].week = k /\ k \notin unaudited
    => sheet[k].status = req[w].to

LEMMA AuditingHave ==
  ASSUME Types, NEW w \in Request, At(w, "Audit")
  PROVE  req[w].week \in Week /\ req[w].to \in {"SUBMITTED", "APPROVED", "REJECTED"}
  BY Typed, Shape DEF At, StatusReq

\* Requests that go on auditing, or are counted as having failed to, and sheets
\* whose entries in the review log stay.
LEMMA AuditsStay ==
  ASSUME Types, AuditAgrees, \A v \in Request : Audits(v),
         \A k \in Week : /\ sheet'[k].last = sheet[k].last
                         /\ \/ sheet'[k].status = sheet[k].status
                            \/ sheet[k].status = "NONE" /\ sheet'[k].status = "DRAFT",
         unaudited \subseteq unaudited',
         \A v \in Request : At(v, "Audit") => req'[v] = req[v] \/ req[v].week \in unaudited',
         \A v \in Request : req'[v].pc = "Audit" => req'[v] = req[v]
  PROVE  AuditAgrees' /\ \A v \in Request : Audits(v)'
<1>1. ASSUME NEW k \in Week, sheet'[k].status \in DOMAIN Actions, k \notin unaudited',
             ~ \E w \in Request : req'[w].pc = "Audit" /\ req'[w].week = k
      PROVE  sheet'[k].last \in Actions[sheet'[k].status]
  <2>1. sheet'[k].status = sheet[k].status
    BY <1>1 DEF Actions
  <2>2. ~ \E w \in Request : At(w, "Audit") /\ req[w].week = k
    BY <1>1 DEF At
  <2> QED
    BY <1>1, <2>1, <2>2 DEF AuditAgrees
<1>2. ASSUME NEW v \in Request, NEW k \in Week, req'[v].pc = "Audit", req'[v].week = k,
             k \notin unaudited'
      PROVE  sheet'[k].status = req'[v].to
  <2>1. req'[v] = req[v] /\ At(v, "Audit") /\ sheet[k].status = req[v].to
    BY <1>2 DEF Audits, At
  <2>2. sheet[k].status # "NONE"
    BY <2>1, AuditingHave
  <2> QED
    BY <2>1, <2>2
<1> QED
  BY <1>1, <1>2 DEF AuditAgrees, Audits, At

\* A quiet step that is no audit and no relabelling leaves the review log.
LEMMA AuditsQuiet ==
  ASSUME Locks, AuditAgrees, \A v \in Request : Audits(v), NEW w \in Request, QuietStep(w),
         req[w].pc \notin {"Audit", "Relabel"} \/ Die(w)
  PROVE  AuditAgrees' /\ \A v \in Request : Audits(v)'
<1>1. Arrives(w)
  BY QuietArrives DEF Locks
<1>2. \A k \in Week : sheet'[k].last = sheet[k].last
  BY <1>1 DEF Arrives, Quiet, Die
<1>3. \A v \in Request : At(v, "Audit") => req'[v] = req[v] \/ req[v].week \in unaudited'
  BY <1>1 DEF Arrives, Quiet, Die, At
<1>4. \A v \in Request : req'[v].pc = "Audit" => req'[v] = req[v]
  BY <1>1 DEF Arrives, Quiet, StatusArrives
<1>5. /\ \A k \in Week : \/ sheet'[k].status = sheet[k].status
                         \/ sheet[k].status = "NONE" /\ sheet'[k].status = "DRAFT"
      /\ unaudited \subseteq unaudited'
  BY <1>1 DEF Arrives, Quiet
<1> QED
  BY <1>2, <1>3, <1>4, <1>5, AuditsStay DEF Locks

\* An audit writes what the status says ...
LEMMA AuditsLog ==
  ASSUME Locks, AuditAgrees, \A v \in Request : Audits(v), NEW w \in Request, Audit(w)
  PROVE  AuditAgrees' /\ \A v \in Request : Audits(v)'
<1>1. PICK k \in Week, t \in {"SUBMITTED", "APPROVED", "REJECTED"} :
        k = req[w].week /\ t = req[w].to
  BY AuditingHave DEF Locks, Audit
<1>2. /\ \A j \in Week \ {k} : sheet'[j] = sheet[j]
      /\ sheet'[k].status = sheet[k].status /\ sheet'[k].last = ActionFor(t)
  BY <1>1, Actioned, LastWritten DEF Locks, Audit
<1>3. unaudited' = unaudited
  BY DEF Audit
<1>4. req'[w].pc # "Audit" /\ \A v \in Request \ {w} : req'[v] = req[v]
  <2>1. CASE Done(w)
    BY <2>1, Finishes DEF Locks
  <2>2. CASE ~ Done(w)
    <3>1. PICK r : r = [pc |-> "Relabel", week |-> req[w].week]
      OBVIOUS
    <3>2. req'[w] = r /\ \A v \in Request \ {w} : req'[v] = req[v]
      BY <2>2, <3>1, Moves DEF Locks, Audit
    <3> QED
      BY <3>1, <3>2
  <2> QED
    BY <2>1, <2>2
<1>5. \A v \in Request : Audits(v)'
  BY <1>2, <1>3, <1>4 DEF Audits, At
<1>6. k \notin unaudited' => sheet'[k].last \in Actions[sheet'[k].status]
  <2> SUFFICES ASSUME k \notin unaudited PROVE sheet'[k].last \in Actions[sheet'[k].status]
    BY <1>3
  <2>1. sheet[k].status = t
    BY <1>1 DEF Audits, Audit
  <2> QED
    BY <1>2, <2>1, Actioned
<1>7. ASSUME NEW j \in Week \ {k}, sheet'[j].status \in DOMAIN Actions, j \notin unaudited',
             ~ \E v \in Request : req'[v].pc = "Audit" /\ req'[v].week = j
      PROVE  sheet'[j].last \in Actions[sheet'[j].status]
  <2>1. ~ \E v \in Request : At(v, "Audit") /\ req[v].week = j
    BY <1>1, <1>4, <1>7 DEF At
  <2> QED
    BY <1>2, <1>3, <1>7, <2>1 DEF AuditAgrees
<1>8. AuditAgrees'
  BY <1>6, <1>7 DEF AuditAgrees, At
<1> QED
  BY <1>5, <1>8

\* ... and a relabelling keeps to it.
LEMMA AuditsRelabel ==
  ASSUME Locks, AuditAgrees, \A v \in Request : Audits(v), NEW w \in Request, Relabel(w)
  PROVE  AuditAgrees' /\ \A v \in Request : Audits(v)'
<1>1. req[w] \in RelabelReq /\ req[w].pc = "Relabel"
  BY Typed, Shape DEF Locks, Relabel, At
<1>2. PICK k \in Week : k = req[w].week
  BY <1>1 DEF RelabelReq
<1>3. req'[w].pc = "Idle" /\ \A v \in Request \ {w} : req'[v] = req[v]
  BY Finishes DEF Locks, Relabel
<1>4. unaudited' = unaudited
  BY DEF Relabel
<1>5. CASE UNCHANGED sheet
  BY <1>1, <1>3, <1>4, <1>5, AuditsStay DEF Locks, At
<1>6. CASE sheet[k].last = "REJECT" /\ sheet' = [sheet EXCEPT ![k].last = "REQUEST_CHANGES"]
  <2>1. /\ \A j \in Week \ {k} : sheet'[j] = sheet[j]
        /\ sheet'[k].status = sheet[k].status /\ sheet'[k].last = "REQUEST_CHANGES"
    BY <1>6, LastWritten DEF Locks
  <2>2. \A v \in Request : Audits(v)'
    BY <1>3, <1>4, <2>1 DEF Audits, At
  <2>3. ASSUME NEW j \in Week, sheet'[j].status \in DOMAIN Actions, j \notin unaudited',
               ~ \E v \in Request : req'[v].pc = "Audit" /\ req'[v].week = j
        PROVE  sheet'[j].last \in Actions[sheet'[j].status]
    <3>1. ~ \E v \in Request : At(v, "Audit") /\ req[v].week = j
      BY <1>1, <1>3, <2>3 DEF At
    <3>2. sheet'[j].status = sheet[j].status
      BY <2>1
    <3>3. sheet[j].last \in Actions[sheet[j].status]
      BY <1>4, <2>3, <3>1, <3>2 DEF AuditAgrees
    <3>4. CASE j = k
      BY <1>6, <2>1, <2>3, <3>2, <3>3, <3>4 DEF Actions
    <3> QED
      BY <2>1, <3>3, <3>4
  <2> QED
    BY <2>2, <2>3 DEF AuditAgrees, At
<1> QED
  BY <1>2, <1>5, <1>6 DEF Relabel, Relabels

\* A status that is saved is yet to be logged.
LEMMA AuditsStatus ==
  ASSUME Locks, AuditAgrees, \A v \in Request : Audits(v), NEW w \in Request, StatusSave(w)
  PROVE  AuditAgrees' /\ \A v \in Request : Audits(v)'
<1> USE StatusDecides DEF Locks
<1>1. PICK k \in Week : k = req[w].week
  OBVIOUS
<1>2. \A v \in Request : Audits(v)'
  BY <1>1 DEF Audits, At
<1>3. ASSUME NEW j \in Week \ {k}, sheet'[j].status \in DOMAIN Actions, j \notin unaudited',
             ~ \E v \in Request : req'[v].pc = "Audit" /\ req'[v].week = j
      PROVE  sheet'[j].last \in Actions[sheet'[j].status]
  <2>1. ~ \E v \in Request : At(v, "Audit") /\ req[v].week = j
    BY <1>1, <1>3 DEF At
  <2> QED
    BY <1>1, <1>3, <2>1 DEF AuditAgrees
<1>4. \E v \in Request : req'[v].pc = "Audit" /\ req'[v].week = k
  BY <1>1
<1> QED
  BY <1>2, <1>3, <1>4 DEF AuditAgrees, At

LEMMA AuditsStep ==
  ASSUME Locks, AuditAgrees, \A v \in Request : Audits(v), [Next]_vars
  PROVE  AuditAgrees' /\ \A v \in Request : Audits(v)'
<1>1. ASSUME NEW w \in Request, QuietStep(w)
      PROVE  AuditAgrees' /\ \A v \in Request : Audits(v)'
  <2>1. \/ req[w].pc \notin {"Audit", "Relabel"} \/ Die(w)
        \/ Audit(w) \/ Relabel(w)
    BY <1>1 DEF QuietStep, Create, CreateCheck, LinkLock, LinkSum, UpdateLoad, UpdateSave,
       UpdateFind, View, ViewLoad, ViewSave, CopyStart, CopyOpen, CopyFind, CopyFound, CopySum,
       CopyTotal, SubmitLoad, ReviewLoad, At
  <2> QED
    BY <1>1, <2>1, AuditsQuiet, AuditsLog, AuditsRelabel
<1>2. ASSUME NEW l \in Log, NEW W, Rewrites(l, W),
             \A w \in W \cap Request : req[w].pc # "Audit" /\ req'[w].pc # "Audit"
      PROVE  AuditAgrees' /\ \A v \in Request : Audits(v)'
  <2>1. /\ \A k \in Week : /\ sheet'[k].last = sheet[k].last
                           /\ \/ sheet'[k].status = sheet[k].status
                              \/ sheet[k].status = "NONE" /\ sheet'[k].status = "DRAFT"
        /\ unaudited \subseteq unaudited'
    BY <1>2 DEF Rewrites
  <2>2. /\ \A v \in Request : At(v, "Audit") => req'[v] = req[v]
        /\ \A v \in Request : req'[v].pc = "Audit" => req'[v] = req[v]
    BY <1>2 DEF Rewrites, At
  <2> QED
    BY <2>1, <2>2, AuditsStay DEF Locks
<1>3. ASSUME NEW w \in Request, LinkCommit(w) \/ UpdateTotal(w)
      PROVE  AuditAgrees' /\ \A v \in Request : Audits(v)'
  <2>1. /\ Rewrites(req[w].log, {w}) /\ req[w].log \in Log /\ req'[w].pc = "Idle"
        /\ req[w].pc # "Audit"
    BY <1>3, CommitRewrites DEF SumReq
  <2> QED
    BY <1>2, <2>1
<1>4. ASSUME NEW w \in Request, CopyCreate(w)
      PROVE  AuditAgrees' /\ \A v \in Request : Audits(v)'
  <2>1. req[w].pc = "Copy"
    BY <1>4 DEF CopyCreate, At
  <2>2. CASE Done(w) /\ UNCHANGED <<log, sheet, thisWeek, late, behind, raced, drifted, unaudited>>
    <3>1. req'[w].pc = "Idle" /\ \A v \in Request \ {w} : req'[v] = req[v]
      BY <2>2, Finishes DEF Locks
    <3> QED
      BY <2>1, <2>2, <3>1, AuditsStay DEF Locks, At
  <2> QED
    BY <1>2, <1>4, <2>1, <2>2, CopyRewrites
<1>5. ASSUME NEW w \in Request, CopyLink(w)
      PROVE  AuditAgrees' /\ \A v \in Request : Audits(v)'
  <2>1. /\ Rewrites(req[w].log, {w}) /\ req[w].log \in Log /\ req'[w].pc = "CopySum"
        /\ req[w].pc = "CopyLink"
    BY <1>5, LinkRewrites DEF LinkedReq
  <2> QED
    BY <1>2, <2>1
<1>6. ASSUME NEW w \in Request, StatusSave(w)
      PROVE  AuditAgrees' /\ \A v \in Request : Audits(v)'
  BY <1>6, AuditsStatus
<1>7. ASSUME NEW l \in Log, LogDelete(l)
      PROVE  AuditAgrees' /\ \A v \in Request : Audits(v)'
  <2>1. Rewrites(l, {})
    BY <1>7, DeleteRewrites
  <2> QED
    BY <1>2, <2>1
<1>8. CASE NextWeek \/ UNCHANGED vars
  <2>1. UNCHANGED <<sheet, req, unaudited>>
    BY <1>8 DEF NextWeek, vars
  <2> QED
    BY <2>1, AuditsStay DEF Locks
<1> QED
  BY <1>1, <1>3, <1>4, <1>5, <1>6, <1>7, <1>8, StepKinds


(***************************************************************************)
(* The calendar                                                            *)
(***************************************************************************)
Patching == {"Save", "Total", "Find", "Lock", "Link", "Commit"}
Carrying == {"CopyFind", "CopyFound", "CopyLink"}
Copying == {"CopyOpen", "Copy", "CopySum", "CopyTotal"} \cup Carrying

\* What a request is about to write is not of a week to come, nor does it put
\* an entry on a sheet of a later week than the entry's day.
Dates(w) ==
  /\ req[w].pc \in Patching =>
       /\ req[w].row.week <= WeekOf(req[w].row.day)
       /\ WeekOf(req[w].row.day) <= thisWeek
  /\ req[w].pc \in Copying => WeekOf(req[w].to) <= thisWeek
  /\ req[w].pc \in {"CopyFound", "CopyLink"} => req[w].week = WeekOf(req[w].to)
  /\ req[w].pc \in Carrying => WeekOf(req[w].to) <= WeekOf(log[req[w].log].day)

\* Nor does a change of an entry that another is about to link to a sheet.
Ordered(v, w) ==
  req[v].pc \in Patching /\ req[w].pc \in Carrying /\ req[v].log = req[w].log
    => WeekOf(req[w].to) <= WeekOf(req[v].row.day)

\* Entries are on sheets of weeks that have begun.
Past == \A l \in Log : log[l].week <= thisWeek

Calendar ==
  /\ NeverOnALaterSheet /\ Past
  /\ \A w \in Request : Dates(w)
  /\ \A v, w \in Request : Ordered(v, w)

\* Where neither the entries nor the week change.
LEMMA CalendarStays ==
  ASSUME Calendar, UNCHANGED <<log, thisWeek>>,
         \A v \in Request : req'[v] = req[v] \/ req'[v].pc \notin Patching \cup Copying
  PROVE  Calendar'
<1>1. NeverOnALaterSheet' /\ Past'
  BY DEF Calendar, NeverOnALaterSheet, Past, WeekOf
<1>2. \A v \in Request : Dates(v)'
  BY DEF Calendar, Dates, WeekOf, Carrying, Copying
<1>3. \A v, w \in Request : Ordered(v, w)'
  BY DEF Calendar, Ordered, WeekOf, Carrying, Copying
<1> QED
  BY <1>1, <1>2, <1>3 DEF Calendar

\* Days and weeks that requests carry.
LEMMA DatesHave ==
  ASSUME Types, NEW w \in Request
  PROVE  /\ req[w].pc \in Patching => req[w].row \in Entry /\ req[w].log \in Log
         /\ req[w].pc \in Copying => req[w].to \in Day
         /\ req[w].pc \in Carrying => req[w].log \in Log
<1>1. req[w] \in Req
  BY Typed
<1> QED
  BY <1>1, Shape
  DEF Patching, Carrying, Copying, SaveReq, SumReq, FindReq, LinkReq, OpenReq, CopyReq, CopiedReq,
      FoundReq, LinkedReq, TotalReq

\* A quiet step: the request itself ...
LEMMA DatesQuiet ==
  ASSUME Locks, Locks', Calendar, NEW w \in Request, Arrives(w)
  PROVE  Dates(w)'
<1>1. /\ UNCHANGED <<log, thisWeek>> /\ Dates(w)
  BY DEF Calendar, Arrives, Quiet
<1>2. /\ req'[w].pc \in {"Save", "Lock"} => req'[w].row.week = req'[w].week
      /\ req'[w].pc = "Save" => req'[w].log \in Log
  BY CheckedHaveThen DEF Locks, Types, RowFits, CheckedHaveAll, LogKnown
<1>3. req'[w].pc \in {"Lock", "Save"} => req'[w].row.day \in Day
  BY Shape DEF Locks, Types, LinkReq, SaveReq, Entry
<1>4. CASE req'[w].pc = "Lock"
  <2>1. PICK a, b : a = req'[w].row.week /\ b = WeekOf(req'[w].row.day)
    OBVIOUS
  <2>2. a = b /\ b \in Nat
    BY <1>2, <1>3, <1>4, <2>1, WeekOfDay, Given DEF Arrives, LockArrives
  <2>3. PICK t \in Nat : t = thisWeek
    BY Given, Typed DEF Locks
  <2>4. b = t \/ b <= t
    BY <1>1, <1>4, <2>1, <2>3 DEF Arrives, LockArrives, Dates, Patching
  <2>5. a <= b /\ b <= t
    BY <2>2, <2>3, <2>4
  <2> QED
    BY <1>1, <1>4, <2>1, <2>3, <2>5 DEF Dates, Patching, Copying, Carrying
<1>5. CASE req'[w].pc = "Save"
  <2>1. PICK a, b : a = req'[w].row.week /\ b = WeekOf(req'[w].row.day)
    OBVIOUS
  <2>2. a <= thisWeek /\ b = thisWeek
    BY <1>2, <1>5, <2>1 DEF Arrives, SaveArrives, Calendar, Past
  <2>3. PICK t \in Nat : t = thisWeek
    BY Given, Typed DEF Locks
  <2>4. a <= b /\ b <= t
    BY <2>2, <2>3
  <2> QED
    BY <1>1, <1>5, <2>1, <2>3, <2>4 DEF Dates, Patching, Copying, Carrying
<1>6. CASE req'[w].pc \in {"Link", "Commit", "Total", "Find"}
  <2>1. req'[w].row = req[w].row /\ req[w].pc \in Patching
    BY <1>6 DEF Arrives, LinkArrives, SaveArrives, Patching
  <2> QED
    BY <1>1, <1>6, <2>1 DEF Dates, Patching, Copying, Carrying
<1>7. CASE req'[w].pc = "CopyOpen"
  <2>1. WeekOf(req'[w].to) = thisWeek
    BY <1>7 DEF Arrives, CopyArrives
  <2>2. PICK t \in Nat : t = thisWeek
    BY Given, Typed DEF Locks
  <2>3. t <= t
    BY <2>2
  <2> QED
    BY <1>1, <1>7, <2>1, <2>2, <2>3 DEF Dates, Patching, Copying, Carrying
<1>8. CASE req'[w].pc \in {"Copy", "CopyTotal"}
  BY <1>1, <1>8 DEF Dates, Patching, Copying, Carrying, Arrives, CopyArrives
<1>9. CASE req'[w].pc \in {"CopyFound", "CopyLink"}
  BY <1>1, <1>9 DEF Dates, Patching, Copying, Carrying, Arrives, CopyArrives
<1> QED
  BY <1>4, <1>5, <1>6, <1>7, <1>8, <1>9
  DEF Dates, Patching, Copying, Carrying, Arrives, CopyArrives

\* ... and what it is ordered with.
LEMMA OrderedQuiet ==
  ASSUME Locks, Locks', Calendar, NEW w \in Request, Arrives(w), NEW v \in Request \ {w}
  PROVE  Ordered(v, w)' /\ Ordered(w, v)'
<1>1. req'[v] = req[v] /\ UNCHANGED <<log, thisWeek>>
  BY DEF Arrives, Quiet
<1>2. Ordered(v, w) /\ Ordered(w, v) /\ Dates(v)
  BY DEF Calendar
<1>3. Ordered(v, w)'
  <2>1. req'[w].pc \in Carrying =>
          req[w].pc \in Carrying /\ req'[w].log = req[w].log /\ req'[w].to = req[w].to
    BY DEF Carrying, Arrives, CopyArrives
  <2> QED
    BY <1>1, <1>2, <2>1 DEF Ordered
<1>4. Ordered(w, v)'
  <2> SUFFICES ASSUME req'[w].pc \in Patching, req[v].pc \in Carrying, req'[w].log = req[v].log
               PROVE  WeekOf(req[v].to) <= WeekOf(req'[w].row.day)
    BY <1>1 DEF Ordered
  <2>1. CASE req'[w].pc = "Lock" /\ log[req'[w].log].state = "NONE"
    BY <2>1 DEF Locks, Known, Carrying, LogKnown
  <2>2. CASE req'[w].pc = "Save"
    BY <1>2, <2>2 DEF Dates, Copying, Arrives, SaveArrives
  <2>3. CASE /\ req[w].pc \in Patching /\ req'[w].log = req[w].log
             /\ req'[w].row.day = req[w].row.day
    BY <1>2, <2>3 DEF Ordered
  <2> QED
    BY <2>1, <2>2, <2>3 DEF Patching, Arrives, LockArrives, LinkArrives, SaveArrives
<1> QED
  BY <1>3, <1>4

LEMMA CalendarQuiet ==
  ASSUME Locks, Locks', Calendar, NEW w \in Request, QuietStep(w)
  PROVE  Calendar'
<1>1. Arrives(w)
  BY QuietArrives DEF Locks
<1>2. /\ UNCHANGED <<log, thisWeek>> /\ \A v \in Request \ {w} : req'[v] = req[v]
  BY <1>1 DEF Arrives, Quiet
<1>3. NeverOnALaterSheet' /\ Past'
  BY <1>2 DEF Calendar, NeverOnALaterSheet, Past
<1>4. \A v \in Request : Dates(v)'
  BY <1>1, <1>2, DatesQuiet DEF Calendar, Dates
<1>5. \A v, u \in Request : Ordered(v, u)'
  <2>1. ASSUME NEW v \in Request \ {w}, NEW u \in Request \ {w} PROVE Ordered(v, u)'
    BY <1>2 DEF Calendar, Ordered
  <2>2. Ordered(w, w)'
    BY DEF Ordered, Patching, Carrying
  <2> QED
    BY <1>1, <2>1, <2>2, OrderedQuiet
<1> QED
  BY <1>3, <1>4, <1>5 DEF Calendar

\* The writing of an entry.
LEMMA CalendarRewrite ==
  ASSUME Locks, Calendar, NEW l \in Log, NEW W, Rewrites(l, W),
         log'[l].week <= thisWeek,
         log'[l].state = "LIVE" => log'[l].week <= WeekOf(log'[l].day),
         \A v \in Request \ W : req[v].pc \in Carrying /\ req[v].log = l
           => WeekOf(req[v].to) <= WeekOf(log'[l].day),
         \A w \in W \cap Request : /\ Dates(w)'
                                   /\ \A v \in Request : Ordered(w, v)' /\ Ordered(v, w)'
  PROVE  Calendar'
<1>1. thisWeek' = thisWeek /\ \A m \in Log \ {l} : log'[m] = log[m]
  BY DEF Rewrites
<1>2. NeverOnALaterSheet'
  BY <1>1 DEF Calendar, NeverOnALaterSheet
<1>3. Past'
  BY <1>1 DEF Calendar, Past
<1>4. ASSUME NEW v \in Request \ W PROVE Dates(v)'
  <2>1. req'[v] = req[v] /\ Dates(v)
    BY DEF Rewrites, Calendar
  <2>2. req[v].pc \in Carrying => WeekOf(req[v].to) <= WeekOf(log'[req[v].log].day)
    <3>1. req[v].pc \in Carrying => req[v].log \in Log
      BY DatesHave DEF Locks
    <3> QED
      BY <1>1, <2>1, <3>1 DEF Dates
  <2> QED
    BY <1>1, <2>1, <2>2 DEF Dates
<1>5. ASSUME NEW v \in Request \ W, NEW u \in Request \ W PROVE Ordered(v, u)'
  BY DEF Rewrites, Calendar, Ordered
<1> QED
  BY <1>2, <1>3, <1>4, <1>5 DEF Calendar

LEMMA CalendarCommit ==
  ASSUME Locks, Calendar, NEW w \in Request, LinkCommit(w) \/ UpdateTotal(w)
  PROVE  Calendar'
<1>1. PICK l \in Log, e \in Entry : l = req[w].log /\ e = req[w].row
  BY CommitRewrites DEF SumReq
<1>2. /\ Rewrites(l, {w}) /\ log'[l] = e /\ req'[w].pc = "Idle" /\ req[w].pc \in Patching
  BY <1>1, CommitRewrites DEF SumReq, Patching
<1>3. e.week <= WeekOf(e.day) /\ WeekOf(e.day) <= thisWeek
  BY <1>1, <1>2 DEF Calendar, Dates
<1>4. e.week <= thisWeek
  <2>1. e.week \in 0..LastWeek /\ e.day \in Day
    BY DEF Entry
  <2>2. PICK a \in 0..LastWeek : a = e.week
    BY <2>1
  <2>3. PICK b \in Week : b = WeekOf(e.day)
    BY <2>1, WeekOfDay
  <2>4. PICK c \in Week : c = thisWeek
    <3>1. Types
      BY DEF Locks
    <3>2. thisWeek \in Week
      BY <3>1, Typed
    <3> QED
      BY <3>2
  <2>5. a <= b /\ b <= c
    BY <1>3, <2>2, <2>3, <2>4
  <2>6. a <= c
    <3>1. a \in Int /\ b \in Int /\ c \in Int
      BY <2>2, <2>3, <2>4, Given
    <3> QED
      BY <2>5, <3>1
  <2> QED
    BY <2>2, <2>4, <2>6
<1>5. \A v \in Request : req[v].pc \in Carrying /\ req[v].log = l
        => WeekOf(req[v].to) <= WeekOf(e.day)
  BY <1>1, <1>2 DEF Calendar, Ordered
<1>6. Dates(w)' /\ \A v \in Request : Ordered(w, v)' /\ Ordered(v, w)'
  BY <1>2 DEF Dates, Ordered, Patching, Carrying, Copying
<1> QED
  BY <1>2, <1>3, <1>4, <1>5, <1>6, CalendarRewrite

LEMMA CalendarCreate ==
  ASSUME Locks, Calendar, NEW w \in Request, CopyCreate(w)
  PROVE  Calendar'
<1>1. CASE Done(w) /\ UNCHANGED <<log, sheet, thisWeek, late, behind, raced, drifted, unaudited>>
  <2>1. req'[w].pc = "Idle" /\ \A v \in Request \ {w} : req'[v] = req[v]
    BY <1>1, Finishes DEF Locks
  <2> QED
    BY <1>1, <2>1, CalendarStays DEF Patching, Copying, Carrying
<1>2. ASSUME NEW n \in Log, Rewrites(n, {w}), log[n].state = "NONE", log'[n].week = 0,
             log'[n].day = req[w].to, req'[w].pc = "CopyFind", req'[w].log = n,
             req'[w].to = req[w].to, req[w] \in CopyReq
      PROVE  Calendar'
  <2>1. PICK d \in Day : d = req[w].to
    BY <1>2 DEF CopyReq
  <2>2. PICK b \in Week : b = WeekOf(d)
    BY WeekOfDay
  <2>3. PICK t \in Nat : t = thisWeek
    BY Given, Typed DEF Locks
  <2>9. 0 <= b /\ 0 <= t /\ b <= b
    <3>1. b \in Nat
      BY <2>2, Given
    <3> QED
      BY <2>3, <3>1
  <2>4. b <= thisWeek
    BY <1>2, <2>1, <2>2 DEF Calendar, Dates, Copying, CopyReq
  <2>5. \A v \in Request : req[v].pc \in Patching \cup Carrying => req[v].log # n
    BY <1>2 DEF Locks, Rewrites, Known, LogKnown, LogLock, Patching, Carrying, CopyReq
  <2>6. Dates(w)'
    BY <1>2, <2>1, <2>2, <2>4, <2>9 DEF Dates, Patching, Copying, Carrying, Rewrites
  <2>7. \A v \in Request \ {w} : req'[v] = req[v]
    BY <1>2 DEF Rewrites
  <2>8. \A v \in Request : Ordered(w, v)' /\ Ordered(v, w)'
    BY <1>2, <2>5, <2>7 DEF Ordered, Patching, Carrying
  <2> QED
    BY <1>2, <2>1, <2>2, <2>3, <2>5, <2>6, <2>8, <2>9, CalendarRewrite
<1> QED
  BY <1>1, <1>2, CopyRewrites

LEMMA CalendarLink ==
  ASSUME Locks, Calendar, NEW w \in Request, CopyLink(w)
  PROVE  Calendar'
<1>1. PICK l \in Log, k \in Week, d \in Day : l = req[w].log /\ k = req[w].week /\ d = req[w].to
  BY LinkRewrites DEF LinkedReq
<1>2. /\ Rewrites(l, {w}) /\ log'[l].week = k /\ log'[l].day = log[l].day
      /\ req[w].pc = "CopyLink" /\ req'[w].pc = "CopySum" /\ req'[w].to = d
  BY <1>1, LinkRewrites
<1>3. k = WeekOf(d) /\ k <= WeekOf(log[l].day) /\ k <= thisWeek
  BY <1>1, <1>2 DEF Calendar, Dates, Copying, Carrying
<1>4. \A v \in Request : req[v].pc \in Carrying /\ req[v].log = l
        => WeekOf(req[v].to) <= WeekOf(log[l].day)
  BY DEF Calendar, Dates
<1>5. Dates(w)' /\ \A v \in Request : Ordered(w, v)' /\ Ordered(v, w)'
  BY <1>2, <1>3 DEF Dates, Ordered, Patching, Carrying, Copying, Rewrites
<1> QED
  BY <1>2, <1>3, <1>4, <1>5, CalendarRewrite

LEMMA CalendarStep ==
  ASSUME Locks, Locks', Calendar, [Next]_vars
  PROVE  Calendar'
<1>1. ASSUME NEW w \in Request, StatusSave(w) PROVE Calendar'
  <2>1. /\ UNCHANGED <<log, thisWeek>> /\ req'[w].pc = "Audit"
        /\ \A v \in Request \ {w} : req'[v] = req[v]
    BY <1>1, StatusDecides DEF Locks
  <2> QED
    BY <2>1, CalendarStays DEF Patching, Copying, Carrying
<1>2. ASSUME NEW l \in Log, LogDelete(l) PROVE Calendar'
  <2>1. /\ Rewrites(l, {}) /\ log'[l].state = "DELETED" /\ log'[l].week = log[l].week
        /\ log'[l].day = log[l].day
    BY <1>2, DeleteRewrites
  <2>2. log'[l].week <= thisWeek
    BY <2>1 DEF Calendar, Past
  <2>3. \A v \in Request : req[v].pc \in Carrying /\ req[v].log = l
          => WeekOf(req[v].to) <= WeekOf(log'[l].day)
    BY <2>1 DEF Calendar, Dates
  <2> QED
    BY <2>1, <2>2, <2>3, CalendarRewrite
<1>3. CASE NextWeek
  <2>1. thisWeek' = thisWeek + 1 /\ UNCHANGED <<log, req>>
    BY <1>3 DEF NextWeek
  <2>2. PICK t \in Nat : t = thisWeek /\ thisWeek' = t + 1
    BY <2>1, Given, Typed DEF Locks
  <2>3. ASSUME NEW l \in Log PROVE log'[l].week <= thisWeek'
    <3>1. PICK a \in Int : a = log[l].week
      BY Typed DEF Locks, LogRow
    <3>2. a <= t
      BY <2>2, <3>1 DEF Calendar, Past
    <3> QED
      BY <2>1, <2>2, <3>1, <3>2
  <2>4. ASSUME NEW v \in Request PROVE Dates(v)'
    <3>1. Dates(v)
      BY DEF Calendar
    <3>2. ASSUME NEW d \in Day, WeekOf(d) <= thisWeek PROVE WeekOf(d) <= thisWeek'
      <4>1. PICK b \in Nat : b = WeekOf(d)
        BY WeekOfDay, Given
      <4> QED
        BY <2>2, <3>2, <4>1
    <3>3. /\ req[v].pc \in Patching => req[v].row.day \in Day
          /\ req[v].pc \in Copying => req[v].to \in Day
      BY DatesHave DEF Locks, Entry
    <3> QED
      BY <2>1, <3>1, <3>2, <3>3 DEF Dates
  <2>5. NeverOnALaterSheet' /\ \A v, w \in Request : Ordered(v, w)'
    BY <2>1 DEF Calendar, NeverOnALaterSheet, Ordered
  <2> QED
    BY <2>3, <2>4, <2>5 DEF Calendar, Past
<1>4. CASE UNCHANGED vars
  BY <1>4, CalendarStays DEF vars
<1> QED
  BY <1>1, <1>2, <1>3, <1>4, CalendarQuiet, CalendarCommit, CalendarCreate, CalendarLink, StepKinds

(***************************************************************************)
(* The theorems                                                            *)
(***************************************************************************)
\* What holds of every state: who holds which row, what each request has read
\* and not been overtaken in, and what the sheets show because of it.
TimesheetInv ==
  /\ Locks
  /\ \A w \in Request : Checks(w)
  /\ TotalIsSum
  /\ \A w \in Request : SumHolds(w)
  /\ AuditAgrees
  /\ \A w \in Request : Audits(w)
  /\ Calendar

LEMMA InvInit == Init => TimesheetInv
<1> SUFFICES ASSUME Init PROVE TimesheetInv
  OBVIOUS
<1>1. \A w \in Request : req[w] = [pc |-> "Idle"]
  BY DEF Init
<1>2. \A l \in Log : log[l].state = "NONE" /\ log[l].week = 0
  BY DEF Init, NoLog
<1>3. \A w \in Request : Checks(w) /\ SumHolds(w) /\ Audits(w)
  BY <1>1 DEF Checks, EntryChecked, SheetChecked, StatusChecked, SumHolds, Audits, At
<1>4. TotalIsSum
  <2>1. HoursOf({}) = 0
    BY HoursAre, SumOfNothing
  <2>2. ASSUME NEW k \in Week PROVE sheet[k].total = HoursOf(OnSheet(k))
    <3>1. OnSheet(k) = {}
      BY <1>2 DEF OnSheet
    <3>2. sheet[k].total = 0
      BY DEF Init
    <3> QED
      BY <2>1, <3>1, <3>2
  <2> QED
    BY <2>2 DEF TotalIsSum
<1>5. AuditAgrees
  BY DEF AuditAgrees, Init, Actions
<1>6. Calendar
  <2>1. NeverOnALaterSheet
    BY <1>2 DEF NeverOnALaterSheet
  <2>2. Past
    <3>1. thisWeek = 1 /\ 0 <= 1
      BY DEF Init
    <3> QED
      BY <1>2, <3>1 DEF Past
  <2>3. \A w \in Request : Dates(w) /\ \A v \in Request : Ordered(v, w)
    BY <1>1 DEF Dates, Ordered, Patching, Copying, Carrying
  <2> QED
    BY <2>1, <2>2, <2>3 DEF Calendar
<1> QED
  BY <1>3, <1>4, <1>5, <1>6, LocksInit DEF TimesheetInv

LEMMA InvStep == TimesheetInv /\ [Next]_vars => TimesheetInv'
<1> SUFFICES ASSUME TimesheetInv, [Next]_vars PROVE TimesheetInv'
  OBVIOUS
<1>1. /\ Locks /\ Calendar /\ TotalIsSum /\ AuditAgrees
      /\ \A v \in Request : Checks(v)
      /\ \A v \in Request : SumHolds(v)
      /\ \A v \in Request : Audits(v)
  BY DEF TimesheetInv
<1>2. Locks'
  BY <1>1, LocksStep
<1>3. \A v \in Request : Checks(v)'
  BY <1>1, <1>2, ChecksStep
<1>4. TotalIsSum' /\ \A v \in Request : SumHolds(v)'
  BY <1>1, <1>2, SumsStep
<1>5. AuditAgrees' /\ \A v \in Request : Audits(v)'
  BY <1>1, AuditsStep
<1>6. Calendar'
  BY <1>1, <1>2, CalendarStep
<1> QED
  BY <1>2, <1>3, <1>4, <1>5, <1>6 DEF TimesheetInv

LEMMA InvShows == TimesheetInv => SheetAgrees
<1> SUFFICES ASSUME TimesheetInv PROVE SheetAgrees
  OBVIOUS
<1>1. TypeOK /\ \A w \in Request : Excused(w)
  BY DEF TimesheetInv, Locks, Types
<1>2. ExcusesEnd
  <2>1. late \subseteq Request /\ behind \subseteq Request
    BY <1>1 DEF TypeOK
  <2> QED
    BY <1>1, <2>1 DEF ExcusesEnd, Excused, LatePcs, InSummed, InChecked, At
<1> QED
  BY <1>1, <1>2 DEF SheetAgrees, TimesheetInv, Calendar

\* The inductive invariant holds of every reachable state.
THEOREM TimesheetInvariant == Spec => []TimesheetInv
  BY InvInit, InvStep, PTL DEF Spec

\* For any number of requests, entries, weeks and hours: total_hours is the sum
\* of the sheet's entries but for the copies, deletions and overtaken refreshes
\* TotalIsSum names, the review log ends in what the status says, and no entry
\* counts towards a week later than its day (refresh_weekly_totals,
\* link_work_log_to_week, TimesheetReviewLog).
THEOREM TheSheetsAgree == Spec => []SheetAgrees
  BY TimesheetInvariant, InvShows, PTL

\* Sheets, logs and requests stay well typed (WeeklyTimesheet, WorkLog).
THEOREM TypeCorrect == Spec => []TypeOK
<1>1. SheetAgrees => TypeOK
  BY DEF SheetAgrees
<1> QED
  BY <1>1, TheSheetsAgree, PTL

\* For any number of requests: a submitted sheet takes no new entry, none of its
\* entries changes but by a deletion or a request that has been overtaken, and
\* it is submitted and decided once (assert_week_editable, submit_timesheet,
\* approve_timesheet, reject_timesheet).
THEOREM ClosedSheetsAreSealed == Spec => Sealed
<1>1. TimesheetInv /\ [Next]_vars =>
        [NoLateEntryStep /\ SealedUnlessRacedStep /\ StatusMovesStep]_vars
  <2> SUFFICES ASSUME TimesheetInv, [Next]_vars
               PROVE  NoLateEntryStep /\ SealedUnlessRacedStep /\ StatusMovesStep
    OBVIOUS
  <2>1. Locks /\ \A w \in Request : Checks(w)
    BY DEF TimesheetInv
  <2> QED
    BY <2>1, StepSeals
<1> QED
  BY <1>1, TimesheetInvariant, PTL DEF Spec, Sealed

\* In particular the row lock closes the race between a create and a submission:
\* no entry arrives on a sheet that is submitted or approved, and here nobody
\* is excused (WorkLogCreateSerializer.create, link_work_log_to_week).
THEOREM LateEntriesAreRefused == Spec => NoLateEntry
<1>1. [NoLateEntryStep /\ SealedUnlessRacedStep /\ StatusMovesStep]_vars => [NoLateEntryStep]_vars
  OBVIOUS
<1> QED
  BY <1>1, ClosedSheetsAreSealed, PTL DEF Sealed, NoLateEntry
=============================================================================
