---------------------------- MODULE ClockProofs ----------------------------
(***************************************************************************)
(* Theorems about Clock for every set of requests, types of break,         *)
(* allowances, shifts and corrections: BreaksAreKept is the visible part   *)
(* of an inductive invariant, and the clock goes by the shift.  What makes *)
(* the invariant inductive is what a request that was not outdated still   *)
(* knows of the day, and that the breaks so far fit before the open one.   *)
(***************************************************************************)
EXTENDS Clock, Sums, TLAPS

(***************************************************************************)
(* The durations of breaks                                                 *)
(***************************************************************************)
\* Total is a sum over the breaks.
LEMMA TotalIs ==
  ASSUME NEW ks \in SUBSET DOMAIN breaks, IsFiniteSet(ks)
  PROVE  Total(ks) = SumOf([k \in DOMAIN breaks |-> Duration(breaks[k])], ks)
<1> DEFINE h == [k \in DOMAIN breaks |-> Duration(breaks[k])]
           F(g) == [s \in SUBSET ks |->
                      IF s = {} THEN 0
                      ELSE LET x == CHOOSE x \in s : TRUE
                           IN Duration(breaks[x]) + g[s \ {x}]]
<1>1. \A s \in SUBSET ks : s # {} => Choice(s) \in DOMAIN breaks
  BY DEF Choice
<1>2. \A g : F(g) = [s \in SUBSET ks |->
                       IF s = {} THEN 0 ELSE h[Choice(s)] + g[s \ {Choice(s)}]]
  BY <1>1 DEF Choice
<1>3. Total(ks) = (CHOOSE g : g = F(g))[ks]
  BY DEF Total, MapThenSumSet, MapThenFoldSet
<1> HIDE DEF F, h
<1>4. PICK it : IsSums(it, h, ks) /\ SumOf(h, ks) = it[ks]
  BY SumOfIsSum
<1>5. it = F(it)
  BY <1>2, <1>4 DEF IsSums
<1>6. PICK jt : jt = CHOOSE g : g = F(g)
  OBVIOUS
<1>7. IsSums(jt, h, ks)
  BY <1>2, <1>5, <1>6 DEF IsSums
<1>8. jt[ks] = it[ks]
  BY <1>4, <1>7, SumsAgree
<1> QED
  BY <1>3, <1>4, <1>6, <1>8 DEF h

\* The same in one formula, and after a step.
TotalsAddUp ==
  \A ks \in SUBSET DOMAIN breaks : IsFiniteSet(ks) =>
    Total(ks) = SumOf([k \in DOMAIN breaks |-> Duration(breaks[k])], ks)

LEMMA TotalsNow == TotalsAddUp
  BY TotalIs DEF TotalsAddUp

LEMMA TotalsThen == TotalsAddUp'
  BY TotalsNow, PTL

\* Breaks last a number of units, which is 0 while they last.
Moment == Times \cup {Unset}
Break == [type : BreakType, start : Times, end : Moment, by : {"nobody", "employee", "out"}]

LEMMA DurationIs ==
  \A b \in Break : /\ Duration(b) \in Nat
                   /\ b.end = Unset => Duration(b) = 0
                   /\ b.end # Unset /\ b.start <= b.end => Duration(b) = b.end - b.start
  BY ClockAssumption DEF Duration, Break, Moment, Times, ClockAssumption

\* The breaks are a sequence, so there are finitely many.
BreaksAre == breaks \in Seq(Break)

LEMMA BreaksFinite ==
  ASSUME BreaksAre
  PROVE  /\ Len(breaks) \in Nat /\ DOMAIN breaks = 1 .. Len(breaks)
         /\ \A ks \in SUBSET DOMAIN breaks : IsFiniteSet(ks)
         /\ \A k \in DOMAIN breaks : k \in Nat /\ breaks[k] \in Break
<1>1. Len(breaks) \in Nat /\ DOMAIN breaks = 1 .. Len(breaks)
  BY DEF BreaksAre
<1>2. IsFiniteSet(1 .. Len(breaks))
  BY <1>1, FS_Interval
<1>3. \A ks \in SUBSET DOMAIN breaks : IsFiniteSet(ks)
  BY <1>1, <1>2, FS_Subset
<1> QED
  BY <1>1, <1>3 DEF BreaksAre

\* Totals are natural numbers, ...
LEMMA TotalsAreNat ==
  ASSUME BreaksAre, NEW ks \in SUBSET DOMAIN breaks
  PROVE  Total(ks) \in Nat
<1> DEFINE h == [k \in DOMAIN breaks |-> Duration(breaks[k])]
<1>1. IsFiniteSet(ks) /\ \A k \in ks : h[k] \in Nat
  BY BreaksFinite, DurationIs
<1>2. SumOf(h, ks) \in Nat
  <2> HIDE DEF h
  <2> QED
    BY <1>1, SumOfNaturals
<1> QED
  BY <1>1, <1>2, TotalIs

\* ... one break may be set apart, ...
LEMMA TotalSplit ==
  ASSUME BreaksAre, NEW ks \in SUBSET DOMAIN breaks, NEW k \in ks
  PROVE  Total(ks) = Duration(breaks[k]) + Total(ks \ {k})
<1> DEFINE h == [j \in DOMAIN breaks |-> Duration(breaks[j])]
<1>1. IsFiniteSet(ks) /\ IsFiniteSet(ks \ {k}) /\ \A j \in ks : h[j] \in Nat
  BY BreaksFinite, DurationIs
<1>2. SumOf(h, ks) = h[k] + SumOf(h, ks \ {k})
  <2> HIDE DEF h
  <2> QED
    BY <1>1, SumOfSplit
<1> QED
  BY <1>1, <1>2, TotalIs

\* ... fewer breaks take no longer, ...
LEMMA TotalOfFewer ==
  ASSUME BreaksAre, NEW ks \in SUBSET DOMAIN breaks, NEW js \in SUBSET ks
  PROVE  Total(js) <= Total(ks)
<1> DEFINE h == [k \in DOMAIN breaks |-> Duration(breaks[k])]
           g == [k \in DOMAIN breaks |-> IF k \in js THEN h[k] ELSE 0]
<1>1. IsFiniteSet(ks) /\ IsFiniteSet(js) /\ \A k \in ks : h[k] \in Nat
  BY BreaksFinite, DurationIs
<1>2. (\A k \in ks : g[k] \in Nat /\ g[k] <= h[k]) /\ (\A k \in ks \ js : g[k] = 0)
      /\ \A k \in js : g[k] = h[k]
  BY <1>1
<1>3. Total(js) = SumOf(h, js) /\ Total(ks) = SumOf(h, ks)
  BY <1>1, TotalIs
<1> HIDE DEF g, h
<1>4. SumOf(g, ks) = SumOf(g, js)
  BY <1>1, <1>2, SumOfRest
<1>5. SumOf(g, js) = SumOf(h, js)
  BY <1>1, <1>2, SumOfSame
<1>6. SumOf(g, ks) <= SumOf(h, ks)
  BY <1>1, <1>2, SumOfGrowing
<1> QED
  BY <1>3, <1>4, <1>5, <1>6

\* ... and breaks that stay as long add up to what they did.
LEMMA TotalStays ==
  ASSUME BreaksAre, NEW ks \in SUBSET DOMAIN breaks, ks \subseteq DOMAIN breaks',
         \A k \in ks : Duration(breaks[k])' = Duration(breaks[k])
  PROVE  Total(ks)' = Total(ks)
<1> DEFINE h == [k \in DOMAIN breaks |-> Duration(breaks[k])]
           g == [k \in DOMAIN breaks' |-> Duration(breaks'[k])]
<1>1. IsFiniteSet(ks) /\ \A k \in ks : h[k] = g[k]
  BY BreaksFinite
<1>2. SumOf(h, ks) = SumOf(g, ks)
  <2> HIDE DEF h, g
  <2> QED
    BY <1>1, SumOfSame
<1>3. Total(ks) = SumOf(h, ks) /\ Total(ks)' = SumOf(g, ks)
  BY <1>1, TotalsNow, TotalsThen DEF TotalsAddUp
<1> QED
  BY <1>2, <1>3

\* After a step, too, one may be set apart.
LEMMA TotalSplitThen ==
  BreaksAre' => \A ks \in SUBSET DOMAIN breaks' : \A k \in ks :
                  Total(ks)' = Duration(breaks[k])' + Total(ks \ {k})'
<1> DEFINE P == BreaksAre => \A ks \in SUBSET DOMAIN breaks : \A k \in ks :
                               Total(ks) = Duration(breaks[k]) + Total(ks \ {k})
<1>1. P
  BY TotalSplit
<1>2. P'
  BY <1>1, PTL
<1> QED
  BY <1>2

(***************************************************************************)
(* The invariant                                                           *)
(***************************************************************************)
\* What requests carry, by where they are.
DayReq == [pc : {"SaveIn", "Close", "SaveOut", "Look", "Create"}, time : Times, stale : BOOLEAN]
BreakReq == [pc : {"Sum", "SaveEnd"}, time : Times, stale : BOOLEAN, k : Nat]
Req == {Idle} \cup DayReq \cup BreakReq

\* What a request holds was there when it arrived.
Arrived(r) ==
  /\ r.pc # "Idle" => row.there /\ r.time <= now
  /\ r.pc \in {"Sum", "SaveEnd"} => r.k \in DOMAIN breaks

Types ==
  /\ row \in [there : BOOLEAN, in : Moment, out : Moment]
  /\ ~ row.there => row.in = Unset /\ row.out = Unset
  /\ BreaksAre /\ \A k \in DOMAIN breaks : breaks[k].start <= now
  /\ now \in Times /\ shift \in Shifts
  /\ enabled \in BOOLEAN /\ overtaken \in BOOLEAN /\ corrected \in BOOLEAN
  /\ req \in [Request -> Req] /\ \A w \in Request : Arrived(req[w])

\* What a request that is not outdated has seen is so: r is what it holds.
EndsOpen(r) == r.k \in Open /\ breaks[r.k].start <= r.time
HasRoom(r) ==
  LET b == breaks[r.k]
  IN Total(Finished(b.type) \ {r.k}) + (r.time - b.start) <= BreakMax[b.type]
IsSo(r) ==
  ~ r.stale =>
    /\ r.pc = "SaveIn" => row.in = Unset
    /\ r.pc \in {"Close", "SaveOut"} => row.out = Unset
    /\ r.pc \in {"Look", "Create"} => row.in # Unset /\ row.out = Unset
    /\ r.pc = "Close" => \A k \in Open : breaks[k].start <= r.time
    /\ r.pc \in {"SaveOut", "Create"} => Open = {}
    /\ r.pc \in {"Sum", "SaveEnd"} => EndsOpen(r)
    /\ r.pc = "SaveEnd" => HasRoom(r)

SeenIsSo == \A w \in Request : ~ At(w, "Idle") => IsSo(req[w])

\* As long as no request was overtaken and nobody entered times, breaks come
\* one at a time, while the day lasts, ...
Sound == ~ overtaken /\ ~ corrected
OneAtATime ==
  Sound => /\ \A j, k \in Open : j = k
           /\ row.out # Unset => Open = {}
           /\ row.in = Unset => breaks = << >>

\* ... and fit, those that have ended, before the one that is open, before the
\* time of who is about to end the day, and into the day.
Rested == Total(DOMAIN breaks)
FitsBefore(t) == row.in <= t /\ Rested <= t - row.in
Closes(r) ==
  r.pc # "Idle" => (~ r.stale => /\ r.pc = "Close" /\ Open = {} => FitsBefore(r.time)
                                 /\ r.pc = "SaveOut" => FitsBefore(r.time))
InTurn ==
  Sound /\ row.in # Unset =>
    /\ row.in <= now
    /\ Open = {} => FitsBefore(now)
    /\ \A k \in Open : FitsBefore(breaks[k].start)
    /\ row.out # Unset /\ row.in <= row.out => FitsBefore(row.out)
    /\ \A w \in Request : Closes(req[w])

\* The breaks of a type that count for the allowance.
Own(type) == {k \in Finished(type) : breaks[k].by = "employee"}

ClockInv == Types /\ SeenIsSo /\ OneAtATime /\ InTurn /\ AllowanceIsKept

\* The invariant says what the runs check.
LEMMA OnlyOne ==
  ASSUME NEW S, IsFiniteSet(S), \A j, k \in S : j = k
  PROVE  Cardinality(S) <= 1
<1>1. CASE S = {}
  BY <1>1, FS_EmptySet
<1>2. CASE S # {}
  <2>1. PICK x : S = {x}
    BY <1>2
  <2> QED
    BY <2>1, FS_Singleton
<1> QED
  BY <1>1, <1>2

LEMMA KeptByInv == ClockInv => BreaksAreKept
<1> SUFFICES ASSUME ClockInv PROVE BreaksAreKept
  OBVIOUS
<1>1. Types /\ BreaksAre
  BY DEF ClockInv, Types
<1>2. \A k \in DOMAIN breaks : breaks[k] \in Break
  BY <1>1, BreaksFinite
<1>3. \A w \in Request : req[w] \in Req
  BY <1>1 DEF Types
<1>4. TypeOK
  <2>1. \A r \in Req : r.pc \in {"Idle", "SaveIn", "Close", "SaveOut", "Look", "Create", "Sum", "SaveEnd"}
    BY DEF Req, Idle, DayReq, BreakReq
  <2> QED
    BY <1>1, <1>2, <1>3, <2>1 DEF Types, TypeOK, Moment, Break
<1>5. OneBreakWithinTheDay
  <2>1. IsFiniteSet(Open)
    BY <1>1, BreaksFinite DEF Open
  <2>2. Sound => Cardinality(Open) <= 1 /\ (row.out # Unset => Open = {})
    BY <2>1, OnlyOne DEF ClockInv, OneAtATime
  <2> QED
    BY <2>2 DEF OneBreakWithinTheDay, Sound
<1>6. BreaksFitTheDay
  BY DEF ClockInv, InTurn, FitsBefore, Rested, BreaksFitTheDay, Sound
<1> QED
  BY <1>4, <1>5, <1>6 DEF BreaksAreKept, ClockInv

\* Nothing has happened yet.
LEMMA InvInit == Init => ClockInv
<1> SUFFICES ASSUME Init PROVE ClockInv
  OBVIOUS
<1>1. /\ row \in [there : BOOLEAN, in : {Unset}, out : {Unset}] /\ row.in = Unset /\ row.out = Unset
      /\ breaks = << >> /\ now = 0 /\ shift \in Shifts /\ enabled = FALSE
      /\ req = [w \in Request |-> Idle] /\ overtaken = FALSE /\ corrected = FALSE
  BY DEF Init, Idle
<1>2. 0 \in Times
  BY ClockAssumption DEF ClockAssumption, Times
<1>3. BreaksAre /\ DOMAIN breaks = {} /\ Open = {}
  BY <1>1 DEF BreaksAre, Open
<1>4. \A w \in Request : req[w] = Idle /\ req[w].pc = "Idle"
  BY <1>1 DEF Idle
<1>5. Types
  <2>1. row \in [there : BOOLEAN, in : Moment, out : Moment]
    BY <1>1 DEF Moment
  <2>2. req \in [Request -> Req] /\ \A w \in Request : Arrived(req[w])
    BY <1>1, <1>4 DEF Req, Arrived
  <2> QED
    BY <1>1, <1>2, <1>3, <2>1, <2>2 DEF Types
<1>6. SeenIsSo
  BY <1>4 DEF SeenIsSo, At
<1>7. OneAtATime /\ InTurn
  BY <1>1, <1>3 DEF OneAtATime, InTurn
<1>8. AllowanceIsKept
  <2>1. ASSUME NEW type \in BreakType PROVE Total(Own(type)) <= BreakMax[type]
    <3>1. Own(type) = {}
      BY <1>3 DEF Own, Finished
    <3>2. Total({}) = 0
      BY <1>3, TotalIs, SumOfNothing, FS_EmptySet
    <3>3. BreakMax[type] \in Nat
      BY ClockAssumption DEF ClockAssumption
    <3> QED
      BY <3>1, <3>2, <3>3
  <2> QED
    BY <2>1 DEF AllowanceIsKept, Own
<1> QED
  BY <1>5, <1>6, <1>7, <1>8 DEF ClockInv
(***************************************************************************)
(* What a step leaves alone                                                *)
(***************************************************************************)
\* The breaks as they were: totals, and what was seen, stay.
LEMMA SameBreaks ==
  ASSUME BreaksAre, breaks' = breaks
  PROVE  /\ Open' = Open /\ Rested' = Rested
         /\ \A type : Own(type)' = Own(type) /\ Finished(type)' = Finished(type)
         /\ \A ks \in SUBSET DOMAIN breaks : Total(ks)' = Total(ks)
<1>1. Open' = Open /\ \A type : Own(type)' = Own(type) /\ Finished(type)' = Finished(type)
  BY DEF Open, Finished, Own
<1>2. \A ks \in SUBSET DOMAIN breaks : Total(ks)' = Total(ks)
  <2> SUFFICES ASSUME NEW ks \in SUBSET DOMAIN breaks PROVE Total(ks)' = Total(ks)
    OBVIOUS
  <2>1. \A k \in ks : Duration(breaks[k])' = Duration(breaks[k])
    OBVIOUS
  <2> QED
    BY <2>1, TotalStays
<1>3. PICK D : D = DOMAIN breaks /\ D = DOMAIN breaks'
  OBVIOUS
<1>4. Rested = Total(D) /\ Rested' = Total(D)'
  BY <1>3 DEF Rested
<1> QED
  BY <1>1, <1>2, <1>3, <1>4

LEMMA AllowanceStays ==
  ASSUME ClockInv, breaks' = breaks, overtaken => overtaken'
  PROVE  AllowanceIsKept'
<1> SUFFICES ASSUME ~ overtaken', NEW type \in BreakType PROVE Total(Own(type))' <= BreakMax[type]
  BY DEF AllowanceIsKept, Own
<1>1. BreaksAre
  BY DEF ClockInv, Types
<1>2. PICK ks : ks = Own(type) /\ ks = Own(type)'
  BY <1>1, SameBreaks
<1>3. ks \in SUBSET DOMAIN breaks
  BY <1>2 DEF Own, Finished
<1>4. Total(Own(type))' = Total(Own(type))
  BY <1>1, <1>2, <1>3, SameBreaks
<1>5. Total(Own(type)) <= BreakMax[type]
  BY DEF ClockInv, AllowanceIsKept, Own
<1> QED
  BY <1>4, <1>5

\* What holds of a request in a day that stays.
LEMMA SameDay ==
  ASSUME BreaksAre, UNCHANGED <<row, breaks>>, NEW r
  PROVE  IsSo(r)' = IsSo(r) /\ Closes(r)' = Closes(r)
<1>1. Open' = Open /\ Rested' = Rested
  BY SameBreaks
<1>2. EndsOpen(r)' = EndsOpen(r)
  BY <1>1 DEF EndsOpen
<1>3. HasRoom(r)' = HasRoom(r)
  <2>1. PICK b : b = breaks[r.k] /\ b = breaks'[r.k]
    OBVIOUS
  <2>2. PICK ks : ks = Finished(b.type) \ {r.k} /\ ks = Finished(b.type)' \ {r.k}
    BY SameBreaks
  <2>3. ks \in SUBSET DOMAIN breaks
    BY <2>2 DEF Finished
  <2>4. Total(ks)' = Total(ks)
    BY <2>3, SameBreaks
  <2>5. PICK n : n = Total(ks) /\ n = Total(ks)'
    BY <2>4
  <2>6. HasRoom(r) = (n + (r.time - b.start) <= BreakMax[b.type])
    BY <2>1, <2>2, <2>5 DEF HasRoom
  <2>7. HasRoom(r)' = (n + (r.time - b.start) <= BreakMax[b.type])
    BY <2>1, <2>2, <2>5 DEF HasRoom
  <2> QED
    BY <2>6, <2>7
<1>4. \A t : FitsBefore(t)' = FitsBefore(t)
  BY <1>1 DEF FitsBefore
<1> QED
  BY <1>1, <1>2, <1>3, <1>4 DEF IsSo, Closes

\* One request goes on to r, and nothing it or the others saw changes.
LEMMA OneGoesOn ==
  ASSUME ClockInv, NEW w \in Request, NEW r \in Req, req' = [req EXCEPT ![w] = r],
         UNCHANGED <<row, breaks, now, shift, enabled, overtaken, corrected>>,
         Arrived(r), r.pc # "Idle" => IsSo(r), Sound /\ row.in # Unset => Closes(r)
  PROVE  ClockInv'
<1>1. BreaksAre /\ Types /\ req \in [Request -> Req]
  BY DEF ClockInv, Types
<1>2. req' \in [Request -> Req] /\ req'[w] = r /\ \A x \in Request \ {w} : req'[x] = req[x]
  BY <1>1
<1>3. \A x \in Request : Arrived(req[x])'
  <2>1. \A q : Arrived(q)' = Arrived(q)
    BY DEF Arrived
  <2> QED
    BY <1>1, <1>2, <2>1 DEF Types
<1>4. Types'
  BY <1>1, <1>2, <1>3 DEF Types, BreaksAre
<1>5. \A q : IsSo(q)' = IsSo(q) /\ Closes(q)' = Closes(q)
  BY <1>1, SameDay
<1>6. SeenIsSo'
  BY <1>2, <1>5 DEF ClockInv, SeenIsSo, At
<1>7. Open' = Open /\ Rested' = Rested
  BY <1>1, SameBreaks
<1>8. OneAtATime'
  BY <1>7 DEF ClockInv, OneAtATime, Sound
<1>9. InTurn'
  <2>1. Sound' /\ row'.in # Unset => \A x \in Request : Closes(req'[x])
    BY <1>2 DEF ClockInv, InTurn, Sound
  <2>2. Sound' /\ row'.in # Unset => \A x \in Request : Closes(req[x])'
    BY <2>1, <1>5
  <2>3. \A t : FitsBefore(t)' = FitsBefore(t)
    BY <1>7 DEF FitsBefore
  <2> QED
    BY <1>7, <2>2, <2>3 DEF ClockInv, InTurn, Sound
<1>10. AllowanceIsKept'
  BY AllowanceStays
<1> QED
  BY <1>4, <1>6, <1>8, <1>9, <1>10 DEF ClockInv

\* What the others hold when somebody wrote is marked.
LEMMA OutdatedReq ==
  ASSUME Types, NEW x \in Request
  PROVE  /\ Outdated[x] \in Req /\ Arrived(Outdated[x])
         /\ Outdated[x].pc # "Idle" => Outdated[x].stale
<1>1. req[x] \in Req /\ Arrived(req[x])
  BY DEF Types
<1>2. PICK r : r = req[x]
  OBVIOUS
<1>3. Outdated[x] = IF r.pc = "Idle" THEN Idle ELSE [r EXCEPT !.stale = TRUE]
  BY <1>2 DEF Outdated, At
<1>4. CASE r.pc = "Idle"
  BY <1>3, <1>4 DEF Req, Idle, Arrived
<1>5. CASE r.pc # "Idle"
  <2>1. r \in DayReq \cup BreakReq
    BY <1>1, <1>2, <1>5 DEF Req, Idle
  <2>2. PICK q : q = [r EXCEPT !.stale = TRUE]
    OBVIOUS
  <2>3. q \in DayReq \cup BreakReq /\ q.pc = r.pc /\ q.time = r.time /\ q.stale
    BY <2>1, <2>2 DEF DayReq, BreakReq
  <2>4. r \in BreakReq => q.k = r.k
    BY <2>2 DEF BreakReq
  <2>5. r.pc \in {"Sum", "SaveEnd"} => r \in BreakReq
    BY <2>1 DEF DayReq
  <2> QED
    BY <1>1, <1>2, <1>3, <1>5, <2>2, <2>3, <2>4, <2>5 DEF Req, Arrived
<1> QED
  BY <1>4, <1>5

\* Somebody writes and goes on to r.
LEMMA OneWrites ==
  ASSUME ClockInv, NEW w \in Request, NEW r \in Req, Outdates(w, r),
         UNCHANGED <<now, shift, enabled, corrected>>, overtaken' \in BOOLEAN,
         row' \in [there : BOOLEAN, in : Moment, out : Moment], row'.there,
         BreaksAre', \A k \in DOMAIN breaks' : breaks'[k].start <= now,
         DOMAIN breaks \subseteq DOMAIN breaks',
         Arrived(r), r.pc # "Idle" => IsSo(r)'
  PROVE  /\ Types' /\ SeenIsSo' /\ req'[w] = r
         /\ \A x \in Request \ {w} : Closes(req[x])'
<1>1. Types
  BY DEF ClockInv
<1>2. req' = [Outdated EXCEPT ![w] = r]
  BY DEF Outdates
<1>3. req'[w] = r /\ \A x \in Request \ {w} : req'[x] = Outdated[x]
  BY <1>2 DEF Outdated
<1>4. req' \in [Request -> Req]
  <2>1. \A x \in Request : Outdated[x] \in Req
    BY <1>1, OutdatedReq
  <2>2. Outdated \in [Request -> Req]
    BY <2>1 DEF Outdated
  <2> QED
    BY <1>2, <2>2
<1>5. \A q : Arrived(q) => Arrived(q)'
  BY DEF Arrived
<1>6. \A x \in Request : Arrived(req'[x])
  BY <1>1, <1>3, OutdatedReq
<1>7. \A x \in Request : Arrived(req[x])'
  BY <1>5, <1>6
<1>8. Types'
  BY <1>1, <1>4, <1>7 DEF Types
<1>9. \A x \in Request \ {w} : req'[x].pc # "Idle" => req'[x].stale
  BY <1>1, <1>3, OutdatedReq
<1>10. \A q : q.stale => IsSo(q)' /\ Closes(q)'
  BY DEF IsSo, Closes
<1>11. \A x \in Request \ {w} : req'[x].pc # "Idle" => IsSo(req[x])'
  BY <1>9, <1>10
<1>12. SeenIsSo'
  BY <1>3, <1>11 DEF SeenIsSo, At
<1>13. \A q : q.pc = "Idle" => Closes(q)'
  BY DEF Closes
<1>14. \A x \in Request \ {w} : Closes(req[x])'
  BY <1>9, <1>10, <1>13
<1> QED
  BY <1>3, <1>8, <1>12, <1>14
(***************************************************************************)
(* Every step keeps the invariant                                          *)
(***************************************************************************)
\* Time goes on.
LEMMA TickKeeps ==
  ASSUME ClockInv, Tick
  PROVE  ClockInv'
<1>1. /\ now < DayEnd /\ now' = now + 1
      /\ UNCHANGED <<row, breaks, shift, enabled, req, overtaken, corrected>>
  BY DEF Tick
<1>2. BreaksAre /\ Types
  BY DEF ClockInv, Types
<1>3. DayEnd \in Nat /\ Unset \notin Int
  BY ClockAssumption DEF ClockAssumption
<1>4. now \in Nat /\ now' \in Times
  BY <1>1, <1>2, <1>3 DEF Types, Times
<1>5. \A k \in DOMAIN breaks : breaks[k].start \in Times
  BY <1>2, BreaksFinite DEF Break
<1>6. \A x \in Request : Arrived(req[x])'
  <2>1. ASSUME NEW r \in Req, Arrived(r) PROVE r.pc # "Idle" => r.time <= now + 1
    <3>1. r.pc # "Idle" => r.time \in Nat
      BY <1>3 DEF Req, Idle, DayReq, BreakReq, Times
    <3> QED
      BY <1>4, <2>1, <3>1 DEF Arrived
  <2> QED
    BY <1>1, <1>2, <2>1 DEF Types, Arrived
<1>7. Types'
  <2>1. \A k \in DOMAIN breaks' : breaks'[k].start <= now'
    BY <1>1, <1>2, <1>3, <1>4, <1>5 DEF Types, Times
  <2> QED
    BY <1>1, <1>2, <1>4, <1>6, <2>1 DEF Types, BreaksAre
<1>8. \A q : IsSo(q)' = IsSo(q) /\ Closes(q)' = Closes(q)
  BY <1>1, <1>2, SameDay
<1>9. Open' = Open /\ Rested' = Rested
  BY <1>1, <1>2, SameBreaks
<1>10. SeenIsSo'
  BY <1>1, <1>8 DEF ClockInv, SeenIsSo, At
<1>11. OneAtATime'
  BY <1>1, <1>9 DEF ClockInv, OneAtATime, Sound
<1>12. InTurn'
  <2> SUFFICES ASSUME Sound', row'.in # Unset PROVE InTurn'
    BY DEF InTurn
  <2>1. Sound /\ row.in # Unset /\ row' = row
    BY <1>1 DEF Sound
  <2>2. row.in \in Nat
    BY <1>2, <1>3, <2>1 DEF Types, Moment, Times
  <2>3. Rested \in Nat
    BY <1>2, TotalsAreNat DEF Rested
  <2>4. row.in <= now + 1 /\ (FitsBefore(now) => FitsBefore(now + 1))
    BY <1>4, <2>1, <2>2, <2>3 DEF ClockInv, InTurn, FitsBefore
  <2>5. \A t : FitsBefore(t)' = FitsBefore(t)
    BY <1>9, <2>1 DEF FitsBefore
  <2>6. Open' = {} => FitsBefore(now)'
    <3>1. Open = {} => FitsBefore(now + 1)
      BY <2>1, <2>4 DEF ClockInv, InTurn
    <3>2. FitsBefore(now)' = FitsBefore(now + 1)
      BY <1>1, <1>9, <2>1 DEF FitsBefore
    <3> QED
      BY <1>9, <3>1, <3>2
  <2>7. \A x \in Request : Closes(req[x])'
    BY <1>1, <1>8, <2>1 DEF ClockInv, InTurn
  <2>8. \A k \in Open' : FitsBefore(breaks'[k].start)
    BY <1>1, <1>9, <2>1 DEF ClockInv, InTurn
  <2>9. row.out # Unset /\ row.in <= row.out => FitsBefore(row.out)
    BY <2>1 DEF ClockInv, InTurn
  <2>10. (\A k \in Open : FitsBefore(breaks[k].start))' /\ (row.out # Unset /\ row.in <= row.out => FitsBefore(row.out))'
    BY <1>1, <1>9, <2>1, <2>8, <2>9 DEF FitsBefore
  <2> QED
    BY <1>1, <2>1, <2>4, <2>6, <2>7, <2>10 DEF InTurn
<1>13. AllowanceIsKept'
  BY <1>1, AllowanceStays
<1> QED
  BY <1>7, <1>10, <1>11, <1>12, <1>13 DEF ClockInv

\* HR lets somebody clock in at any time, which no request holds.
LEMMA EnableKeeps ==
  ASSUME ClockInv, Enable
  PROVE  ClockInv'
<1>1. enabled' = TRUE /\ UNCHANGED <<row, breaks, now, shift, req, overtaken, corrected>>
  BY DEF Enable
<1>2. BreaksAre /\ Types
  BY DEF ClockInv, Types
<1>3. \A q : IsSo(q)' = IsSo(q) /\ Closes(q)' = Closes(q) /\ Arrived(q)' = Arrived(q)
  BY <1>1, <1>2, SameDay DEF Arrived
<1>4. Open' = Open /\ Rested' = Rested
  BY <1>1, <1>2, SameBreaks
<1>5. Types'
  BY <1>1, <1>2, <1>3 DEF Types, BreaksAre
<1>6. SeenIsSo'
  BY <1>1, <1>3 DEF ClockInv, SeenIsSo, At
<1>7. OneAtATime'
  BY <1>1, <1>4 DEF ClockInv, OneAtATime, Sound
<1>8. InTurn'
  <2>1. \A t : FitsBefore(t)' = FitsBefore(t)
    BY <1>1, <1>4 DEF FitsBefore
  <2>2. (\A x \in Request : Closes(req[x]))' = \A x \in Request : Closes(req[x])
    BY <1>1, <1>3
  <2> QED
    BY <1>1, <1>4, <2>1, <2>2 DEF ClockInv, InTurn, Sound
<1>9. AllowanceIsKept'
  BY <1>1, AllowanceStays
<1> QED
  BY <1>5, <1>6, <1>7, <1>8, <1>9 DEF ClockInv

\* A request is done, or dead.
LEMMA IdleIs == Idle \in Req /\ Arrived(Idle) /\ Idle.pc = "Idle" /\ Closes(Idle)
  BY DEF Idle, Req, Arrived, Closes

LEMMA EndKeeps ==
  ASSUME ClockInv, NEW w \in Request, End(w)
  PROVE  ClockInv'
<1>1. PICK r : r = Idle
  OBVIOUS
<1>2. r \in Req /\ Arrived(r) /\ r.pc = "Idle" /\ Closes(r)
  BY <1>1, IdleIs
<1>3. /\ req' = [req EXCEPT ![w] = r]
      /\ UNCHANGED <<row, breaks, now, shift, enabled, overtaken, corrected>>
  BY <1>1 DEF End, Done
<1> QED
  BY <1>2, <1>3, OneGoesOn

\* A request arrives and has read what it is about to act on.
LEMMA Arriving ==
  ASSUME ClockInv, NEW w \in Request, NEW pc \in {"SaveIn", "Close", "Look"}, Arrives(w, pc),
         UNCHANGED <<row, breaks, now, shift, enabled, overtaken, corrected>>,
         row.there,
         pc = "SaveIn" => row.in = Unset,
         pc = "Close" => row.out = Unset,
         pc = "Look" => row.in # Unset /\ row.out = Unset
  PROVE  ClockInv'
<1>1. PICK r : r = [pc |-> pc, time |-> now, stale |-> FALSE]
  OBVIOUS
<1>2. r.pc = pc /\ r.time = now /\ ~ r.stale
  BY <1>1
<1>3. Types
  BY DEF ClockInv
<1>4. r \in Req
  <2>1. now \in Times
    BY <1>3 DEF Types
  <2> QED
    BY <1>1, <2>1 DEF Req, DayReq
<1>5. now <= now
  BY <1>3, ClockAssumption DEF Types, Times, ClockAssumption
<1>6. Arrived(r)
  BY <1>2, <1>5 DEF Arrived
<1>7. \A k \in Open : breaks[k].start <= now
  BY <1>3 DEF Types, Open
<1>8. IsSo(r)
  BY <1>2, <1>7 DEF IsSo
<1>9. Sound /\ row.in # Unset => Closes(r)
  BY <1>2 DEF ClockInv, InTurn, Closes
<1>10. req' = [req EXCEPT ![w] = r]
  BY <1>1 DEF Arrives
<1> QED
  BY <1>4, <1>6, <1>8, <1>9, <1>10, OneGoesOn

LEMMA CheckOutKeeps ==
  ASSUME ClockInv, NEW w \in Request, CheckOut(w)
  PROVE  ClockInv'
  BY Arriving DEF CheckOut

LEMMA BreakStartKeeps ==
  ASSUME ClockInv, NEW w \in Request, BreakStart(w)
  PROVE  ClockInv'
<1>1. row.there
  BY DEF BreakStart, ClockInv, Types
<1> QED
  BY <1>1, Arriving DEF BreakStart

\* A request takes its next look.
LEMMA GoingOn ==
  ASSUME ClockInv, NEW w \in Request, NEW from, NEW to, At(w, from), Goes(w, to),
         UNCHANGED <<row, breaks, now, shift, enabled, overtaken, corrected>>,
         \/ from = "Look" /\ to = "Create" /\ Open = {}
         \/ from = "Sum" /\ to = "SaveEnd" /\ HasRoom(req[w])
  PROVE  ClockInv'
<1>1. PICK q : q = req[w]
  OBVIOUS
<1>2. PICK r : r = [q EXCEPT !.pc = to]
  OBVIOUS
<1>3. q \in Req /\ Arrived(q) /\ q.pc = from /\ IsSo(q)
  BY <1>1 DEF ClockInv, Types, SeenIsSo, At
<1>4. (from = "Look" => q \in DayReq) /\ (from = "Sum" => q \in BreakReq)
  BY <1>3 DEF Req, DayReq, BreakReq, Idle
<1>5. r \in Req /\ r.pc = to /\ r.time = q.time /\ r.stale = q.stale /\ (from = "Sum" => r.k = q.k)
  BY <1>2, <1>3, <1>4 DEF Req, DayReq, BreakReq
<1>6. Arrived(r)
  BY <1>3, <1>5 DEF Arrived
<1>7. from = "Sum" => HasRoom(r)
  BY <1>1, <1>5 DEF HasRoom
<1>8. IsSo(r)
  <2>1. from = "Sum" => (EndsOpen(r) <=> EndsOpen(q))
    BY <1>5 DEF EndsOpen
  <2> QED
    BY <1>3, <1>5, <1>7, <2>1 DEF IsSo
<1>9. Closes(r)
  BY <1>5 DEF Closes
<1>10. req' = [req EXCEPT ![w] = r]
  BY <1>1, <1>2 DEF Goes
<1> QED
  BY <1>5, <1>6, <1>8, <1>9, <1>10, OneGoesOn

LEMMA BreakLookKeeps ==
  ASSUME ClockInv, NEW w \in Request, BreakLook(w)
  PROVE  ClockInv'
  BY GoingOn DEF BreakLook

LEMMA BreakSumKeeps ==
  ASSUME ClockInv, NEW w \in Request, BreakSum(w)
  PROVE  ClockInv'
<1>1. HasRoom(req[w])
  BY DEF BreakSum, HasRoom
<1> QED
  BY <1>1, GoingOn DEF BreakSum

\* The active break is one of those that are open.
LEMMA ActiveIsOpen ==
  ASSUME BreaksAre, Open # {}
  PROVE  Active \in Open
<1>1. Open \in SUBSET Nat
  BY BreaksFinite DEF Open
<1>2. PICK n \in Open : \A m \in Open : n <= m
  BY <1>1, LeastNumber
<1> QED
  BY <1>2 DEF Active, Min

LEMMA BreakEndKeeps ==
  ASSUME ClockInv, NEW w \in Request, BreakEnd(w)
  PROVE  ClockInv'
<1>1. PICK j : j = Active
  OBVIOUS
<1>2. PICK r : r = [pc |-> "Sum", time |-> now, stale |-> FALSE, k |-> j]
  OBVIOUS
<1>3. r.pc = "Sum" /\ r.time = now /\ ~ r.stale /\ r.k = j
  BY <1>2
<1>4. Types /\ BreaksAre
  BY DEF ClockInv, Types
<1>5. j \in Open /\ j \in DOMAIN breaks /\ j \in Nat
  <2>1. j \in Open
    BY <1>1, <1>4, ActiveIsOpen DEF BreakEnd
  <2> QED
    BY <1>4, <2>1, BreaksFinite DEF Open
<1>6. now \in Times /\ now <= now /\ breaks[j].start <= now
  BY <1>4, <1>5, ClockAssumption DEF Types, Times, ClockAssumption
<1>7. r \in Req
  BY <1>2, <1>5, <1>6 DEF Req, BreakReq
<1>8. Arrived(r)
  BY <1>3, <1>5, <1>6 DEF Arrived, BreakEnd
<1>9. IsSo(r)
  BY <1>3, <1>5, <1>6 DEF IsSo, EndsOpen
<1>10. Closes(r)
  BY <1>3 DEF Closes
<1>11. /\ req' = [req EXCEPT ![w] = r]
       /\ UNCHANGED <<row, breaks, now, shift, enabled, overtaken, corrected>>
  BY <1>1, <1>2 DEF BreakEnd
<1> QED
  BY <1>7, <1>8, <1>9, <1>10, <1>11, OneGoesOn
\* A manager enters times: everything that was seen is outdated.
LEMMA CorrectionKeeps ==
  ASSUME ClockInv, NEW c \in Corrections, Regularize(c) \/ Correct(c)
  PROVE  ClockInv'
<1>1. /\ corrected' = TRUE /\ req' = Outdated
      /\ UNCHANGED <<breaks, now, shift, enabled, overtaken>>
  BY DEF Regularize, Correct
<1>2. Types /\ BreaksAre
  BY DEF ClockInv, Types
<1>3. row' \in [there : BOOLEAN, in : Moment, out : Moment] /\ row'.there
  <2>1. c \in Moment \X Moment
    BY ClockAssumption DEF ClockAssumption, Moment
  <2>2. PICK i \in Moment, o \in Moment : c = <<i, o>>
    BY <2>1
  <2>3. row.in \in Moment /\ row.out \in Moment
    BY <1>2 DEF Types
  <2>4. \E x \in Moment, y \in Moment : row' = [there |-> TRUE, in |-> x, out |-> y]
    BY <2>2, <2>3 DEF Regularize, Correct
  <2> QED
    BY <2>4
<1>4. \A x \in Request : req'[x] = Outdated[x]
  BY <1>1
<1>5. req' \in [Request -> Req]
  <2>1. \A x \in Request : Outdated[x] \in Req
    BY <1>2, OutdatedReq
  <2> QED
    BY <1>1, <2>1 DEF Outdated
<1>6. \A q : Arrived(q) => Arrived(q)'
  BY <1>1, <1>3 DEF Arrived
<1>7. \A x \in Request : Arrived(req'[x])
  BY <1>2, <1>4, OutdatedReq
<1>8. \A x \in Request : Arrived(req[x])'
  BY <1>6, <1>7
<1>9. Types'
  BY <1>1, <1>2, <1>3, <1>5, <1>8 DEF Types, BreaksAre
<1>10. \A q : q.stale => IsSo(q)'
  BY DEF IsSo
<1>11. SeenIsSo'
  <2>1. \A x \in Request : req'[x].pc # "Idle" => req'[x].stale
    BY <1>2, <1>4, OutdatedReq
  <2>2. \A x \in Request : req'[x].pc # "Idle" => IsSo(req[x])'
    BY <1>10, <2>1
  <2> QED
    BY <2>2 DEF SeenIsSo, At
<1>12. OneAtATime' /\ InTurn'
  BY <1>1 DEF OneAtATime, InTurn, Sound
<1>13. AllowanceIsKept'
  BY <1>1, AllowanceStays
<1> QED
  BY <1>9, <1>11, <1>12, <1>13 DEF ClockInv

\* Who checks in begins a day that had no break yet.
LEMMA FirstCheckIn ==
  ASSUME ClockInv, NEW w \in Request, NEW t \in Times, t <= now, Outdates(w, Idle),
         UNCHANGED <<breaks, now, shift, enabled, corrected>>,
         overtaken' \in BOOLEAN, overtaken => overtaken',
         row' \in [there : BOOLEAN, in : Moment, out : Moment], row'.there, row'.in = t,
         Sound' => row.in = Unset
  PROVE  ClockInv'
<1>1. Types /\ BreaksAre /\ now \in Nat
  BY ClockAssumption DEF ClockInv, Types, Times, ClockAssumption
<1>2. PICK r : r = Idle
  OBVIOUS
<1>3. r \in Req /\ Arrived(r) /\ r.pc = "Idle"
  BY <1>2, IdleIs
<1>4. \A k \in DOMAIN breaks' : breaks'[k].start <= now
  BY <1>1 DEF Types
<1>5. BreaksAre'
  BY <1>1 DEF BreaksAre
<1>6. /\ Types' /\ SeenIsSo' /\ req'[w] = r
      /\ \A x \in Request \ {w} : Closes(req[x])'
  BY <1>1, <1>2, <1>3, <1>4, <1>5, OneWrites
<1>7. Closes(req[w])'
  BY <1>3, <1>6 DEF Closes
<1>8. t \in Nat /\ t # Unset
  BY ClockAssumption DEF ClockAssumption, Times
<1>9. Sound' => breaks' = << >> /\ Open' = {} /\ Rested' = 0
  <2> SUFFICES ASSUME Sound' PROVE breaks' = << >> /\ Open' = {} /\ Rested' = 0
    OBVIOUS
  <2>1. Sound /\ breaks = << >>
    BY DEF Sound, ClockInv, OneAtATime
  <2>2. DOMAIN breaks = {} /\ Open = {}
    BY <2>1 DEF Open
  <2>3. Rested = 0
    BY <2>2, TotalIs, SumOfNothing, FS_EmptySet DEF Rested
  <2> QED
    BY <1>1, <2>1, <2>2, <2>3, SameBreaks
<1>10. OneAtATime'
  BY <1>9 DEF OneAtATime
<1>11. InTurn'
  <2> SUFFICES ASSUME Sound' PROVE InTurn'
    BY DEF InTurn
  <2>1. row'.out # Unset => row'.out \in Nat
    BY ClockAssumption DEF Moment, Times, ClockAssumption
  <2>2. FitsBefore(now)' /\ (row'.out # Unset /\ row'.in <= row'.out => FitsBefore(row.out)')
    BY <1>1, <1>8, <1>9, <2>1 DEF FitsBefore
  <2>3. row'.in <= now'
    BY <1>8
  <2> QED
    BY <1>6, <1>7, <1>9, <2>2, <2>3 DEF InTurn
<1>12. AllowanceIsKept'
  BY AllowanceStays
<1> QED
  BY <1>6, <1>10, <1>11, <1>12 DEF ClockInv

\* Who was not overtaken saw what still is so.
LEMMA NotOvertaken ==
  ASSUME ClockInv, NEW w \in Request, ~ At(w, "Idle"), overtaken' = (overtaken \/ req[w].stale),
         corrected' = corrected
  PROVE  /\ overtaken' \in BOOLEAN /\ (overtaken => overtaken')
         /\ ~ overtaken' => ~ overtaken /\ ~ req[w].stale /\ IsSo(req[w])
         /\ Sound' => Sound /\ (row.in # Unset => Closes(req[w]))
<1>1. overtaken \in BOOLEAN /\ req[w].stale \in BOOLEAN
  <2>1. req[w] \in Req /\ req[w].pc # "Idle"
    BY DEF ClockInv, Types, At
  <2> QED
    BY <2>1 DEF ClockInv, Types, Req, Idle, DayReq, BreakReq
<1>2. IsSo(req[w])
  BY DEF ClockInv, SeenIsSo
<1> QED
  BY <1>1, <1>2 DEF Sound, ClockInv, InTurn

LEMMA CheckInKeeps ==
  ASSUME ClockInv, NEW w \in Request, CheckIn(w)
  PROVE  ClockInv'
<1>1. CASE row.there
  BY <1>1, Arriving DEF CheckIn
<1>2. CASE ~ row.there
  <2>1. /\ row' = [there |-> TRUE, in |-> now, out |-> Unset] /\ Outdates(w, Idle) /\ row.in = Unset
        /\ UNCHANGED <<breaks, now, shift, enabled, overtaken, corrected>>
    BY <1>2 DEF CheckIn
  <2>2. now \in Times /\ now <= now
    BY ClockAssumption DEF ClockInv, Types, Times, ClockAssumption
  <2>3. row' \in [there : BOOLEAN, in : Moment, out : Moment] /\ row'.there /\ row'.in = now
    BY <2>1, <2>2 DEF Moment
  <2>4. PICK t : t = now
    OBVIOUS
  <2>5. overtaken' \in BOOLEAN /\ (overtaken => overtaken')
    BY <2>1 DEF ClockInv, Types
  <2>6. t \in Times /\ t <= now /\ row'.in = t
    BY <2>2, <2>3, <2>4
  <2> QED
    BY <2>1, <2>3, <2>5, <2>6, FirstCheckIn
<1> QED
  BY <1>1, <1>2 DEF ClockInv, Types

LEMMA CheckInSaveKeeps ==
  ASSUME ClockInv, NEW w \in Request, CheckInSave(w)
  PROVE  ClockInv'
<1>1. /\ req[w].pc = "SaveIn" /\ row' = [row EXCEPT !.in = req[w].time] /\ Outdates(w, Idle)
      /\ overtaken' = (overtaken \/ req[w].stale)
      /\ UNCHANGED <<breaks, now, shift, enabled, corrected>>
  BY DEF CheckInSave, At, Writes
<1>2. PICK t : t = req[w].time
  OBVIOUS
<1>3. t \in Times /\ t <= now
  BY <1>1, <1>2 DEF ClockInv, Types, Req, Idle, DayReq, BreakReq, Arrived
<1>4. ~ At(w, "Idle")
  BY <1>1 DEF At
<1>5. /\ overtaken' \in BOOLEAN /\ (overtaken => overtaken')
      /\ Sound' => ~ req[w].stale /\ IsSo(req[w])
  BY <1>1, <1>4, NotOvertaken DEF Sound
<1>6. Sound' => row.in = Unset
  BY <1>1, <1>5 DEF IsSo
<1>7. row' \in [there : BOOLEAN, in : Moment, out : Moment] /\ row'.in = t /\ row'.there
  BY <1>1, <1>2, <1>3 DEF ClockInv, Types, Moment, Arrived
<1> QED
  BY <1>1, <1>2, <1>3, <1>5, <1>6, <1>7, FirstCheckIn

\* Who checks out ends a day whose breaks have ended.
LEMMA CheckOutSaveKeeps ==
  ASSUME ClockInv, NEW w \in Request, CheckOutSave(w)
  PROVE  ClockInv'
<1>1. /\ req[w].pc = "SaveOut" /\ row' = [row EXCEPT !.out = req[w].time] /\ Outdates(w, Idle)
      /\ overtaken' = (overtaken \/ req[w].stale)
      /\ UNCHANGED <<breaks, now, shift, enabled, corrected>>
  BY DEF CheckOutSave, At, Writes
<1>2. PICK t : t = req[w].time
  OBVIOUS
<1>3. Types /\ BreaksAre /\ row.there
  BY <1>1 DEF ClockInv, Types, Arrived
<1>4. t \in Times /\ t <= now /\ t # Unset
  BY <1>1, <1>2, ClockAssumption DEF ClockInv, Types, Req, Idle, DayReq, BreakReq, Arrived, Times, ClockAssumption
<1>5. ~ At(w, "Idle")
  BY <1>1 DEF At
<1>6. /\ overtaken' \in BOOLEAN /\ (overtaken => overtaken')
      /\ Sound' => Sound /\ ~ req[w].stale /\ IsSo(req[w]) /\ (row.in # Unset => Closes(req[w]))
  BY <1>1, <1>5, NotOvertaken DEF Sound
<1>7. /\ row' \in [there : BOOLEAN, in : Moment, out : Moment]
      /\ row'.in = row.in /\ row'.out = t /\ row'.there
  BY <1>1, <1>2, <1>3, <1>4 DEF Types, Moment
<1>8. PICK r : r = Idle
  OBVIOUS
<1>9. r \in Req /\ Arrived(r) /\ r.pc = "Idle"
  BY <1>8, IdleIs
<1>10. BreaksAre' /\ \A k \in DOMAIN breaks' : breaks'[k].start <= now
  BY <1>1, <1>3 DEF Types, BreaksAre
<1>11. /\ Types' /\ SeenIsSo' /\ req'[w] = r
       /\ \A x \in Request \ {w} : Closes(req[x])'
  BY <1>1, <1>6, <1>7, <1>8, <1>9, <1>10, OneWrites
<1>12. Closes(req[w])'
  BY <1>9, <1>11 DEF Closes
<1>13. Open' = Open /\ Rested' = Rested
  BY <1>1, <1>3, SameBreaks
<1>14. Sound' => Open = {} /\ Sound
  BY <1>1, <1>6 DEF IsSo
<1>15. OneAtATime'
  BY <1>1, <1>7, <1>13, <1>14 DEF ClockInv, OneAtATime
<1>16. InTurn'
  <2> SUFFICES ASSUME Sound', row'.in # Unset PROVE InTurn'
    BY DEF InTurn
  <2>1. Sound /\ row.in # Unset /\ Open = {} /\ FitsBefore(t) /\ FitsBefore(now) /\ row.in <= now
    BY <1>1, <1>2, <1>6, <1>7, <1>14 DEF Closes, ClockInv, InTurn
  <2>2. \A q : FitsBefore(q) => row'.in <= q /\ Rested' <= q - row'.in
    BY <1>7, <1>13 DEF FitsBefore
  <2>3. FitsBefore(now)' /\ FitsBefore(row.out)'
    BY <1>1, <1>7, <2>1, <2>2 DEF FitsBefore
  <2> QED
    BY <1>1, <1>7, <1>11, <1>12, <1>13, <2>1, <2>3 DEF InTurn
<1>17. AllowanceIsKept'
  BY <1>1, <1>6, AllowanceStays
<1> QED
  BY <1>11, <1>15, <1>16, <1>17 DEF ClockInv

\* A break is no longer when another one begins.
LEMMA TotalWithOneMore ==
  ASSUME BreaksAre, BreaksAre', NEW b \in Break, b.end = Unset, breaks' = Append(breaks, b)
  PROVE  /\ Rested' = Rested /\ Open' = Open \cup {Len(breaks) + 1}
         /\ DOMAIN breaks' = DOMAIN breaks \cup {Len(breaks) + 1}
         /\ \A k \in DOMAIN breaks : breaks'[k] = breaks[k]
         /\ breaks'[Len(breaks) + 1] = b
<1>1. PICK n : n = Len(breaks) + 1
  OBVIOUS
<1>2. PICK D : D = DOMAIN breaks
  OBVIOUS
<1>3. /\ n \in Nat /\ n \notin D /\ D \subseteq DOMAIN breaks' /\ DOMAIN breaks' = D \cup {n}
      /\ breaks'[n] = b /\ \A k \in D : breaks'[k] = breaks[k]
  BY <1>1, <1>2 DEF BreaksAre
<1>4. Open' = Open \cup {n}
  BY <1>2, <1>3 DEF Open
<1>5. \A k \in D : Duration(breaks[k])' = Duration(breaks[k])
  BY <1>3
<1>6. Total(D)' = Total(D) /\ Total(D) \in Nat
  BY <1>2, <1>3, <1>5, TotalStays, TotalsAreNat
<1>7. PICK E : E = D \cup {n}
  OBVIOUS
<1>8. E \in SUBSET DOMAIN breaks' /\ n \in E /\ E \ {n} = D
  BY <1>3, <1>7
<1>9. Total(E)' = Duration(breaks[n])' + Total(E \ {n})'
  BY <1>8, TotalSplitThen
<1>10. Duration(breaks[n])' = 0
  BY <1>3, DurationIs
<1>11. Total(E)' = Total(D)
  <2>1. PICK F : F = E \ {n}
    OBVIOUS
  <2>2. F = D
    BY <1>8, <2>1
  <2>3. Total(E)' = 0 + Total(F)'
    BY <1>9, <1>10, <2>1
  <2>4. Total(F)' = Total(D)
    BY <1>6, <2>2
  <2> QED
    BY <1>6, <2>3, <2>4
<1>12. Rested = Total(D) /\ Rested' = Total(E)'
  BY <1>2, <1>3, <1>7 DEF Rested
<1> QED
  BY <1>1, <1>2, <1>3, <1>4, <1>11, <1>12

\* A break begins when there was none, now.
LEMMA BreakCreateKeeps ==
  ASSUME ClockInv, NEW w \in Request, NEW type \in BreakType, BreakCreate(w, type)
  PROVE  ClockInv'
<1>1. PICK b : b = [type |-> type, start |-> now, end |-> Unset, by |-> "nobody"]
  OBVIOUS
<1>2. /\ req[w].pc = "Create" /\ breaks' = Append(breaks, b) /\ Outdates(w, Idle)
      /\ overtaken' = (overtaken \/ req[w].stale)
      /\ UNCHANGED <<row, now, shift, enabled, corrected>>
  BY <1>1 DEF BreakCreate, At, Writes
<1>3. Types /\ BreaksAre /\ row.there /\ row \in [there : BOOLEAN, in : Moment, out : Moment]
  BY <1>2 DEF ClockInv, Types, Arrived
<1>4. now \in Times /\ now \in Nat /\ now <= now
  BY <1>3, ClockAssumption DEF Types, Times, ClockAssumption
<1>5. b \in Break /\ b.end = Unset /\ b.start = now /\ b.by = "nobody"
  BY <1>1, <1>4 DEF Break, Moment
<1>6. BreaksAre'
  BY <1>2, <1>3, <1>5 DEF BreaksAre
<1>7. PICK n : n = Len(breaks) + 1
  OBVIOUS
<1>8. /\ Rested' = Rested /\ Open' = Open \cup {n}
      /\ DOMAIN breaks' = DOMAIN breaks \cup {n} /\ n \notin DOMAIN breaks
      /\ \A k \in DOMAIN breaks : breaks'[k] = breaks[k]
      /\ breaks'[n] = b
  <2>1. n \notin DOMAIN breaks
    BY <1>3, <1>7, BreaksFinite
  <2> QED
    BY <1>2, <1>3, <1>5, <1>6, <1>7, <2>1, TotalWithOneMore
<1>9. ~ At(w, "Idle")
  BY <1>2 DEF At
<1>10. /\ overtaken' \in BOOLEAN /\ (overtaken => overtaken')
       /\ Sound' => Sound /\ ~ req[w].stale /\ IsSo(req[w])
  BY <1>2, <1>9, NotOvertaken DEF Sound
<1>11. PICK r : r = Idle
  OBVIOUS
<1>12. r \in Req /\ Arrived(r) /\ r.pc = "Idle"
  BY <1>11, IdleIs
<1>13. \A k \in DOMAIN breaks' : breaks'[k].start <= now
  BY <1>3, <1>4, <1>5, <1>8 DEF Types
<1>14. /\ Types' /\ SeenIsSo' /\ req'[w] = r
       /\ \A x \in Request \ {w} : Closes(req[x])'
  BY <1>2, <1>3, <1>6, <1>8, <1>10, <1>11, <1>12, <1>13, OneWrites
<1>15. Closes(req[w])'
  BY <1>12, <1>14 DEF Closes
<1>16. Sound' => Sound /\ Open = {} /\ row.in # Unset /\ row.out = Unset
  BY <1>2, <1>10 DEF IsSo
<1>17. OneAtATime'
  <2>1. Sound' => Open' = {n}
    BY <1>8, <1>16
  <2> QED
    BY <1>2, <1>16, <2>1 DEF OneAtATime
<1>18. InTurn'
  <2> SUFFICES ASSUME Sound' PROVE InTurn'
    BY DEF InTurn
  <2>1. Open' = {n} /\ row.in <= now /\ FitsBefore(now) /\ row'.out = Unset
    BY <1>2, <1>8, <1>16 DEF ClockInv, InTurn
  <2>2. \A t : FitsBefore(t)' = FitsBefore(t)
    BY <1>2, <1>8 DEF FitsBefore
  <2>3. \A k \in Open' : FitsBefore(breaks'[k].start)
    BY <1>5, <1>8, <2>1
  <2>4. (\A k \in Open : FitsBefore(breaks[k].start))'
    BY <1>2, <1>8, <2>3 DEF FitsBefore
  <2>5. Open' # {} /\ row'.in <= now'
    BY <1>2, <2>1
  <2> QED
    BY <1>14, <1>15, <2>1, <2>4, <2>5 DEF InTurn
<1>19. AllowanceIsKept'
  <2> SUFFICES ASSUME ~ overtaken', NEW t \in BreakType PROVE Total(Own(t))' <= BreakMax[t]
    BY DEF AllowanceIsKept, Own
  <2>1. PICK ks : ks = Own(t)
    OBVIOUS
  <2>2. Own(t)' = ks
    BY <1>5, <1>8, <2>1 DEF Own, Finished, Open
  <2>3. ks \in SUBSET DOMAIN breaks /\ ks \subseteq DOMAIN breaks'
    BY <1>8, <2>1 DEF Own, Finished
  <2>4. \A k \in ks : Duration(breaks[k])' = Duration(breaks[k])
    BY <1>8, <2>3
  <2>5. Total(ks)' = Total(ks)
    BY <1>3, <2>3, <2>4, TotalStays
  <2>6. Total(ks) <= BreakMax[t]
    BY <1>10, <2>1 DEF ClockInv, AllowanceIsKept, Own
  <2>7. Total(Own(t))' = Total(ks)'
    BY <2>2
  <2> QED
    BY <2>5, <2>6, <2>7
<1> QED
  BY <1>14, <1>17, <1>18, <1>19 DEF ClockInv

\* One break ends: it counts from now on.
LEMMA TotalWithOneEnded ==
  ASSUME BreaksAre, BreaksAre', DOMAIN breaks' = DOMAIN breaks,
         NEW k \in Open, NEW t \in Times, breaks[k].start <= t,
         breaks'[k].start = breaks[k].start, breaks'[k].end = t,
         \A j \in DOMAIN breaks \ {k} : breaks'[j] = breaks[j]
  PROVE  /\ Rested' = Rested + (t - breaks[k].start)
         /\ \A ks \in SUBSET (DOMAIN breaks \ {k}) : Total(ks)' = Total(ks)
         /\ \A ks \in SUBSET DOMAIN breaks :
              k \in ks => Total(ks)' = (t - breaks[k].start) + Total(ks \ {k})
<1>1. PICK D : D = DOMAIN breaks
  OBVIOUS
<1>2. k \in D /\ D = DOMAIN breaks' /\ breaks[k] \in Break /\ breaks[k].end = Unset /\ breaks'[k] \in Break
  BY <1>1 DEF Open, BreaksAre
<1>3. t \in Nat /\ t # Unset /\ breaks[k].start \in Nat
  BY <1>2, ClockAssumption DEF Break, Times, ClockAssumption
<1>4. PICK d \in Nat : d = t - breaks[k].start
  BY <1>3
<1>5. Duration(breaks[k]) = 0 /\ Duration(breaks[k])' = d
  BY <1>2, <1>3, <1>4, DurationIs
<1>6. ASSUME NEW ks \in SUBSET (D \ {k}) PROVE Total(ks)' = Total(ks)
  <2>1. \A j \in ks : Duration(breaks[j])' = Duration(breaks[j])
    BY <1>1, <1>6
  <2>2. ks \in SUBSET DOMAIN breaks /\ ks \subseteq DOMAIN breaks'
    BY <1>1, <1>2
  <2> QED
    BY <2>1, <2>2, TotalStays
<1>7. ASSUME NEW ks \in SUBSET D, k \in ks PROVE Total(ks)' = d + Total(ks \ {k})
  <2>1. PICK js : js = ks \ {k}
    OBVIOUS
  <2>2. js \in SUBSET (D \ {k}) /\ ks \in SUBSET DOMAIN breaks'
    BY <1>2, <2>1
  <2>3. Total(ks)' = Duration(breaks[k])' + Total(ks \ {k})'
    BY <1>7, <2>2, TotalSplitThen
  <2>4. Total(js)' = Total(js)
    BY <1>6, <2>2
  <2> QED
    BY <1>5, <2>1, <2>3, <2>4
<1>8. Rested' = Rested + d
  <2>1. PICK js : js = D \ {k}
    OBVIOUS
  <2>2. Total(D) = Duration(breaks[k]) + Total(js)
    BY <1>1, <1>2, <2>1, TotalSplit
  <2>3. Total(D)' = d + Total(js)
    BY <1>2, <1>7, <2>1
  <2>4. Total(js) \in Nat
    BY <1>1, <2>1, TotalsAreNat
  <2>5. Rested = Total(D) /\ Rested' = Total(D)'
    BY <1>1, <1>2 DEF Rested
  <2> QED
    BY <1>5, <2>2, <2>3, <2>4, <2>5
<1> QED
  BY <1>1, <1>4, <1>6, <1>7, <1>8

\* An ended break fits before any time after it ended, if the others fit before it.
LEMMA StillFits ==
  ASSUME Types, row' = row, row.in # Unset, NEW s \in Times, NEW t \in Times, NEW u \in Times,
         s <= t, t <= u, Rested' = Rested + (t - s), FitsBefore(s)
  PROVE  FitsBefore(u)'
<1>1. row.in \in Nat /\ s \in Nat /\ t \in Nat /\ u \in Nat
  BY ClockAssumption DEF Types, Moment, Times, ClockAssumption
<1>2. Rested \in Nat
  BY TotalsAreNat DEF Types, Rested
<1>3. row.in <= s /\ Rested <= s - row.in
  BY DEF FitsBefore
<1>4. row.in <= u /\ Rested + (t - s) <= u - row.in
  BY <1>1, <1>2, <1>3
<1> QED
  BY <1>4 DEF FitsBefore

\* The employee ends the break that was looked at.
LEMMA BreakEndSaveKeeps ==
  ASSUME ClockInv, NEW w \in Request, BreakEndSave(w)
  PROVE  ClockInv'
<1>1. PICK k, t : k = req[w].k /\ t = req[w].time
  OBVIOUS
<1>2. /\ req[w].pc = "SaveEnd" /\ Outdates(w, Idle) /\ overtaken' = (overtaken \/ req[w].stale)
      /\ breaks' = [breaks EXCEPT ![k].end = t, ![k].by = "employee"]
      /\ UNCHANGED <<row, now, shift, enabled, corrected>>
  BY <1>1 DEF BreakEndSave, At, Writes
<1>3. Types /\ BreaksAre /\ row.there /\ row \in [there : BOOLEAN, in : Moment, out : Moment]
      /\ k \in DOMAIN breaks /\ t <= now
  BY <1>1, <1>2 DEF ClockInv, Types, Arrived
<1>4. t \in Times /\ t # Unset
  BY <1>1, <1>2, <1>3, ClockAssumption DEF Types, Req, Idle, DayReq, BreakReq, Times, ClockAssumption
<1>5. PICK b : b = breaks[k]
  OBVIOUS
<1>6. PICK c : c = [type |-> b.type, start |-> b.start, end |-> t, by |-> "employee"]
  OBVIOUS
<1>7. b \in Break /\ c \in Break /\ c.start = b.start /\ c.type = b.type /\ c.end = t /\ c.by = "employee"
  <2>1. b \in Break
    BY <1>3, <1>5, BreaksFinite
  <2> QED
    BY <1>4, <1>6, <2>1 DEF Break, Moment
<1>8. /\ DOMAIN breaks' = DOMAIN breaks /\ breaks'[k] = c
      /\ \A j \in DOMAIN breaks \ {k} : breaks'[j] = breaks[j]
      /\ BreaksAre'
  <2>1. breaks' = [breaks EXCEPT ![k] = c]
    BY <1>2, <1>3, <1>5, <1>6, <1>7 DEF Break
  <2> QED
    BY <1>3, <1>7, <2>1 DEF BreaksAre
<1>9. ~ At(w, "Idle")
  BY <1>2 DEF At
<1>10. /\ overtaken' \in BOOLEAN /\ (overtaken => overtaken')
       /\ ~ overtaken' => ~ overtaken /\ ~ req[w].stale /\ IsSo(req[w])
       /\ Sound' => Sound /\ ~ overtaken'
  BY <1>2, <1>9, NotOvertaken DEF Sound
<1>11. PICK r : r = Idle
  OBVIOUS
<1>12. r \in Req /\ Arrived(r) /\ r.pc = "Idle"
  BY <1>11, IdleIs
<1>13. \A j \in DOMAIN breaks' : breaks'[j].start <= now
  BY <1>3, <1>5, <1>7, <1>8 DEF Types
<1>14. /\ Types' /\ SeenIsSo' /\ req'[w] = r
       /\ \A x \in Request \ {w} : Closes(req[x])'
  BY <1>2, <1>3, <1>8, <1>10, <1>11, <1>12, <1>13, OneWrites
<1>15. Closes(req[w])'
  BY <1>12, <1>14 DEF Closes
<1>16. ~ overtaken' => /\ ~ overtaken /\ k \in Open /\ b.start <= t
                       /\ Total(Finished(b.type) \ {k}) + (t - b.start) <= BreakMax[b.type]
  BY <1>1, <1>2, <1>5, <1>10 DEF IsSo, EndsOpen, HasRoom
<1>17. Open' = Open \ {k}
  BY <1>4, <1>7, <1>8 DEF Open
<1>18. ~ overtaken' => /\ Rested' = Rested + (t - b.start)
                       /\ \A ks \in SUBSET (DOMAIN breaks \ {k}) : Total(ks)' = Total(ks)
                       /\ \A ks \in SUBSET DOMAIN breaks :
                            k \in ks => Total(ks)' = (t - b.start) + Total(ks \ {k})
  BY <1>3, <1>4, <1>5, <1>7, <1>8, <1>16, TotalWithOneEnded
<1>19. Sound' => Sound /\ Open = {k} /\ Open' = {} /\ row.out = Unset /\ row.in # Unset
  <2> SUFFICES ASSUME Sound' PROVE Sound /\ Open = {k} /\ Open' = {} /\ row.out = Unset /\ row.in # Unset
    OBVIOUS
  <2>1. Sound /\ k \in Open /\ \A j \in Open : j = k
    BY <1>10, <1>16 DEF ClockInv, OneAtATime
  <2>2. row.out = Unset
    BY <2>1 DEF ClockInv, OneAtATime
  <2>3. breaks # << >>
    BY <1>3
  <2> QED
    BY <1>17, <2>1, <2>2, <2>3 DEF ClockInv, OneAtATime
<1>20. OneAtATime'
  BY <1>2, <1>19 DEF OneAtATime
<1>21. InTurn'
  <2> SUFFICES ASSUME Sound' PROVE InTurn'
    BY DEF InTurn
  <2>1. Sound /\ row.in # Unset /\ k \in Open /\ FitsBefore(b.start) /\ row.in <= now
    BY <1>5, <1>19 DEF ClockInv, InTurn
  <2>2. now \in Times /\ b.start \in Times
    BY <1>3, <1>7 DEF Types, Break
  <2>3. FitsBefore(now)'
    <3>1. FitsBefore(now)' = (row'.in <= now' /\ Rested' <= now' - row'.in)
      BY DEF FitsBefore
    <3>2. PICK u : u = now
      OBVIOUS
    <3>3. FitsBefore(u)'
      BY <1>2, <1>3, <1>4, <1>10, <1>16, <1>18, <2>1, <2>2, <3>2, StillFits
    <3> QED
      BY <1>2, <3>1, <3>2, <3>3 DEF FitsBefore
  <2> QED
    BY <1>2, <1>14, <1>15, <1>19, <2>1, <2>3 DEF InTurn
<1>22. AllowanceIsKept'
  <2> SUFFICES ASSUME ~ overtaken', NEW type \in BreakType PROVE Total(Own(type))' <= BreakMax[type]
    BY DEF AllowanceIsKept, Own
  <2>1. PICK ks : ks = Own(type)
    OBVIOUS
  <2>2. ks \in SUBSET (DOMAIN breaks \ {k}) /\ ks \in SUBSET (Finished(type) \ {k})
    BY <1>16, <2>1 DEF Own, Finished
  <2>3. Total(ks) <= BreakMax[type]
    BY <1>16, <2>1 DEF ClockInv, AllowanceIsKept, Own
  <2>4. CASE type # b.type
    <3>1. Own(type)' = ks
      BY <1>5, <1>7, <1>8, <1>16, <1>17, <2>1, <2>4 DEF Own, Finished, Open
    <3>2. Total(Own(type))' = Total(ks)'
      BY <3>1
    <3> QED
      BY <1>18, <2>2, <2>3, <3>2
  <2>5. CASE type = b.type
    <3>1. PICK js : js = ks \cup {k}
      OBVIOUS
    <3>2. Own(type)' = js
      BY <1>4, <1>5, <1>7, <1>8, <1>16, <1>17, <2>1, <2>5, <3>1 DEF Own, Finished, Open
    <3>3. js \in SUBSET DOMAIN breaks /\ k \in js /\ js \ {k} = ks
      BY <1>3, <2>2, <3>1
    <3>4. Total(js)' = (t - b.start) + Total(ks)
      BY <1>18, <3>3
    <3>5. PICK fs : fs = Finished(type) \ {k}
      OBVIOUS
    <3>6. fs \in SUBSET DOMAIN breaks /\ ks \in SUBSET fs
      BY <2>2, <3>5 DEF Finished
    <3>7. Total(ks) <= Total(fs) /\ Total(ks) \in Nat /\ Total(fs) \in Nat
      BY <1>3, <3>6, TotalOfFewer, TotalsAreNat
    <3>8. Total(fs) + (t - b.start) <= BreakMax[type]
      BY <1>16, <2>5, <3>5
    <3>9. BreakMax[type] \in Nat /\ t \in Nat /\ b.start \in Nat
      BY <1>4, <1>7, ClockAssumption DEF Break, Times, ClockAssumption
    <3>10. (t - b.start) + Total(ks) <= BreakMax[type]
      BY <3>7, <3>8, <3>9
    <3>11. Total(Own(type))' = Total(js)'
      BY <3>2
    <3> QED
      BY <3>4, <3>10, <3>11
  <2> QED
    BY <2>4, <2>5
<1> QED
  BY <1>14, <1>20, <1>21, <1>22 DEF ClockInv

\* The check-out ends the break that is open, if there is one.
LEMMA CloseKeeps ==
  ASSUME ClockInv, NEW w \in Request, Close(w)
  PROVE  ClockInv'
<1>1. PICK q : q = req[w]
  OBVIOUS
<1>2. PICK r : r = [q EXCEPT !.pc = "SaveOut"]
  OBVIOUS
<1>3. PICK t : t = q.time
  OBVIOUS
<1>4. PICK O : O = Open
  OBVIOUS
<1>5. /\ q.pc = "Close" /\ Outdates(w, r) /\ overtaken' = (overtaken \/ q.stale)
      /\ breaks' = [k \in DOMAIN breaks |->
           IF k \in O THEN [breaks[k] EXCEPT !.end = t, !.by = "out"] ELSE breaks[k]]
      /\ UNCHANGED <<row, now, shift, enabled, corrected>>
  BY <1>1, <1>2, <1>3, <1>4 DEF Close, At, Writes
<1>6. Types /\ BreaksAre /\ row.there /\ row \in [there : BOOLEAN, in : Moment, out : Moment]
      /\ q \in Req /\ t <= now
  BY <1>1, <1>3, <1>5 DEF ClockInv, Types, Arrived
<1>7. q \in DayReq /\ t \in Times /\ t # Unset
  <2>0. q.pc = "Close" /\ q \in Req
    BY <1>5, <1>6
  <2>1. q \in DayReq
    BY <2>0 DEF Req, Idle, DayReq, BreakReq
  <2> QED
    BY <1>3, <2>1, ClockAssumption DEF DayReq, Times, ClockAssumption
<1>8. r \in Req /\ r.pc = "SaveOut" /\ r.time = t /\ r.stale = q.stale
  BY <1>2, <1>3, <1>7 DEF Req, DayReq
<1>9. /\ DOMAIN breaks' = DOMAIN breaks /\ O \subseteq DOMAIN breaks
      /\ \A k \in O : breaks[k].end = Unset
      /\ \A k \in DOMAIN breaks \ O : breaks'[k] = breaks[k] /\ breaks[k].end # Unset
  BY <1>4, <1>5 DEF Open
<1>10. \A k \in O : /\ breaks'[k] \in Break /\ breaks'[k].start = breaks[k].start
                    /\ breaks'[k].end = t /\ breaks'[k].by = "out"
  <2> SUFFICES ASSUME NEW k \in O
               PROVE  /\ breaks'[k] \in Break /\ breaks'[k].start = breaks[k].start
                      /\ breaks'[k].end = t /\ breaks'[k].by = "out"
    OBVIOUS
  <2>1. PICK b : b = breaks[k]
    OBVIOUS
  <2>2. b \in Break
    BY <1>6, <1>9, <2>1, BreaksFinite
  <2>3. breaks'[k] = [b EXCEPT !.end = t, !.by = "out"]
    BY <1>5, <1>9, <2>1
  <2> QED
    BY <1>7, <2>1, <2>2, <2>3 DEF Break, Moment
<1>11. Open' = {}
  BY <1>7, <1>9, <1>10 DEF Open
<1>12. BreaksAre'
  <2>1. \A k \in DOMAIN breaks' : breaks'[k] \in Break
    BY <1>6, <1>9, <1>10, BreaksFinite
  <2>2. DOMAIN breaks' = 1 .. Len(breaks) /\ Len(breaks) \in Nat
    BY <1>6, <1>9, BreaksFinite
  <2>3. breaks' = [k \in 1 .. Len(breaks) |-> breaks'[k]]
    BY <1>5, <2>2
  <2> QED
    BY <2>1, <2>2, <2>3 DEF BreaksAre
<1>13. \A k \in DOMAIN breaks' : breaks'[k].start <= now
  BY <1>6, <1>9, <1>10 DEF Types
<1>14. ~ At(w, "Idle")
  BY <1>1, <1>5 DEF At
<1>15. /\ overtaken' \in BOOLEAN /\ (overtaken => overtaken')
       /\ ~ overtaken' => ~ overtaken /\ ~ q.stale
       /\ Sound' => Sound /\ ~ q.stale /\ IsSo(q) /\ (row.in # Unset => Closes(q))
  BY <1>1, <1>5, <1>14, NotOvertaken DEF Sound
<1>16. Arrived(r)
  BY <1>6, <1>8 DEF Arrived
<1>17. IsSo(r)'
  <2>1. IsSo(q)
    BY <1>1, <1>14 DEF ClockInv, SeenIsSo
  <2>2. ~ r.stale => row'.out = Unset
    BY <1>5, <1>8, <2>1 DEF IsSo
  <2> QED
    BY <1>8, <1>11, <2>2 DEF IsSo
<1>18. /\ Types' /\ SeenIsSo' /\ req'[w] = r
       /\ \A x \in Request \ {w} : Closes(req[x])'
  BY <1>5, <1>6, <1>8, <1>9, <1>12, <1>13, <1>15, <1>16, <1>17, OneWrites
<1>19. OneAtATime'
  <2>1. breaks = << >> => breaks' = << >>
    <3>1. breaks = << >> => DOMAIN breaks' = {}
      BY <1>9
    <3> QED
      BY <1>12, <3>1 DEF BreaksAre
  <2> QED
    BY <1>5, <1>11, <1>15, <2>1 DEF ClockInv, OneAtATime
<1>20. InTurn'
  <2> SUFFICES ASSUME Sound', row'.in # Unset PROVE InTurn'
    BY DEF InTurn
  <2>1. /\ Sound /\ row.in # Unset /\ row' = row /\ row.in <= now /\ row.out = Unset
        /\ \A k \in Open : breaks[k].start <= t /\ FitsBefore(breaks[k].start)
        /\ Open = {} => FitsBefore(t) /\ FitsBefore(now)
    BY <1>3, <1>5, <1>15 DEF ClockInv, InTurn, IsSo, Closes
  <2>2. now \in Times /\ now' = now /\ now <= now
    <3>1. now \in Times /\ now' = now
      BY <1>5, <1>6 DEF Types
    <3> QED
      BY <3>1, ClockAssumption DEF Times, ClockAssumption
  <2>3. FitsBefore(t)' /\ FitsBefore(now)'
    <3>1. CASE Open = {}
      <4>1. breaks' = breaks
        <5>1. \A k \in DOMAIN breaks : breaks'[k] = breaks[k]
          BY <1>4, <1>9, <3>1
        <5> QED
          BY <1>6, <1>9, <1>12, <5>1 DEF BreaksAre
      <4>2. Rested' = Rested
        BY <1>6, <4>1, SameBreaks
      <4> QED
        BY <2>1, <2>2, <3>1, <4>2 DEF FitsBefore
    <3>2. CASE Open # {}
      <4>1. PICK k \in Open : TRUE
        BY <3>2
      <4>2. Open = {k}
        BY <2>1 DEF ClockInv, OneAtATime
      <4>3. PICK s : s = breaks[k].start
        OBVIOUS
      <4>4. s \in Times /\ s <= t /\ FitsBefore(s)
        BY <1>6, <2>1, <4>1, <4>3, BreaksFinite DEF Open, Break
      <4>5. Rested' = Rested + (t - s)
        BY <1>4, <1>6, <1>7, <1>9, <1>10, <1>12, <4>1, <4>2, <4>3, <4>4, TotalWithOneEnded
      <4>6. PICK u : u = now
        OBVIOUS
      <4>7. t <= t
        BY <1>7, ClockAssumption DEF Times, ClockAssumption
      <4>8. FitsBefore(t)'
        BY <1>6, <1>7, <2>1, <4>4, <4>5, <4>7, StillFits
      <4>9. FitsBefore(u)'
        BY <1>6, <1>7, <2>1, <2>2, <4>4, <4>5, <4>6, StillFits
      <4> QED
        BY <2>2, <4>6, <4>8, <4>9 DEF FitsBefore
    <3> QED
      BY <3>1, <3>2
  <2>4. Closes(r)'
    BY <1>8, <2>3 DEF Closes
  <2>5. Closes(req[w])'
    <3>1. Closes(req[w])' = Closes(r)'
      BY <1>18
    <3> QED
      BY <2>4, <3>1
  <2> QED
    BY <1>11, <1>18, <2>1, <2>2, <2>3, <2>5 DEF InTurn
<1>21. AllowanceIsKept'
  <2> SUFFICES ASSUME ~ overtaken', NEW type \in BreakType PROVE Total(Own(type))' <= BreakMax[type]
    BY DEF AllowanceIsKept, Own
  <2>1. PICK ks : ks = Own(type)
    OBVIOUS
  <2>2. ks \in SUBSET (DOMAIN breaks \ O)
    BY <1>4, <2>1 DEF Own, Finished
  <2>3. Own(type)' = ks
    BY <1>4, <1>9, <1>10, <1>11, <2>1 DEF Own, Finished
  <2>4. \A k \in ks : Duration(breaks[k])' = Duration(breaks[k])
    BY <1>9, <2>2
  <2>5. Total(ks)' = Total(ks)
    BY <1>6, <1>9, <2>2, <2>4, TotalStays
  <2>6. Total(ks) <= BreakMax[type]
    BY <1>15, <2>1 DEF ClockInv, AllowanceIsKept, Own
  <2>7. Total(Own(type))' = Total(ks)'
    BY <2>3
  <2> QED
    BY <2>5, <2>6, <2>7
<1> QED
  BY <1>18, <1>19, <1>20, <1>21 DEF ClockInv

\* Every step keeps the invariant.
LEMMA InvStep == ClockInv /\ [Next]_vars => ClockInv'
<1> SUFFICES ASSUME ClockInv, [Next]_vars PROVE ClockInv'
  OBVIOUS
<1>1. CASE Tick
  BY <1>1, TickKeeps
<1>2. CASE Enable
  BY <1>2, EnableKeeps
<1>3. ASSUME NEW w \in Request,
             \/ CheckIn(w) \/ CheckInSave(w) \/ CheckOut(w) \/ Close(w) \/ CheckOutSave(w)
             \/ BreakStart(w) \/ BreakLook(w) \/ BreakEnd(w) \/ BreakSum(w) \/ BreakEndSave(w)
             \/ End(w)
      PROVE  ClockInv'
  BY <1>3, CheckInKeeps, CheckInSaveKeeps, CheckOutKeeps, CloseKeeps, CheckOutSaveKeeps,
     BreakStartKeeps, BreakLookKeeps, BreakEndKeeps, BreakSumKeeps, BreakEndSaveKeeps, EndKeeps
<1>4. ASSUME NEW w \in Request, NEW type \in BreakType, BreakCreate(w, type) PROVE ClockInv'
  BY <1>4, BreakCreateKeeps
<1>5. ASSUME NEW c \in Corrections, Regularize(c) \/ Correct(c) PROVE ClockInv'
  BY <1>5, CorrectionKeeps
<1>6. CASE UNCHANGED vars
  <2>1. UNCHANGED <<row, breaks, now, shift, enabled, req, overtaken, corrected>>
    BY <1>6 DEF vars
  <2>2. BreaksAre
    BY DEF ClockInv, Types
  <2>3. \A q : IsSo(q)' = IsSo(q) /\ Closes(q)' = Closes(q) /\ Arrived(q)' = Arrived(q)
    BY <2>1, <2>2, SameDay DEF Arrived
  <2>4. Open' = Open /\ Rested' = Rested
    BY <2>1, <2>2, SameBreaks
  <2>5. Types'
    BY <2>1, <2>3 DEF ClockInv, Types, BreaksAre
  <2>6. SeenIsSo' /\ OneAtATime'
    BY <2>1, <2>3, <2>4 DEF ClockInv, SeenIsSo, At, OneAtATime, Sound
  <2>7. InTurn'
    <3>1. \A t : FitsBefore(t)' = FitsBefore(t)
      BY <2>1, <2>4 DEF FitsBefore
    <3>2. (\A x \in Request : Closes(req[x]))' = \A x \in Request : Closes(req[x])
      BY <2>1, <2>3
    <3> QED
      BY <2>1, <2>4, <3>1, <3>2 DEF ClockInv, InTurn, Sound
  <2>8. AllowanceIsKept'
    BY <2>1, AllowanceStays
  <2> QED
    BY <2>5, <2>6, <2>7, <2>8 DEF ClockInv
<1> QED
  BY <1>1, <1>2, <1>3, <1>4, <1>5, <1>6 DEF Next

\* The invariant holds of every behaviour of the clock.
THEOREM DayIsInOrder == Spec => []ClockInv
<1>1. Init => ClockInv
  BY InvInit
<1>2. ClockInv /\ [Next]_vars => ClockInv'
  BY InvStep
<1> QED
  BY <1>1, <1>2, PTL DEF Spec

\* StartBreakView, EndBreakView and CheckOutView: nobody is on two breaks at
\* once, breaks end with the day and fit into it, and those the employee ended
\* keep to the allowance, unless a request was overtaken or times were entered
\* by a manager.
THEOREM DayKeepsBreaks == Spec => []BreaksAreKept
<1>1. ClockInv => BreaksAreKept
  BY KeptByInv
<1> QED
  BY <1>1, DayIsInOrder, PTL

(***************************************************************************)
(* The times of the day                                                    *)
(***************************************************************************)
\* A time that was entered stays.
LEMMA ClockedOnceStep ==
  ASSUME ClockInv, [Next]_vars
  PROVE  \/ corrected' # corrected \/ overtaken'
         \/ /\ row.in # Unset => row'.in = row.in
            /\ row.out # Unset => row'.out = row.out
<1> SUFFICES ASSUME corrected' = corrected, ~ overtaken'
             PROVE  (row.in # Unset => row'.in = row.in) /\ (row.out # Unset => row'.out = row.out)
  OBVIOUS
<1>1. row \in [there : BOOLEAN, in : Moment, out : Moment]
      /\ (~ row.there => row.in = Unset /\ row.out = Unset)
  BY DEF ClockInv, Types
<1>2. ASSUME NEW w \in Request, CheckIn(w) PROVE row' = row \/ (row.in = Unset /\ row.out = Unset)
  BY <1>1, <1>2 DEF CheckIn
<1>3. ASSUME NEW w \in Request, CheckInSave(w) PROVE row.in = Unset /\ row'.out = row.out
  <2>1. req[w].pc = "SaveIn" /\ ~ At(w, "Idle") /\ overtaken' = (overtaken \/ req[w].stale)
    BY <1>3 DEF CheckInSave, At, Writes
  <2>2. ~ req[w].stale /\ IsSo(req[w])
    BY <2>1, NotOvertaken
  <2>3. row'.out = row.out
    BY <1>1, <1>3 DEF CheckInSave
  <2> QED
    BY <2>1, <2>2, <2>3 DEF IsSo
<1>4. ASSUME NEW w \in Request, CheckOutSave(w) PROVE row.out = Unset /\ row'.in = row.in
  <2>1. req[w].pc = "SaveOut" /\ ~ At(w, "Idle") /\ overtaken' = (overtaken \/ req[w].stale)
    BY <1>4 DEF CheckOutSave, At, Writes
  <2>2. ~ req[w].stale /\ IsSo(req[w])
    BY <2>1, NotOvertaken
  <2>3. row'.in = row.in
    BY <1>1, <1>4 DEF CheckOutSave
  <2> QED
    BY <2>1, <2>2, <2>3 DEF IsSo
<1>5. ASSUME NEW c \in Corrections, Regularize(c) \/ Correct(c) PROVE FALSE
  BY <1>5 DEF Regularize, Correct
<1>6. \/ row' = row
      \/ \E w \in Request : CheckIn(w) \/ CheckInSave(w) \/ CheckOutSave(w)
      \/ \E c \in Corrections : Regularize(c) \/ Correct(c)
  BY DEF Next, vars, Tick, Enable, CheckOut, Close, BreakStart, BreakLook, BreakCreate,
         BreakEnd, BreakSum, BreakEndSave, End
<1> QED
  BY <1>2, <1>3, <1>4, <1>5, <1>6

\* CheckInView and CheckOutView: what was entered is not entered again, unless
\* the request saw it empty and is late, or a manager corrects it.
THEOREM TimesStay == Spec => ClockedOnce
<1>1. ClockInv /\ [Next]_vars =>
        [\/ corrected' # corrected \/ overtaken'
         \/ /\ row.in # Unset => row'.in = row.in
            /\ row.out # Unset => row'.out = row.out]_vars
  BY ClockedOnceStep
<1> QED
  BY <1>1, DayIsInOrder, PTL DEF Spec, ClockedOnce

\* Remainders of numbers less than a day away.
LEMMA AroundTheClock ==
  ASSUME NEW F \in Nat, F > 0, NEW x \in Int
  PROVE  /\ 0 <= x /\ x < F => x % F = x
         /\ - F <= x /\ x < 0 => x % F = x + F
         /\ F <= x /\ x < F + F => x % F = x - F
<1>1. PICK q \in Int : q = x \div F
  OBVIOUS
<1>2. F * q <= x /\ x < F * (q + 1) /\ x % F = x - F * q
  BY <1>1
<1>3. 0 <= x /\ x < F => q = 0
  <2>1. q > 0 => F * q >= F
    OBVIOUS
  <2>2. q < 0 => F * (q + 1) <= 0
    OBVIOUS
  <2> QED
    BY <1>2, <2>1, <2>2
<1>4. - F <= x /\ x < 0 => q = - 1
  <2>1. q >= 0 => F * q >= 0
    OBVIOUS
  <2>2. q < - 1 => F * (q + 1) <= - F
    OBVIOUS
  <2> QED
    BY <1>2, <2>1, <2>2
<1>5. F <= x /\ x < F + F => q = 1
  <2>1. q >= 2 => F * q >= F + F
    OBVIOUS
  <2>2. q < 1 => F * (q + 1) <= F
    OBVIOUS
  <2> QED
    BY <1>2, <2>1, <2>2
<1> QED
  BY <1>2, <1>3, <1>4, <1>5

\* A window, over midnight or not, holds no time that is farther away than the
\* longer of its sides.
LEMMA WindowIsNear ==
  ASSUME NEW t \in Times, NEW at \in 0 .. FullDay - 1, NEW before \in Nat, NEW after \in Nat,
         before <= after, after < FullDay, InWindow(t, at, before, after)
  PROVE  Distance(t, at) <= after
<1>1. PICK F \in Nat : F = FullDay /\ F > 0 /\ at \in Int /\ t \in Int
                       /\ 0 <= at /\ at < F /\ 0 <= t /\ t < F
  BY ClockAssumption DEF ClockAssumption, Times
<1>2. \A x \in Int : /\ 0 <= x /\ x < F => x % F = x
                     /\ - F <= x /\ x < 0 => x % F = x + F
                     /\ F <= x /\ x < F + F => x % F = x - F
  BY <1>1, AroundTheClock
<1>3. (at - before) % F <= t /\ t <= (at + after) % F
  BY <1>1 DEF InWindow
<1>4. (at - before) % F = IF before <= at THEN at - before ELSE at - before + F
  BY <1>1, <1>2
<1>5. (at + after) % F = IF at + after < F THEN at + after ELSE at + after - F
  BY <1>1, <1>2
<1>6. (t - at) % F = IF at <= t THEN t - at ELSE t - at + F
  BY <1>1, <1>2
<1>7. (at - t) % F = IF t <= at THEN at - t ELSE at - t + F
  BY <1>1, <1>2
<1>8. PICK lo, hi, d, e \in Int : /\ lo = (at - before) % F /\ hi = (at + after) % F
                                  /\ d = (t - at) % F /\ e = (at - t) % F
  BY <1>1, <1>4, <1>5, <1>6, <1>7
<1>9. d <= after \/ e <= after
  BY <1>1, <1>3, <1>4, <1>5, <1>6, <1>7, <1>8
<1>10. Distance(t, at) = IF d < e THEN d ELSE e
  BY <1>1, <1>8 DEF Distance
<1> QED
  BY <1>9, <1>10

\* _check_shift_window: who is on a shift, and not let off it, clocks in and
\* out around its times.
LEMMA AroundTheShiftStep ==
  ASSUME ClockInv, shift # << >>, ~ enabled, NEW w \in Request
  PROVE  /\ CheckIn(w) => Distance(now, shift[1]) <= Tolerance
         /\ CheckOut(w) => Distance(now, shift[2]) <= LateOut
<1>1. now \in Times /\ shift[1] \in 0 .. FullDay - 1 /\ shift[2] \in 0 .. FullDay - 1
  <2>1. shift \in (0 .. FullDay - 1) \X (0 .. FullDay - 1)
    BY ClockAssumption DEF ClockInv, Types, ClockAssumption
  <2> QED
    BY <2>1 DEF ClockInv, Types
<1>2. PICK t, i, o : t = now /\ i = shift[1] /\ o = shift[2]
  OBVIOUS
<1>3. /\ Tolerance \in Nat /\ LateOut \in Nat /\ Tolerance <= Tolerance
      /\ Tolerance <= LateOut /\ LateOut < FullDay /\ Tolerance < FullDay
  BY ClockAssumption DEF ClockAssumption
<1>4. ASSUME CheckIn(w) PROVE Distance(t, i) <= Tolerance
  <2>1. InWindow(t, i, Tolerance, Tolerance)
    BY <1>2, <1>4 DEF CheckIn, MayClockIn
  <2> QED
    BY <1>1, <1>2, <1>3, <2>1, WindowIsNear
<1>5. ASSUME CheckOut(w) PROVE Distance(t, o) <= LateOut
  <2>1. InWindow(t, o, Tolerance, LateOut)
    BY <1>2, <1>5 DEF CheckOut, MayClockOut
  <2> QED
    BY <1>1, <1>2, <1>3, <2>1, WindowIsNear
<1> QED
  BY <1>2, <1>4, <1>5

\* The day is clocked around the shift.
THEOREM ClockGoesByShift == Spec => AroundTheShift
<1>1. ClockInv /\ [Next]_vars =>
        [shift # << >> /\ ~ enabled => \A w \in Request :
           /\ CheckIn(w) => Distance(now, shift[1]) <= Tolerance
           /\ CheckOut(w) => Distance(now, shift[2]) <= LateOut]_vars
  BY AroundTheShiftStep
<1> QED
  BY <1>1, DayIsInOrder, PTL DEF Spec, AroundTheShift

\* Both together, as the runs check it.
THEOREM DayIsClocked == Spec => ClockedAroundTheShift
  BY TimesStay, ClockGoesByShift DEF ClockedAroundTheShift
=============================================================================
