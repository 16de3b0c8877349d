------------------------- MODULE NotificationProofs -------------------------
(***************************************************************************)
(* Theorems about Notifications for every set of requests, workers,        *)
(* persons and events: ToldAndLogged is the visible part of an inductive   *)
(* invariant.  What makes it inductive is what a transaction knows of the  *)
(* rows it has inserted and not committed: the key of none of them is in   *)
(* the table, no other transaction holds it, and once there is one, the    *)
(* next is refused only if the events with the key are disputed.           *)
(***************************************************************************)
EXTENDS Notifications, Sums, TLAPS

(***************************************************************************)
(* The invariant                                                           *)
(***************************************************************************)
\* What requests and workers carry, by where they are.
IdleProc == [pc : {"Idle"}]
StartProc == [pc : {"Start"}, event : Event]
WriteProc == [pc : {"Look", "Insert"}, event : Event, to : SUBSET Person,
              todo : SUBSET Person, made : SUBSET Person]

Types ==
  /\ TypeOK
  /\ proc \in [Process -> IdleProc \cup StartProc \cup WriteProc]
  /\ \A p \in Busy : proc[p].event \in published
  /\ \A k \in DOMAIN queue : queue[k] \in published
  /\ \A p \in Process : Writing(p) => proc[p].todo \subseteq proc[p].to /\ proc[p].made \subseteq proc[p].to
  /\ \A p \in Process : At(p, "Insert") => proc[p].todo # {}

\* An event is in one place: queued, with one process, or done with.
Once ==
  /\ \A j, k \in DOMAIN queue : queue[j] = queue[k] => j = k
  /\ \A k \in DOMAIN queue, p \in Busy : queue[k] # proc[p].event
  /\ \A p, q \in Busy : proc[p].event = proc[q].event => p = q

Used == {r.event : r \in rows} \cup {l.event : l \in logs}

OnceTold ==
  /\ \A k \in DOMAIN queue : queue[k] \notin Used
  /\ \A p \in Busy : proc[p].event \notin Used

\* The keys of what was inserted are free for the commit.
Keys ==
  \A p \in Process : Writing(p) => \A t \in proc[p].made :
    /\ ~ HasKey(t, proc[p].event)
    /\ \A q \in Process \ {p} : ~ Holds(q, t, proc[p].event)

\* Who was passed over has a row with the key.
Passed ==
  \A p \in Process : Writing(p) => \A t \in proc[p].to \ proc[p].todo :
    t \in proc[p].made \/ HasKey(t, proc[p].event)

\* The list of recipients is the one of now, or the event is marked.
Steady ==
  \A p \in Process : Writing(p) =>
    proc[p].to = Recipients(proc[p].event) \/ proc[p].event \in unsteady

\* Who has inserted a row is refused the next in a dispute only.
Granted ==
  \A p \in Process : At(p, "Insert") /\ proc[p].made # {} /\ HasKey(Min(proc[p].todo), proc[p].event)
    => Disputed(proc[p].event)

\* What was broadcast is held by the transaction of its own event.
BroadcastIsHeld ==
  \A b \in pushed :
    \/ Told(b.to, b.event)
    \/ b.event \in lost
    \/ \E p \in Process : Writing(p) /\ proc[p].event = b.event /\ b.to \in proc[p].made
    \/ Disputed(b.event)

NoticeInv ==
  /\ Types /\ Once /\ OnceTold /\ Keys /\ Passed /\ Steady /\ Granted /\ BroadcastIsHeld
  /\ ToldOnce /\ LogIsRight
(***************************************************************************)
(* Facts about the operators                                               *)
(***************************************************************************)
\* The next recipient is one of those to do.
LEMMA NextIsToDo ==
  ASSUME NEW T \in SUBSET Person, T # {}
  PROVE  Min(T) \in T
<1>1. T \in SUBSET Nat
  BY NotificationAssumption DEF NotificationAssumption
<1>2. PICK n \in T : \A m \in T : n <= m
  BY <1>1, LeastNumber
<1> QED
  BY <1>2 DEF Min

\* What is known of a process by where it is.
LEMMA ProcessTypes ==
  ASSUME Types, NEW p \in Process
  PROVE  /\ proc[p].pc \in {"Idle", "Start", "Look", "Insert"}
         /\ At(p, "Start") => proc[p] \in StartProc
         /\ Writing(p) => proc[p] \in WriteProc
         /\ Writing(p) \/ At(p, "Start") => p \in Busy
         /\ p \in Busy => Writing(p) \/ At(p, "Start")
         /\ p \in Busy => proc[p].event \in Event /\ proc[p].event \in published
<1>1. proc[p] \in IdleProc \cup StartProc \cup WriteProc
  BY DEF Types
<1>2. CASE proc[p] \in IdleProc
  BY <1>2 DEF IdleProc, At, Busy, Writing
<1>3. CASE proc[p] \in StartProc
  BY <1>3 DEF StartProc, At, Busy, Writing, Types, TypeOK
<1>4. CASE proc[p] \in WriteProc
  BY <1>4 DEF WriteProc, At, Busy, Writing, Types, TypeOK
<1> QED
  BY <1>1, <1>2, <1>3, <1>4

\* Rows are added only, so that who was told stays told and a key that was
\* taken stays so ...
LEMMA ToldForGood ==
  ASSUME rows \subseteq rows'
  PROVE  /\ \A t, e : Told(t, e) => Told(t, e)'
         /\ \A t, e : HasKey(t, e) => HasKey(t, e)'
  BY DEF Told, HasKey, SameKey, Keyed

\* ... and so does a dispute.
LEMMA DisputedForGood ==
  ASSUME published \subseteq published', unsteady \subseteq unsteady'
  PROVE  \A e : Disputed(e) => Disputed(e)'
  BY Zenon DEF Disputed

\* A key somebody has is one that tells him.
LEMMA KeyTells ==
  ASSUME NEW t, NEW e, HasKey(t, e)
  PROVE  Told(t, e)
  BY DEF HasKey, Told, SameKey, Keyed

(***************************************************************************)
(* What is told, as long as no row is added                                *)
(***************************************************************************)
LEMMA QuietTold ==
  ASSUME ToldOnce, LogIsRight, UNCHANGED <<rows, logs>>
  PROVE  ToldOnce' /\ LogIsRight'
  BY DEF ToldOnce, LogIsRight, Told, SameKey, Keyed

\* What processes know, as long as they go on and no row is added; somebody
\* may join or leave.
LEMMA QuietProcesses ==
  ASSUME NoticeInv, UNCHANGED <<rows, logs, pushed, lost, proc>>,
         published \subseteq published', unsteady \subseteq unsteady'
  PROVE  Keys' /\ Passed' /\ Granted' /\ BroadcastIsHeld'
<1>1. Keys'
  BY DEF NoticeInv, Keys, HasKey, Holds, Keyed, Writing, At
<1>2. Passed'
  BY DEF NoticeInv, Passed, HasKey, Keyed, Writing, At
<1>3. Granted'
  BY DisputedForGood DEF NoticeInv, Granted, HasKey, Keyed, At
<1>4. BroadcastIsHeld'
  BY DisputedForGood DEF NoticeInv, BroadcastIsHeld, Told, SameKey, Keyed, Writing, At
<1> QED
  BY <1>1, <1>2, <1>3, <1>4

(***************************************************************************)
(* Steps that touch no row: publishing, taking, resolving                  *)
(***************************************************************************)
LEMMA PublishKeeps ==
  ASSUME NoticeInv, NEW p \in Request, NEW e \in Event, NEW accepted \in BOOLEAN,
         Publish(p, e, accepted)
  PROVE  NoticeInv'
<1> DEFINE r == IF accepted THEN Free ELSE [pc |-> "Start", event |-> e]
<1>1. /\ At(p, "Idle") /\ e \notin published /\ published' = published \cup {e}
      /\ queue' = IF accepted THEN Append(queue, e) ELSE queue
      /\ proc' = [proc EXCEPT ![p] = r]
      /\ UNCHANGED <<active, rows, seen, logs, pushed, lost, unsteady>>
  BY DEF Publish, Becomes
<1>2. p \in Process /\ Types /\ TypeOK /\ proc \in [Process -> IdleProc \cup StartProc \cup WriteProc]
  BY DEF Process, NoticeInv, Types
<1>3. r \in IdleProc \cup StartProc /\ ~ (r.pc \in {"Look", "Insert"})
      /\ (r.pc # "Idle" => ~ accepted /\ r.event = e)
  BY DEF IdleProc, StartProc, Free
<1> HIDE DEF r
<1>4. proc'[p] = r /\ \A q \in Process \ {p} : proc'[q] = proc[q]
  BY <1>1, <1>2
<1>5. \A q \in Process : At(q, "Insert")' \/ Writing(q)' => q # p
  BY <1>3, <1>4 DEF At, Writing
<1>6. \A q \in Busy' : (q # p /\ q \in Busy /\ proc'[q] = proc[q]) \/ (q = p /\ ~ accepted /\ proc'[q].event = e)
  BY <1>3, <1>4 DEF At, Busy
<1>7. queue \in Seq(Event) /\ DOMAIN queue = 1 .. Len(queue) /\ Len(queue) \in Nat
  BY <1>2 DEF TypeOK
<1>8. \A k \in DOMAIN queue' : (k \in DOMAIN queue /\ queue'[k] = queue[k]) \/ (accepted /\ k = Len(queue) + 1 /\ queue'[k] = e)
  BY <1>1, <1>7
<1>9. queue' \in Seq(Event)
  BY <1>1, <1>7
<1>10. /\ \A k \in DOMAIN queue : queue[k] # e
       /\ \A q \in Busy : proc[q].event # e
       /\ e \notin Used /\ Used' = Used
  BY <1>1, <1>2 DEF Types, TypeOK, Used
<1>11. Types'
  <2>1. proc' \in [Process -> IdleProc \cup StartProc \cup WriteProc]
    BY <1>1, <1>2, <1>3
  <2>2. \A q \in Busy' : proc'[q].event \in published'
    BY <1>1, <1>2, <1>4, <1>6 DEF Types
  <2>3. \A k \in DOMAIN queue' : queue'[k] \in published'
    BY <1>1, <1>2, <1>8 DEF Types
  <2>4. \A q \in Process : Writing(q)' => proc'[q].todo \subseteq proc'[q].to /\ proc'[q].made \subseteq proc'[q].to
    BY <1>2, <1>4, <1>5 DEF Types, Writing, At
  <2>5. \A q \in Process : At(q, "Insert")' => proc'[q].todo # {}
    BY <1>2, <1>4, <1>5 DEF Types, At
  <2>6. \A q \in Process : proc'[q].pc \in {"Idle", "Start", "Look", "Insert"}
    BY <2>1 DEF IdleProc, StartProc, WriteProc
  <2>7. TypeOK'
    BY <1>1, <1>2, <1>9, <2>6 DEF TypeOK, At
  <2> QED
    BY <2>1, <2>2, <2>3, <2>4, <2>5, <2>7 DEF Types
<1>12. Once' /\ OnceTold'
  <2>1. \A j, k \in DOMAIN queue' : queue'[j] = queue'[k] => j = k
    BY <1>8, <1>10 DEF NoticeInv, Once
  <2>2. \A k \in DOMAIN queue', q \in Busy' : queue'[k] # proc'[q].event
    BY <1>4, <1>6, <1>8, <1>10 DEF NoticeInv, Once
  <2>3. \A q, s \in Busy' : proc'[q].event = proc'[s].event => q = s
    BY <1>4, <1>6, <1>10 DEF NoticeInv, Once, Busy
  <2>4. (\A k \in DOMAIN queue' : queue'[k] \notin Used') /\ \A q \in Busy' : proc'[q].event \notin Used'
    BY <1>1, <1>4, <1>6, <1>8, <1>10 DEF NoticeInv, OnceTold, Busy
  <2> QED
    BY <2>1, <2>2, <2>3, <2>4 DEF Once, OnceTold
<1>13. \A q \in Process : Writing(q)' => q # p /\ Writing(q) /\ proc'[q] = proc[q]
  BY <1>4, <1>5 DEF Writing, At
<1>14. \A t, f : HasKey(t, f)' = HasKey(t, f)
  BY <1>1 DEF HasKey
<1>15. Keys'
  BY <1>13, <1>14 DEF NoticeInv, Keys, Holds
<1>16. Passed'
  BY <1>13, <1>14 DEF NoticeInv, Passed
<1>17. Steady'
  BY <1>1, <1>13 DEF NoticeInv, Steady, Recipients
<1>18. Granted'
  <2>1. \A f : Disputed(f) => Disputed(f)'
    BY <1>1, DisputedForGood
  <2> QED
    BY <1>4, <1>5, <1>14, <2>1 DEF NoticeInv, Granted, At
<1>19. BroadcastIsHeld'
  <2>1. \A f : Disputed(f) => Disputed(f)'
    BY <1>1, DisputedForGood
  <2>2. \A q \in Process : Writing(q) => Writing(q)' /\ proc'[q] = proc[q]
    BY <1>1, <1>4 DEF Writing, At
  <2>3. \A t, f : Told(t, f) => Told(t, f)'
    BY <1>1, ToldForGood
  <2> QED
    BY <1>1, <2>1, <2>2, <2>3 DEF NoticeInv, BroadcastIsHeld
<1>20. ToldOnce' /\ LogIsRight'
  BY <1>1, QuietTold DEF NoticeInv
<1> QED
  BY <1>11, <1>12, <1>15, <1>16, <1>17, <1>18, <1>19, <1>20 DEF NoticeInv

\* A worker takes the first of the queue.
LEMMA TakeKeeps ==
  ASSUME NoticeInv, NEW p \in Process, Take(p)
  PROVE  NoticeInv'
<1> DEFINE e == Head(queue)
           r == [pc |-> "Start", event |-> e]
<1>1. /\ At(p, "Idle") /\ queue # << >> /\ queue' = Tail(queue)
      /\ proc' = [proc EXCEPT ![p] = r]
      /\ UNCHANGED <<active, published, rows, seen, logs, pushed, lost, unsteady>>
  BY DEF Take, Becomes
<1>2. Types /\ TypeOK /\ proc \in [Process -> IdleProc \cup StartProc \cup WriteProc]
  BY DEF NoticeInv, Types
<1>3. queue \in Seq(Event) /\ DOMAIN queue = 1 .. Len(queue) /\ Len(queue) \in Nat
  BY <1>2 DEF TypeOK
<1>4. 1 \in DOMAIN queue /\ e = queue[1] /\ e \in Event /\ e \in published
  BY <1>1, <1>2, <1>3 DEF Types
<1>5. /\ queue' \in Seq(Event)
      /\ \A k \in DOMAIN queue' : k + 1 \in DOMAIN queue /\ k \in Nat /\ k > 0 /\ queue'[k] = queue[k + 1]
  BY <1>1, <1>3
<1>6. r \in StartProc /\ r.pc = "Start" /\ r.event = e
  BY <1>4 DEF StartProc
<1> HIDE DEF r, e
<1>7. proc'[p] = r /\ \A q \in Process \ {p} : proc'[q] = proc[q]
  BY <1>1, <1>2
<1>8. \A q \in Busy' : q \in Process /\ ((q # p /\ q \in Busy /\ proc'[q] = proc[q]) \/ (q = p /\ proc'[q].event = e))
  BY <1>6, <1>7 DEF At, Busy
<1>9. \A q \in Process : Writing(q)' => q # p /\ Writing(q) /\ proc'[q] = proc[q]
  BY <1>6, <1>7 DEF Writing, At
<1>10. \A q \in Process : At(q, "Insert")' => q # p /\ At(q, "Insert") /\ proc'[q] = proc[q]
  BY <1>6, <1>7 DEF At
<1>11. Types'
  <2>1. proc' \in [Process -> IdleProc \cup StartProc \cup WriteProc]
    BY <1>1, <1>2, <1>6
  <2>2. \A q \in Busy' : proc'[q].event \in published'
    BY <1>1, <1>2, <1>4, <1>8 DEF Types
  <2>3. \A k \in DOMAIN queue' : queue'[k] \in published'
    BY <1>1, <1>2, <1>5 DEF Types
  <2>4. \A q \in Process : Writing(q)' => proc'[q].todo \subseteq proc'[q].to /\ proc'[q].made \subseteq proc'[q].to
    BY <1>2, <1>9 DEF Types
  <2>5. \A q \in Process : At(q, "Insert")' => proc'[q].todo # {}
    BY <1>2, <1>10 DEF Types
  <2>6. \A q \in Process : proc'[q].pc \in {"Idle", "Start", "Look", "Insert"}
    BY <2>1 DEF IdleProc, StartProc, WriteProc
  <2>7. TypeOK'
    BY <1>1, <1>2, <1>5, <2>6 DEF TypeOK, At
  <2> QED
    BY <2>1, <2>2, <2>3, <2>4, <2>5, <2>7 DEF Types
<1>12. Once' /\ OnceTold'
  <2>1. \A k \in DOMAIN queue' : queue'[k] # e
    BY <1>4, <1>5 DEF NoticeInv, Once
  <2>2. \A q \in Busy : proc[q].event # e
    BY <1>4 DEF NoticeInv, Once
  <2>3. \A j, k \in DOMAIN queue' : queue'[j] = queue'[k] => j = k
    BY <1>5 DEF NoticeInv, Once
  <2>4. \A k \in DOMAIN queue', q \in Busy' : queue'[k] # proc'[q].event
    BY <1>5, <1>8, <2>1 DEF NoticeInv, Once
  <2>5. \A q, s \in Busy' : proc'[q].event = proc'[s].event => q = s
    BY <1>8, <2>2 DEF NoticeInv, Once
  <2>6. Used' = Used
    BY <1>1 DEF Used
  <2>7. (\A k \in DOMAIN queue' : queue'[k] \notin Used') /\ \A q \in Busy' : proc'[q].event \notin Used'
    BY <1>4, <1>5, <1>8, <2>6 DEF NoticeInv, OnceTold
  <2> QED
    BY <2>3, <2>4, <2>5, <2>7 DEF Once, OnceTold
<1>13. \A t, f : HasKey(t, f)' = HasKey(t, f)
  BY <1>1 DEF HasKey
<1>14. Keys' /\ Passed'
  BY <1>9, <1>13 DEF NoticeInv, Keys, Passed, Holds
<1>15. Steady'
  BY <1>1, <1>9 DEF NoticeInv, Steady, Recipients
<1>16. \A f : Disputed(f)' = Disputed(f)
  BY <1>1 DEF Disputed
<1>17. Granted'
  BY <1>10, <1>13, <1>16 DEF NoticeInv, Granted
<1>18. BroadcastIsHeld'
  <2>1. \A q \in Process : Writing(q) => Writing(q)' /\ proc'[q] = proc[q]
    BY <1>1, <1>7 DEF Writing, At
  <2>2. \A t, f : Told(t, f)' = Told(t, f)
    BY <1>1 DEF Told
  <2> QED
    BY <1>1, <1>16, <2>1, <2>2 DEF NoticeInv, BroadcastIsHeld
<1>19. ToldOnce' /\ LogIsRight'
  BY <1>1, QuietTold DEF NoticeInv
<1> QED
  BY <1>11, <1>12, <1>14, <1>15, <1>17, <1>18, <1>19 DEF NoticeInv

(***************************************************************************)
(* Steps of one process with its event                                     *)
(***************************************************************************)
\* The tables are well typed.
Tables ==
  /\ rows \subseteq [to : Person, event : published] /\ seen \subseteq rows
  /\ pushed \subseteq [to : Person, event : published]
  /\ \A l \in logs : l.event \in published /\ l.to \subseteq Person
  /\ lost \subseteq published

\* A process goes on with its event or is done with it.
LEMMA OneGoesOn ==
  ASSUME NoticeInv, NEW p \in Busy, NEW r \in IdleProc \cup StartProc \cup WriteProc,
         proc' = [proc EXCEPT ![p] = r],
         r.pc # "Idle" => r.event = proc[p].event,
         r.pc \in {"Look", "Insert"} => r.todo \subseteq r.to /\ r.made \subseteq r.to,
         r.pc = "Insert" => r.todo # {},
         UNCHANGED <<active, queue, published, unsteady>>,
         Tables',
         \A x \in Used' : x \in Used \/ (r.pc = "Idle" /\ x = proc[p].event)
  PROVE  /\ Types' /\ Once' /\ OnceTold'
         /\ proc'[p] = r /\ \A q \in Process \ {p} : proc'[q] = proc[q]
<1>1. p \in Process /\ Types /\ TypeOK /\ proc \in [Process -> IdleProc \cup StartProc \cup WriteProc]
  BY DEF NoticeInv, Types, Busy
<1>2. proc'[p] = r /\ \A q \in Process \ {p} : proc'[q] = proc[q]
  BY <1>1
<1>3. \A q \in Busy' : q \in Busy /\ proc'[q].event = proc[q].event /\ (q = p => r.pc # "Idle")
  BY <1>2 DEF At, Busy
<1>4. Types'
  <2>1. proc' \in [Process -> IdleProc \cup StartProc \cup WriteProc]
    BY <1>1
  <2>2. \A q \in Busy' : proc'[q].event \in published'
    BY <1>1, <1>3 DEF Types
  <2>3. \A k \in DOMAIN queue' : queue'[k] \in published'
    BY <1>1 DEF Types
  <2>4. \A q \in Process : Writing(q)' => proc'[q].todo \subseteq proc'[q].to /\ proc'[q].made \subseteq proc'[q].to
    BY <1>1, <1>2 DEF Types, Writing, At
  <2>5. \A q \in Process : At(q, "Insert")' => proc'[q].todo # {}
    BY <1>1, <1>2 DEF Types, At
  <2>6. \A q \in Process : proc'[q].pc \in {"Idle", "Start", "Look", "Insert"}
    BY <2>1 DEF IdleProc, StartProc, WriteProc
  <2>7. TypeOK'
    BY <1>1, <2>6 DEF TypeOK, Tables, At
  <2> QED
    BY <2>1, <2>2, <2>3, <2>4, <2>5, <2>7 DEF Types
<1>5. Once'
  <2>1. \A j, k \in DOMAIN queue' : queue'[j] = queue'[k] => j = k
    BY DEF NoticeInv, Once
  <2>2. \A k \in DOMAIN queue', q \in Busy' : queue'[k] # proc'[q].event
    BY <1>3 DEF NoticeInv, Once
  <2>3. \A q, s \in Busy' : proc'[q].event = proc'[s].event => q = s
    BY <1>3 DEF NoticeInv, Once
  <2> QED
    BY <2>1, <2>2, <2>3 DEF Once
<1>6. OnceTold'
  <2>1. \A k \in DOMAIN queue' : queue'[k] \notin Used'
    BY DEF NoticeInv, Once, OnceTold
  <2>2. \A q \in Busy' : proc'[q].event \notin Used'
    BY <1>3 DEF NoticeInv, Once, OnceTold
  <2> QED
    BY <2>1, <2>2 DEF OnceTold
<1> QED
  BY <1>2, <1>4, <1>5, <1>6

\* Tables that stay are well typed.
LEMMA SameTables ==
  ASSUME NoticeInv, UNCHANGED <<published, rows, seen, logs, pushed, lost>>
  PROVE  Tables' /\ Used' = Used
  BY DEF NoticeInv, Types, TypeOK, Tables, Used

\* The recipients are those of now.
LEMMA ResolveKeeps ==
  ASSUME NoticeInv, NEW p \in Process, Resolve(p)
  PROVE  NoticeInv'
<1> DEFINE e == proc[p].event
           r == [pc |-> "Look", event |-> e, to |-> Recipients(e), todo |-> Recipients(e), made |-> {}]
<1>1. /\ At(p, "Start") /\ proc' = [proc EXCEPT ![p] = r]
      /\ UNCHANGED <<active, queue, published, rows, seen, logs, pushed, lost, unsteady>>
  BY DEF Resolve, Becomes
<1>2. Types
  BY DEF NoticeInv
<1>3. p \in Busy /\ e \in Event
  BY <1>1, <1>2, ProcessTypes
<1>4. Recipients(e) \in SUBSET Person
  BY <1>2 DEF Types, TypeOK, Recipients
<1>5. r \in WriteProc /\ r.pc = "Look" /\ r.event = e /\ r.to = Recipients(e) /\ r.todo = r.to /\ r.made = {}
  BY <1>3, <1>4 DEF WriteProc
<1> HIDE DEF r
<1>6. Tables' /\ Used' = Used
  BY <1>1, SameTables
<1>7. /\ Types' /\ Once' /\ OnceTold'
      /\ proc'[p] = r /\ \A q \in Process \ {p} : proc'[q] = proc[q]
  BY <1>1, <1>3, <1>5, <1>6, OneGoesOn
<1> HIDE DEF e
<1>8. \A q \in Process : Writing(q)' =>
        (q # p /\ Writing(q) /\ proc'[q] = proc[q]) \/ (q = p /\ proc'[q] = r)
  BY <1>7 DEF Writing, At
<1>9. \A q \in Process : At(q, "Insert")' => q # p /\ At(q, "Insert") /\ proc'[q] = proc[q]
  BY <1>5, <1>7 DEF At
<1>10. \A t, f : HasKey(t, f)' = HasKey(t, f)
  BY <1>1 DEF HasKey
<1>11. Keys'
  BY <1>5, <1>8, <1>10 DEF NoticeInv, Keys, Holds
<1>12. Passed'
  BY <1>5, <1>8, <1>10 DEF NoticeInv, Passed
<1>13. Steady'
  BY <1>1, <1>5, <1>8 DEF NoticeInv, Steady, Recipients
<1>14. \A f : Disputed(f)' = Disputed(f)
  BY <1>1 DEF Disputed
<1>15. Granted'
  BY <1>9, <1>10, <1>14 DEF NoticeInv, Granted
<1>16. BroadcastIsHeld'
  <2>1. \A q \in Process : Writing(q) => Writing(q)' /\ proc'[q] = proc[q]
    BY <1>1, <1>7 DEF Writing, At
  <2>2. \A t, f : Told(t, f)' = Told(t, f)
    BY <1>1 DEF Told
  <2> QED
    BY <1>1, <1>14, <2>1, <2>2 DEF NoticeInv, BroadcastIsHeld
<1>17. ToldOnce' /\ LogIsRight'
  BY <1>1, QuietTold DEF NoticeInv
<1> QED
  BY <1>7, <1>11, <1>12, <1>13, <1>15, <1>16, <1>17 DEF NoticeInv

\* The next recipient is passed over, who then has a row with the key, or is
\* about to get one, and then nobody has.
LEMMA LookKeeps ==
  ASSUME NoticeInv, NEW p \in Process, Look(p)
  PROVE  NoticeInv'
<1> DEFINE e == proc[p].event
           t == Min(proc[p].todo)
           r == IF HasKey(t, e) THEN [proc[p] EXCEPT !.todo = @ \ {t}] ELSE [proc[p] EXCEPT !.pc = "Insert"]
<1>1. /\ At(p, "Look") /\ proc[p].todo # {} /\ proc' = [proc EXCEPT ![p] = r]
      /\ UNCHANGED <<active, queue, published, rows, seen, logs, pushed, lost, unsteady>>
  BY DEF Look, Becomes
<1>2. Types /\ Writing(p)
  BY <1>1 DEF NoticeInv, Writing
<1>3. p \in Busy /\ proc[p] \in WriteProc /\ proc[p].todo \subseteq proc[p].to /\ proc[p].made \subseteq proc[p].to
  BY <1>2, ProcessTypes DEF Types
<1>4. t \in proc[p].todo
  BY <1>1, <1>3, NextIsToDo DEF WriteProc
<1> HIDE DEF t
<1>7. /\ r \in WriteProc /\ r.pc \in {"Look", "Insert"} /\ r.event = e /\ r.to = proc[p].to /\ r.made = proc[p].made
      /\ r.todo \subseteq proc[p].todo
      /\ \A s \in proc[p].todo \ r.todo : HasKey(s, e)
      /\ r.pc = "Insert" => r.todo # {} /\ ~ HasKey(Min(r.todo), e)
  <2>1. CASE HasKey(t, e)
    <3>1. r = [proc[p] EXCEPT !.todo = @ \ {t}]
      BY <2>1
    <3>2. /\ r \in WriteProc /\ r.pc = "Look" /\ r.event = e /\ r.to = proc[p].to /\ r.made = proc[p].made
          /\ r.todo = proc[p].todo \ {t}
      BY <1>1, <1>3, <3>1 DEF WriteProc, At
    <3> QED
      BY <2>1, <3>2
  <2>2. CASE ~ HasKey(t, e)
    <3>1. r = [proc[p] EXCEPT !.pc = "Insert"]
      BY <2>2
    <3>2. /\ r \in WriteProc /\ r.pc = "Insert" /\ r.event = e /\ r.to = proc[p].to /\ r.made = proc[p].made
          /\ r.todo = proc[p].todo
      BY <1>1, <1>3, <3>1 DEF WriteProc
    <3>3. ~ HasKey(Min(r.todo), e)
      BY <2>2, <3>2 DEF t
    <3> QED
      BY <1>1, <3>2, <3>3
  <2> QED
    BY <2>1, <2>2
<1> HIDE DEF r
<1>8. Tables' /\ Used' = Used
  BY <1>1, SameTables
<1>9. /\ Types' /\ Once' /\ OnceTold'
      /\ proc'[p] = r /\ \A q \in Process \ {p} : proc'[q] = proc[q]
  BY <1>1, <1>3, <1>7, <1>8, OneGoesOn
<1> HIDE DEF e
<1>10. \A q \in Process : Writing(q)' =>
         (q # p /\ Writing(q) /\ proc'[q] = proc[q]) \/ (q = p /\ proc'[q] = r)
  BY <1>9 DEF Writing, At
<1>11. \A q \in Process : Writing(q)' =>
         /\ Writing(q) /\ proc'[q].event = proc[q].event /\ proc'[q].to = proc[q].to /\ proc'[q].made = proc[q].made
         /\ \A s \in proc'[q].to \ proc'[q].todo : s \in proc[q].to \ proc[q].todo \/ HasKey(s, proc[q].event)
  BY <1>2, <1>7, <1>10 DEF e
<1>12. \A s, f : HasKey(s, f)' = HasKey(s, f)
  BY <1>1 DEF HasKey
<1>13. Keys'
  BY <1>11, <1>12 DEF NoticeInv, Keys, Holds
<1>14. Passed'
  BY <1>11, <1>12 DEF NoticeInv, Passed
<1>15. Steady'
  BY <1>1, <1>11 DEF NoticeInv, Steady, Recipients
<1>16. \A f : Disputed(f)' = Disputed(f)
  BY <1>1 DEF Disputed
<1>17. Granted'
  <2> SUFFICES ASSUME NEW q \in Process, At(q, "Insert")', proc'[q].made # {},
                      HasKey(Min(proc[q].todo), proc[q].event)'
               PROVE  Disputed(proc[q].event)'
    BY DEF Granted
  <2>1. q # p
    BY <1>7, <1>9, <1>12 DEF At
  <2> QED
    BY <1>9, <1>12, <1>16, <2>1 DEF NoticeInv, Granted, At
<1>18. BroadcastIsHeld'
  <2>1. \A q \in Process : Writing(q) => Writing(q)' /\ proc'[q].event = proc[q].event /\ proc'[q].made = proc[q].made
    BY <1>7, <1>9 DEF Writing, At, e
  <2>2. \A s, f : Told(s, f)' = Told(s, f)
    BY <1>1 DEF Told
  <2> QED
    BY <1>1, <1>16, <2>1, <2>2 DEF NoticeInv, BroadcastIsHeld
<1>19. ToldOnce' /\ LogIsRight'
  BY <1>1, QuietTold DEF NoticeInv
<1> QED
  BY <1>9, <1>13, <1>14, <1>15, <1>17, <1>18, <1>19 DEF NoticeInv

\* A process that ends without a commit leaves what the others know.
LEMMA EndKeeps ==
  ASSUME NoticeInv, NEW p \in Busy, proc' = [proc EXCEPT ![p] = Free],
         UNCHANGED <<active, queue, published, rows, seen, logs, pushed, unsteady>>,
         lost' \subseteq published, lost \subseteq lost',
         proc[p].event \in lost' \/ Disputed(proc[p].event) \/ (Writing(p) => proc[p].made = {})
  PROVE  NoticeInv'
<1>1. Free \in IdleProc /\ Free.pc = "Idle"
  BY DEF IdleProc, Free
<1>2. Tables' /\ Used' = Used
  BY DEF NoticeInv, Types, TypeOK, Tables, Used
<1>3. /\ Types' /\ Once' /\ OnceTold'
      /\ proc'[p] = Free /\ \A q \in Process \ {p} : proc'[q] = proc[q]
  BY <1>1, <1>2, OneGoesOn
<1>4. \A q \in Process : Writing(q)' => q # p /\ Writing(q) /\ proc'[q] = proc[q]
  BY <1>1, <1>3 DEF Writing, At
<1>5. \A q \in Process : At(q, "Insert")' => q # p /\ At(q, "Insert") /\ proc'[q] = proc[q]
  BY <1>1, <1>3 DEF At
<1>6. \A t, f : HasKey(t, f)' = HasKey(t, f)
  BY DEF HasKey
<1>7. Keys' /\ Passed'
  BY <1>4, <1>6 DEF NoticeInv, Keys, Passed, Holds
<1>8. Steady'
  BY <1>4 DEF NoticeInv, Steady, Recipients
<1>9. \A f : Disputed(f)' = Disputed(f)
  BY DEF Disputed
<1>10. Granted'
  BY <1>5, <1>6, <1>9 DEF NoticeInv, Granted
<1>11. BroadcastIsHeld'
  <2>1. \A q \in Process \ {p} : Writing(q) => Writing(q)' /\ proc'[q] = proc[q]
    BY <1>3 DEF Writing, At
  <2>2. \A t, f : Told(t, f)' = Told(t, f)
    BY DEF Told
  <2> SUFFICES ASSUME NEW b \in pushed,
                      ~ Told(b.to, b.event), b.event \notin lost', ~ Disputed(b.event)
               PROVE  \E q \in Process : Writing(q)' /\ proc'[q].event = b.event /\ b.to \in proc'[q].made
    BY <1>9, <2>2 DEF BroadcastIsHeld
  <2>3. PICK q \in Process : Writing(q) /\ proc[q].event = b.event /\ b.to \in proc[q].made
    BY DEF NoticeInv, BroadcastIsHeld
  <2>4. q # p
    BY <2>3
  <2> QED
    BY <2>1, <2>3, <2>4
<1>12. ToldOnce' /\ LogIsRight'
  BY QuietTold DEF NoticeInv
<1> QED
  BY <1>3, <1>7, <1>8, <1>10, <1>11, <1>12 DEF NoticeInv

LEMMA DieKeeps ==
  ASSUME NoticeInv, NEW p \in Process, Die(p)
  PROVE  NoticeInv'
<1>1. /\ p \in Busy /\ proc' = [proc EXCEPT ![p] = Free] /\ lost' = lost \cup {proc[p].event}
      /\ UNCHANGED <<active, queue, published, rows, seen, logs, pushed, unsteady>>
  BY DEF Die, Becomes
<1>2. lost' \subseteq published
  BY <1>1 DEF NoticeInv, Types, TypeOK
<1> QED
  BY <1>1, <1>2, EndKeeps

\* A row is inserted, or refused with all that were inserted before.
LEMMA InsertKeeps ==
  ASSUME NoticeInv, NEW p \in Process, Insert(p)
  PROVE  NoticeInv'
<1> DEFINE e == proc[p].event
           t == Min(proc[p].todo)
           r == [proc[p] EXCEPT !.pc = "Look", !.todo = @ \ {t}, !.made = @ \cup {t}]
           b == [to |-> t, event |-> e]
<1>1. /\ At(p, "Insert") /\ \A q \in Process \ {p} : ~ Holds(q, t, e)
      /\ proc' = [proc EXCEPT ![p] = IF HasKey(t, e) THEN Free ELSE r]
      /\ pushed' = IF HasKey(t, e) THEN pushed ELSE pushed \cup {b}
      /\ UNCHANGED <<active, queue, published, rows, seen, logs, lost, unsteady>>
  BY DEF Insert, Becomes
<1>2. Types /\ Writing(p)
  BY <1>1 DEF NoticeInv, Writing
<1>3. /\ p \in Busy /\ e \in published
      /\ proc[p] \in WriteProc /\ proc[p].todo \subseteq proc[p].to /\ proc[p].made \subseteq proc[p].to
  BY <1>2, ProcessTypes DEF Types
<1>4. t \in proc[p].todo
  BY <1>1, <1>2, <1>3, NextIsToDo DEF WriteProc, Types
<1>5. CASE HasKey(t, e)
  <2>1. Disputed(e) \/ proc[p].made = {}
    BY <1>1, <1>5 DEF NoticeInv, Granted
  <2>2. proc' = [proc EXCEPT ![p] = Free] /\ UNCHANGED pushed
    BY <1>1, <1>5
  <2>3. lost' \subseteq published /\ lost \subseteq lost'
    BY <1>1, <1>2 DEF Types, TypeOK
  <2> QED
    BY <1>1, <1>3, <2>1, <2>2, <2>3, EndKeeps
<1>6. CASE ~ HasKey(t, e)
  <2> HIDE DEF t
  <2>1. /\ r \in WriteProc /\ r.pc = "Look" /\ r.event = e /\ r.to = proc[p].to
        /\ r.todo = proc[p].todo \ {t} /\ r.made = proc[p].made \cup {t}
    BY <1>3, <1>4 DEF WriteProc
  <2> HIDE DEF r
  <2>2. t \in Person /\ proc' = [proc EXCEPT ![p] = r] /\ pushed' = pushed \cup {b}
    BY <1>1, <1>3, <1>4, <1>6 DEF WriteProc
  <2>3. Tables' /\ Used' = Used
    BY <1>1, <1>3, <2>2 DEF NoticeInv, Types, TypeOK, Tables, Used
  <2>4. /\ Types' /\ Once' /\ OnceTold'
        /\ proc'[p] = r /\ \A q \in Process \ {p} : proc'[q] = proc[q]
    <3>1. r \in IdleProc \cup StartProc \cup WriteProc
      BY <2>1
    <3>2. /\ r.pc # "Idle" => r.event = proc[p].event
          /\ r.pc \in {"Look", "Insert"} => r.todo \subseteq r.to /\ r.made \subseteq r.to
          /\ r.pc = "Insert" => r.todo # {}
      BY <1>3, <1>4, <2>1
    <3>3. UNCHANGED <<active, queue, published, unsteady>>
      BY <1>1
    <3>4. \A x \in Used' : x \in Used \/ (r.pc = "Idle" /\ x = proc[p].event)
      BY <2>3
    <3> HIDE DEF e
    <3> QED
      BY <1>3, <2>2, <2>3, <3>1, <3>2, <3>3, <3>4, OneGoesOn
  <2> HIDE DEF e, b
  <2>5. \A q \in Process : Writing(q)' =>
           (q # p /\ Writing(q) /\ proc'[q] = proc[q]) \/ (q = p /\ proc'[q] = r)
    BY <2>4 DEF Writing, At
  <2>6. \A q \in Process : At(q, "Insert")' => q # p /\ At(q, "Insert") /\ proc'[q] = proc[q]
    BY <2>1, <2>4 DEF At
  <2>7. \A s, f : HasKey(s, f)' = HasKey(s, f)
    BY <1>1 DEF HasKey
  <2>8. proc[p].event = e
    BY DEF e
  <2>9. Keys'
    <3> SUFFICES ASSUME NEW q \in Process, Writing(q)', NEW s \in proc'[q].made
                 PROVE  /\ ~ HasKey(s, proc[q].event)'
                        /\ \A x \in Process \ {q} : ~ Holds(x, s, proc[q].event)'
      BY DEF Keys
    <3>1. ~ HasKey(s, proc[q].event)'
      <4>1. CASE q = p
        <5>1. s = t \/ s \in proc[p].made
          BY <2>1, <2>4, <4>1
        <5>2. ~ HasKey(s, e)
          BY <1>2, <1>6, <2>8, <5>1 DEF NoticeInv, Keys
        <5> QED
          BY <2>1, <2>4, <2>7, <4>1, <5>2
      <4>2. CASE q # p
        BY <2>5, <2>7, <4>2 DEF NoticeInv, Keys
      <4> QED
        BY <4>1, <4>2
    <3>2. ASSUME NEW x \in Process \ {q}, Holds(x, s, proc[q].event)'
          PROVE  FALSE
      <4>1. /\ Writing(x)' /\ s \in proc'[x].made /\ Keyed(proc'[q].event)
            /\ proc'[x].event.key = proc'[q].event.key
        BY <3>2 DEF Holds
      <4>2. CASE q = p
        <5>1. x # p /\ Writing(x) /\ proc'[x] = proc[x] /\ proc'[q].event = e
          BY <2>1, <2>4, <2>5, <4>1, <4>2
        <5>2. Holds(x, s, e)
          BY <4>1, <5>1 DEF Holds
        <5>3. s = t \/ s \in proc[p].made
          BY <2>1, <2>4, <4>2
        <5> QED
          BY <1>1, <1>2, <2>8, <5>1, <5>2, <5>3 DEF NoticeInv, Keys
      <4>3. CASE q # p /\ x = p
        <5>1. Writing(q) /\ proc'[q] = proc[q] /\ proc'[x].event = e /\ (s = t \/ s \in proc[p].made)
          BY <2>1, <2>4, <2>5, <4>1, <4>3
        <5>2. CASE s = t
          <6>1. Holds(q, t, e)
            BY <4>1, <5>1, <5>2 DEF Holds, Keyed
          <6> QED
            BY <1>1, <4>3, <6>1
        <5>3. CASE s \in proc[p].made
          <6>1. Holds(p, s, proc[q].event)
            BY <1>2, <2>8, <4>1, <5>1, <5>3, <4>3 DEF Holds
          <6> QED
            BY <4>3, <5>1, <6>1 DEF NoticeInv, Keys
        <5> QED
          BY <5>1, <5>2, <5>3
      <4>4. CASE q # p /\ x # p
        <5>1. Writing(q) /\ proc'[q] = proc[q] /\ Writing(x) /\ proc'[x] = proc[x]
          BY <2>5, <4>1, <4>4
        <5>2. Holds(x, s, proc[q].event)
          BY <4>1, <5>1 DEF Holds
        <5> QED
          BY <5>1, <5>2 DEF NoticeInv, Keys
      <4> QED
        BY <4>2, <4>3, <4>4
    <3> QED
      BY <3>1, <3>2
  <2>10. Passed'
    <3> SUFFICES ASSUME NEW q \in Process, Writing(q)', NEW s \in proc'[q].to \ proc'[q].todo
                 PROVE  s \in proc'[q].made \/ HasKey(s, proc[q].event)'
      BY DEF Passed
    <3>1. CASE q = p
      <4>1. s = t \/ s \in proc[p].to \ proc[p].todo
        BY <2>1, <2>4, <3>1
      <4>2. s \in proc'[p].made \/ HasKey(s, e)
        BY <1>2, <2>1, <2>4, <2>8, <4>1 DEF NoticeInv, Passed
      <4> QED
        BY <2>1, <2>4, <2>7, <3>1, <4>2
    <3>2. CASE q # p
      BY <2>5, <2>7, <3>2 DEF NoticeInv, Passed
    <3> QED
      BY <3>1, <3>2
  <2>11. Steady'
    BY <1>1, <1>2, <2>1, <2>5, <2>8 DEF NoticeInv, Steady, Recipients
  <2>12. \A f : Disputed(f)' = Disputed(f)
    BY <1>1 DEF Disputed
  <2>13. Granted'
    BY <2>6, <2>7, <2>12 DEF NoticeInv, Granted
  <2>14. BroadcastIsHeld'
    <3>1. \A q \in Process : Writing(q) =>
            Writing(q)' /\ proc'[q].event = proc[q].event /\ proc[q].made \subseteq proc'[q].made
      BY <2>1, <2>4, <2>8 DEF Writing, At
    <3>2. \A s, f : Told(s, f)' = Told(s, f)
      BY <1>1 DEF Told
    <3>3. Writing(p)' /\ proc'[p].event = b.event /\ b.to \in proc'[p].made
      BY <2>1, <2>4 DEF Writing, At, b
    <3>4. \A c \in pushed' : c \in pushed \/ c = b
      BY <2>2
    <3> QED
      BY <1>1, <2>12, <3>1, <3>2, <3>3, <3>4 DEF NoticeInv, BroadcastIsHeld
  <2>15. ToldOnce' /\ LogIsRight'
    BY <1>1, QuietTold DEF NoticeInv
  <2> QED
    BY <2>4, <2>9, <2>10, <2>11, <2>13, <2>14, <2>15 DEF NoticeInv
<1> QED
  BY <1>5, <1>6

(***************************************************************************)
(* The commit                                                              *)
(***************************************************************************)
\* There are as many rows of an event as there were recipients made.
LEMMA OneRowEach ==
  ASSUME NEW e, NEW M, IsFiniteSet(M)
  PROVE  Cardinality({[to |-> t, event |-> e] : t \in M}) = Cardinality(M)
<1> DEFINE N == {[to |-> t, event |-> e] : t \in M}
           f == [t \in M |-> [to |-> t, event |-> e]]
<1>1. f \in [M -> N] /\ \A t \in M : f[t].to = t
  OBVIOUS
<1>2. \A n \in N : \E t \in M : f[t] = n
  OBVIOUS
<1> HIDE DEF f, N
<1>3. f \in Bijection(M, N)
  BY <1>1, <1>2 DEF Bijection, Injection, Surjection, IsInjective
<1>4. ExistsBijection(M, N)
  BY <1>3 DEF ExistsBijection
<1>5. Cardinality(N) = Cardinality(M)
  BY <1>4, FS_Bijection
<1> QED
  BY <1>5 DEF N

\* The rows of a transaction are those of one event, for whom it was made.
LEMMA CommitKeeps ==
  ASSUME NoticeInv, NEW p \in Process, Commit(p)
  PROVE  NoticeInv'
<1> DEFINE e == proc[p].event
           made == proc[p].made
           N == {[to |-> t, event |-> e] : t \in made}
           l == [event |-> e, to |-> proc[p].to, made |-> Cardinality(made)]
<1>1. /\ At(p, "Look") /\ proc[p].todo = {} /\ proc' = [proc EXCEPT ![p] = Free]
      /\ rows' = rows \cup N /\ logs' = logs \cup {l}
      /\ UNCHANGED <<active, queue, published, seen, pushed, lost, unsteady>>
  BY DEF Commit, Becomes
<1>2. Types /\ Writing(p)
  BY <1>1 DEF NoticeInv, Writing
<1>3. /\ p \in Busy /\ e \in published /\ proc[p] \in WriteProc
      /\ proc[p].to \subseteq Person /\ made \subseteq proc[p].to /\ IsFiniteSet(made)
  <2>1. /\ p \in Busy /\ e \in published /\ proc[p] \in WriteProc
        /\ proc[p].to \subseteq Person /\ made \subseteq proc[p].to
    BY <1>2, ProcessTypes DEF Types, WriteProc
  <2>2. IsFiniteSet(made)
    BY <2>1, FS_Subset, NotificationAssumption DEF NotificationAssumption
  <2> QED
    BY <2>1, <2>2
<1>4. \A r \in N : r.event = e /\ r.to \in made /\ r \in [to : Person, event : published]
  BY <1>3
<1>5. ASSUME NEW t \in made
      PROVE  \E r \in N : r.to = t /\ r.event = e
  <2>1. [to |-> t, event |-> e] \in N
    OBVIOUS
  <2> QED
    BY <2>1
<1>6. l.event = e /\ l.to = proc[p].to /\ l.made = Cardinality(made)
  OBVIOUS
<1>7. Cardinality(N) = Cardinality(made)
  BY <1>3, OneRowEach
<1>8. \A r, s \in N : r.to = s.to => r = s
  OBVIOUS
<1> HIDE DEF N, l
<1>9. Tables'
  BY <1>1, <1>2, <1>3, <1>4, <1>6 DEF Types, TypeOK, Tables
<1>10. \A x \in Used' : x \in Used \/ x = e
  BY <1>1, <1>4, <1>6 DEF Used
<1>11. Free \in IdleProc /\ Free.pc = "Idle"
  BY DEF IdleProc, Free
<1>12. /\ Types' /\ Once' /\ OnceTold'
       /\ proc'[p] = Free /\ \A q \in Process \ {p} : proc'[q] = proc[q]
  BY <1>1, <1>3, <1>9, <1>10, <1>11, OneGoesOn
<1>13. proc[p].event = e /\ proc[p].made = made
  OBVIOUS
<1> HIDE DEF e, made
<1>14. \A q \in Process : Writing(q)' => q # p /\ Writing(q) /\ proc'[q] = proc[q]
  BY <1>11, <1>12 DEF Writing, At
<1>15. \A q \in Process : At(q, "Insert")' => q # p /\ At(q, "Insert") /\ Writing(q) /\ proc'[q] = proc[q]
  BY <1>11, <1>12 DEF At, Writing
<1>16. /\ \A s, f : Told(s, f) => Told(s, f)'
       /\ \A s, f : HasKey(s, f) => HasKey(s, f)'
  BY <1>1, ToldForGood
<1>17. \A s, f : HasKey(s, f)' => HasKey(s, f) \/ Holds(p, s, f)
  BY <1>1, <1>2, <1>4, <1>13 DEF HasKey, Holds
<1>18. \A s, f : HasKey(s, f)' /\ ~ HasKey(s, f) => s \in made /\ Keyed(f) /\ Keyed(e) /\ e.key = f.key
  BY <1>13, <1>17 DEF Holds, Keyed
<1>19. Keys'
  <2> SUFFICES ASSUME NEW q \in Process, Writing(q)', NEW s \in proc'[q].made
               PROVE  /\ ~ HasKey(s, proc[q].event)'
                      /\ \A x \in Process \ {q} : ~ Holds(x, s, proc[q].event)'
    BY DEF Keys
  <2>1. q # p /\ Writing(q) /\ proc'[q] = proc[q]
    BY <1>14
  <2>2. ~ HasKey(s, proc[q].event) /\ \A x \in Process \ {q} : ~ Holds(x, s, proc[q].event)
    BY <2>1 DEF NoticeInv, Keys
  <2>3. ~ HasKey(s, proc[q].event)'
    BY <1>17, <2>1, <2>2
  <2>4. \A x \in Process \ {q} : ~ Holds(x, s, proc[q].event)'
    BY <1>14, <2>1, <2>2 DEF Holds
  <2> QED
    BY <2>3, <2>4
<1>20. Passed'
  BY <1>14, <1>16 DEF NoticeInv, Passed
<1>21. Steady'
  BY <1>1, <1>14 DEF NoticeInv, Steady, Recipients
<1>22. \A f : Disputed(f)' = Disputed(f)
  BY <1>1 DEF Disputed
<1>23. Granted'
  <2> SUFFICES ASSUME NEW q \in Process, At(q, "Insert")', proc'[q].made # {},
                      HasKey(Min(proc[q].todo), proc[q].event)', ~ Disputed(proc[q].event)
               PROVE  FALSE
    BY <1>15, <1>22 DEF Granted
  <2> DEFINE f == proc[q].event
  <2>1. q # p /\ At(q, "Insert") /\ Writing(q) /\ proc'[q] = proc[q]
    BY <1>15
  <2>2. ~ HasKey(Min(proc[q].todo), f)
    BY <2>1 DEF NoticeInv, Granted
  <2>3. Keyed(f) /\ Keyed(e) /\ e.key = f.key
    BY <1>18, <2>1, <2>2
  <2>4. f \in published /\ proc[q].made \subseteq proc[q].to
    BY <1>2, <2>1, ProcessTypes DEF Types
  <2>5. SameKey(f, e) /\ SameKey(f, f)
    BY <2>3 DEF SameKey
  <2>6. proc[q].to = Recipients(f) /\ proc[p].to = Recipients(e)
    BY <1>2, <1>13, <2>1, <2>5 DEF NoticeInv, Steady, Disputed
  <2>7. e.to \ {e.actor} = f.to \ {f.actor}
    BY <1>3, <1>13, <2>5 DEF Disputed
  <2>8. Recipients(f) = Recipients(e)
    BY <2>7 DEF Recipients
  <2>9. PICK s \in proc[q].made : s \in proc[p].to \ proc[p].todo
    BY <1>1, <2>1, <2>4, <2>6, <2>8
  <2>10. s \in made \/ HasKey(s, e)
    BY <1>2, <1>13, <2>9 DEF NoticeInv, Passed
  <2>11. ~ HasKey(s, f) /\ ~ Holds(p, s, f)
    BY <2>1, <2>9 DEF NoticeInv, Keys
  <2>12. s \notin made
    BY <1>2, <1>13, <2>3, <2>11 DEF Holds
  <2>13. ~ HasKey(s, e)
    BY <2>3, <2>11 DEF HasKey
  <2> QED
    BY <2>10, <2>12, <2>13
<1>24. BroadcastIsHeld'
  <2> SUFFICES ASSUME NEW b \in pushed,
                      ~ Told(b.to, b.event)', b.event \notin lost, ~ Disputed(b.event)
               PROVE  \E q \in Process : Writing(q)' /\ proc'[q].event = b.event /\ b.to \in proc'[q].made
    BY <1>1, <1>22 DEF BroadcastIsHeld
  <2>1. PICK q \in Process : Writing(q) /\ proc[q].event = b.event /\ b.to \in proc[q].made
    BY <1>16 DEF NoticeInv, BroadcastIsHeld
  <2>2. q # p
    <3> SUFFICES ASSUME q = p PROVE FALSE
      OBVIOUS
    <3>1. b.event = e /\ b.to \in made
      BY <1>13, <2>1
    <3>2. PICK r \in N : r.to = b.to /\ r.event = b.event
      BY <1>5, <3>1 DEF e, made
    <3>3. Told(b.to, b.event)'
      BY <1>1, <3>2 DEF Told, SameKey
    <3> QED
      BY <3>3
  <2>3. Writing(q)' /\ proc'[q] = proc[q]
    BY <1>12, <2>1, <2>2 DEF Writing, At
  <2> QED
    BY <2>1, <2>3
<1>25. e \notin Used
  BY <1>3, <1>13 DEF NoticeInv, OnceTold
<1>26. ToldOnce'
  <2>1. \A r \in rows, s \in N : r.to = s.to => ~ SameKey(r.event, s.event) /\ ~ SameKey(s.event, r.event)
    <3> SUFFICES ASSUME NEW r \in rows, NEW s \in N, r.to = s.to
                 PROVE  ~ SameKey(r.event, s.event) /\ ~ SameKey(s.event, r.event)
      OBVIOUS
    <3>1. s.event = e /\ s.to \in made /\ r.event # e
      BY <1>4, <1>25 DEF Used
    <3>2. ~ HasKey(s.to, e)
      BY <1>2, <1>13, <3>1 DEF NoticeInv, Keys
    <3> QED
      BY <3>1, <3>2 DEF HasKey, SameKey, Keyed
  <2>2. \A r \in rows' : r \in rows \/ r \in N
    BY <1>1
  <2> QED
    BY <1>8, <2>1, <2>2 DEF NoticeInv, ToldOnce
<1>27. LogIsRight'
  <2> SUFFICES ASSUME NEW k \in logs'
               PROVE  /\ \A s \in k.to : Told(s, k.event)'
                      /\ k.made = Cardinality({r \in rows' : r.event = k.event})
    BY DEF LogIsRight
  <2>1. CASE k \in logs
    <3>1. k.event # e
      BY <1>25, <2>1 DEF Used
    <3>2. {r \in rows' : r.event = k.event} = {r \in rows : r.event = k.event}
      BY <1>1, <1>4, <3>1
    <3>3. /\ \A s \in k.to : Told(s, k.event)
          /\ k.made = Cardinality({r \in rows : r.event = k.event})
      BY <2>1 DEF NoticeInv, LogIsRight
    <3> QED
      BY <1>16, <3>2, <3>3
  <2>2. CASE k = l
    <3>1. {r \in rows' : r.event = e} = N
      BY <1>1, <1>4, <1>25 DEF Used
    <3>2. k.event = e /\ k.to = proc[p].to /\ k.made = Cardinality(N)
      BY <1>6, <1>7, <2>2
    <3>3. ASSUME NEW s \in k.to
          PROVE  Told(s, k.event)'
      <4>1. s \in made \/ HasKey(s, e)
        BY <1>1, <1>2, <1>13, <3>2 DEF NoticeInv, Passed
      <4>2. CASE HasKey(s, e)
        BY <1>16, <3>2, <4>2, KeyTells
      <4>3. CASE s \in made
        <5>1. PICK r \in N : r.to = s /\ r.event = e
          BY <1>5, <4>3 DEF e, made
        <5> QED
          BY <1>1, <3>2, <5>1 DEF Told, SameKey
      <4> QED
        BY <4>1, <4>2, <4>3
    <3> QED
      BY <3>1, <3>2, <3>3
  <2> QED
    BY <1>1, <2>1, <2>2
<1> QED
  BY <1>12, <1>19, <1>20, <1>21, <1>23, <1>24, <1>26, <1>27 DEF NoticeInv

(***************************************************************************)
(* Readers, and who joins or leaves                                        *)
(***************************************************************************)
LEMMA MarkReadKeeps ==
  ASSUME NoticeInv, NEW marked \in SUBSET rows, MarkRead(marked)
  PROVE  NoticeInv'
<1>1. /\ marked \subseteq rows /\ seen' = seen \cup marked
      /\ UNCHANGED <<active, queue, published, rows, logs, pushed, proc, lost, unsteady>>
  BY DEF MarkRead
<1>2. Types'
  <2>1. TypeOK'
    BY <1>1 DEF NoticeInv, Types, TypeOK, At
  <2> QED
    BY <1>1, <2>1 DEF NoticeInv, Types, Busy, Writing, At
<1>3. Once' /\ OnceTold'
  BY <1>1 DEF NoticeInv, Once, OnceTold, Used, Busy, At
<1>4. Keys' /\ Passed' /\ Granted' /\ BroadcastIsHeld'
  BY <1>1, QuietProcesses
<1>5. Steady'
  BY <1>1 DEF NoticeInv, Steady, Recipients, Writing, At
<1>6. ToldOnce' /\ LogIsRight'
  BY <1>1, QuietTold DEF NoticeInv
<1> QED
  BY <1>2, <1>3, <1>4, <1>5, <1>6 DEF NoticeInv

LEMMA ChangeKeeps ==
  ASSUME NoticeInv, NEW t \in Joiner, Change(t)
  PROVE  NoticeInv'
<1>1. /\ active' = IF t \in active THEN active \ {t} ELSE active \cup {t}
      /\ unsteady' = unsteady \cup {e \in published : \E p \in Busy : SameKey(proc[p].event, e)}
      /\ UNCHANGED <<queue, published, rows, seen, logs, pushed, proc, lost>>
  BY DEF Change
<1>2. t \in Person
  BY NotificationAssumption DEF NotificationAssumption
<1>3. Types'
  <2>1. TypeOK'
    BY <1>1, <1>2 DEF NoticeInv, Types, TypeOK, At
  <2> QED
    BY <1>1, <2>1 DEF NoticeInv, Types, Busy, Writing, At
<1>4. Once' /\ OnceTold'
  BY <1>1 DEF NoticeInv, Once, OnceTold, Used, Busy, At
<1>5. Keys' /\ Passed' /\ Granted' /\ BroadcastIsHeld'
  BY <1>1, QuietProcesses
<1>6. Steady'
  <2>1. \A p \in Process : Writing(p)' => Writing(p) /\ proc'[p] = proc[p]
    BY <1>1 DEF Writing, At
  <2>2. ASSUME NEW p \in Process, Writing(p)
        PROVE  proc[p].event \in unsteady'
    <3>1. p \in Busy /\ proc[p].event \in published
      BY <2>2, ProcessTypes DEF NoticeInv
    <3> QED
      BY <1>1, <3>1 DEF SameKey
  <2> QED
    BY <2>1, <2>2 DEF Steady
<1>7. ToldOnce' /\ LogIsRight'
  BY <1>1, QuietTold DEF NoticeInv
<1> QED
  BY <1>3, <1>4, <1>5, <1>6, <1>7 DEF NoticeInv

(***************************************************************************)
(* The theorems                                                            *)
(***************************************************************************)
LEMMA InitNotice ==
  ASSUME Init
  PROVE  NoticeInv
<1>1. /\ queue = << >> /\ published = {} /\ rows = {} /\ seen = {} /\ logs = {} /\ pushed = {}
      /\ lost = {} /\ unsteady = {} /\ active \subseteq Person
      /\ proc = [p \in Process |-> Free]
  BY DEF Init
<1>2. \A p \in Process : proc[p].pc = "Idle"
  BY <1>1 DEF Free
<1>3. Busy = {} /\ \A p \in Process : ~ Writing(p) /\ ~ At(p, "Insert")
  BY <1>2 DEF Busy, Writing, At
<1>4. proc \in [Process -> IdleProc]
  BY <1>1 DEF IdleProc, Free
<1>5. Types
  <2>1. queue \in Seq(Event) /\ DOMAIN queue = {}
    BY <1>1
  <2>2. TypeOK
    BY <1>1, <1>2, <2>1 DEF TypeOK, At
  <2> QED
    BY <1>3, <1>4, <2>1, <2>2 DEF Types
<1>6. Once /\ OnceTold
  BY <1>1, <1>3 DEF Once, OnceTold
<1>7. Keys /\ Passed /\ Steady /\ Granted /\ BroadcastIsHeld
  BY <1>1, <1>3 DEF Keys, Passed, Steady, Granted, BroadcastIsHeld
<1>8. ToldOnce /\ LogIsRight
  BY <1>1 DEF ToldOnce, LogIsRight
<1> QED
  BY <1>5, <1>6, <1>7, <1>8 DEF NoticeInv

LEMMA StepNotice ==
  ASSUME NoticeInv, [Next]_vars
  PROVE  NoticeInv'
<1>1. CASE UNCHANGED vars
  <2>1. UNCHANGED <<active, queue, published, rows, seen, logs, pushed, proc, lost, unsteady>>
    BY <1>1 DEF vars
  <2>2. Types'
    <3>1. TypeOK'
      BY <2>1 DEF NoticeInv, Types, TypeOK, At
    <3> QED
      BY <2>1, <3>1 DEF NoticeInv, Types, Busy, Writing, At
  <2>3. Once' /\ OnceTold'
    BY <2>1 DEF NoticeInv, Once, OnceTold, Used, Busy, At
  <2>4. Keys' /\ Passed' /\ Granted' /\ BroadcastIsHeld'
    BY <2>1, QuietProcesses
  <2>5. Steady'
    BY <2>1 DEF NoticeInv, Steady, Recipients, Writing, At
  <2>6. ToldOnce' /\ LogIsRight'
    BY <2>1, QuietTold DEF NoticeInv
  <2> QED
    BY <2>2, <2>3, <2>4, <2>5, <2>6 DEF NoticeInv
<1>2. ASSUME NEW p \in Request, NEW e \in Event, NEW accepted \in BOOLEAN, Publish(p, e, accepted)
      PROVE  NoticeInv'
  BY <1>2, PublishKeeps
<1>3. ASSUME NEW p \in Process,
             Take(p) \/ Resolve(p) \/ Look(p) \/ Insert(p) \/ Commit(p) \/ Die(p)
      PROVE  NoticeInv'
  BY <1>3, TakeKeeps, ResolveKeeps, LookKeeps, InsertKeeps, CommitKeeps, DieKeeps
<1>4. ASSUME NEW marked \in SUBSET rows, MarkRead(marked)
      PROVE  NoticeInv'
  BY <1>4, MarkReadKeeps
<1>5. ASSUME NEW t \in Joiner, Change(t)
      PROVE  NoticeInv'
  BY <1>5, ChangeKeeps
<1>6. CASE Next
  BY <1>2, <1>3, <1>4, <1>5, <1>6 DEF Next
<1> QED
  BY <1>1, <1>6

\* The inductive invariant: what transactions hold of keys that others want
\* (engine.process and the unique constraint of Notification).
THEOREM NoticeIsSafe == Spec => []NoticeInv
<1>1. Init => NoticeInv
  BY InitNotice
<1>2. NoticeInv /\ [Next]_vars => NoticeInv'
  BY StepNotice
<1> QED
  BY <1>1, <1>2, PTL DEF Spec

\* What a process holds is what was broadcast for its event.
LEMMA StoredIfHeld ==
  ASSUME NoticeInv
  PROVE  BroadcastIsStored
<1>1. \A p \in Process : Writing(p) => p \in Busy
  BY ProcessTypes DEF NoticeInv
<1> QED
  BY <1>1 DEF NoticeInv, BroadcastIsHeld, BroadcastIsStored

\* For every set of requests, workers, persons and events: nobody is told
\* twice under one key, a log vouches for its event and counts its rows, and
\* what was broadcast is there to be read unless its process died, is still at
\* it, or the events with its key are disputed (NotificationEngine.process).
THEOREM ToldIsLogged == Spec => []ToldAndLogged
<1>1. NoticeInv => ToldAndLogged
  BY StoredIfHeld DEF NoticeInv, Types, ToldAndLogged
<1> QED
  BY <1>1, NoticeIsSafe, PTL

\* A notification whose event commits is written once: at any time at most one
\* process is at an event, and none that is done with is begun again
\* (publish_event, process_domain_event_task).
THEOREM EventsAreHandledOnce ==
  Spec => [](Once /\ \A p \in Busy : \A l \in logs : l.event # proc[p].event)
<1>1. NoticeInv => Once /\ \A p \in Busy : \A l \in logs : l.event # proc[p].event
  BY DEF NoticeInv, OnceTold, Used
<1> QED
  BY <1>1, NoticeIsSafe, PTL

\* The unique key rolls a transaction back after it has inserted a row only if
\* the events with the key are disputed: elsewhere whoever comes second is
\* refused at his first row, before anything was broadcast.
THEOREM RolledBackInDisputeOnly ==
  Spec => [][\A p \in Process :
               At(p, "Insert") /\ proc[p].made # {} /\ Insert(p) =>
                 At(p, "Look")' \/ Disputed(proc[p].event)]_vars
<1>1. ASSUME NoticeInv, NEW p \in Process, At(p, "Insert"), proc[p].made # {}, Insert(p),
             ~ Disputed(proc[p].event)
      PROVE  At(p, "Look")'
  <2>1. ~ HasKey(Min(proc[p].todo), proc[p].event)
    BY <1>1 DEF NoticeInv, Granted
  <2>2. proc' = [proc EXCEPT ![p] = [proc[p] EXCEPT !.pc = "Look", !.todo = @ \ {Min(proc[p].todo)},
                                                   !.made = @ \cup {Min(proc[p].todo)}]]
    BY <1>1, <2>1 DEF Insert, Becomes
  <2>3. p \in DOMAIN proc /\ proc[p] \in WriteProc
    BY <1>1, ProcessTypes DEF NoticeInv, Types, Writing
  <2>4. proc'[p] = [proc[p] EXCEPT !.pc = "Look", !.todo = @ \ {Min(proc[p].todo)},
                                   !.made = @ \cup {Min(proc[p].todo)}]
    BY <2>2, <2>3
  <2>5. proc'[p].pc = "Look"
    BY <2>3, <2>4 DEF WriteProc
  <2> QED
    BY <2>5 DEF At
<1>2. NoticeInv /\ [Next]_vars =>
        [\A p \in Process :
           At(p, "Insert") /\ proc[p].made # {} /\ Insert(p) =>
             At(p, "Look")' \/ Disputed(proc[p].event)]_vars
  BY <1>1
<1> QED
  BY <1>2, NoticeIsSafe, PTL DEF Spec
=============================================================================
