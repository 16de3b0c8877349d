----------------------------- MODULE Reminders -----------------------------
(***************************************************************************)
(* Daily reminders (apps/notifications/tasks.py, apps/followups): a scan,  *)
(* started by beat at nine or by hand, asks for the items of one kind of   *)
(* reminder after the other and tells those they concern, once per day;    *)
(* a follow-up also reminds when it is saved.  Meanwhile the items change, *)
(* the day ends, and the worker may die with the rest of its scan.         *)
(***************************************************************************)
EXTENDS Integers, Sequences, FiniteSets, SequencesExt

CONSTANTS
  Scan,      \* runs of scan_due_date_reminders
  Item,      \* functions of names to classes of items: what there may be
  Person,    \* employees
  Finance,   \* those of them who are told of invoices and milestones
  LastDay,   \* bound: days
  MaxEdits   \* bound: changes of items

VARIABLES
  today,
  item,      \* tickets, projects, invoices, milestones and follow-ups
  rows,      \* Notification rows: who was told, their dedup_key and the day
  scan,      \* what each scan is doing
  edits

vars == <<today, item, rows, scan, edits>>

Free == [pc |-> "Idle"]
At(s, pc) == scan[s].pc = pc
Becomes(s, r) == scan' = [scan EXCEPT ![s] = r]

Kinds == <<"ticket", "project", "invoice", "milestone", "payment", "today", "late">>
ClassOf == [ticket |-> "ticket", project |-> "project", invoice |-> "invoice",
            milestone |-> "milestone", payment |-> "invoice", today |-> "followup", late |-> "followup"]

\* Seeded fault: it leaves out the day.
KeyForEver(k, i, day) == <<k, i>>

\* The dedup_key.
Key(k, i, day) == <<k, i, day>>

\* Two kinds are about tomorrow, two about all days before, the others about today.
Span(k, due, day) ==
  CASE k \in {"invoice", "milestone"} -> due = day + 1
    [] k \in {"payment", "late"} -> due < day
    [] OTHER -> due = day

\* Kinds that ask for the state, and those that are for the item's own people.
Stateful == {"project", "payment", "today", "late"}
Personal == {"ticket", "project", "today", "late"}

\* The filters of the queries.
Matches(k, r, day) ==
  /\ r.live /\ r.class = ClassOf[k] /\ Span(k, r.due, day)
  /\ k \in Stateful => r.open
  /\ k \in Personal => r.who # {}

Audience(k, r) == IF k \in Personal THEN r.who ELSE Finance

\* publish_event, with NotificationEngine.process: one row for each recipient,
\* unless there is one with the key.
Tell(k, i, day, to) ==
  rows' = rows \cup {[to |-> t, key |-> Key(k, i, day), kind |-> k, item |-> i, day |-> day] :
                       t \in {u \in to : ~ \E r \in rows : r.to = u /\ r.key = Key(k, i, day)}}

\* Items as they may be at first: nobody's or of one of Finance, for the others
\* are alike.
Rows == [class : {"ticket", "project", "invoice", "milestone", "followup"}, due : 0..(LastDay + 1),
         live : {TRUE}, open : {TRUE}, owed : {TRUE}, who : {{}} \cup {{t} : t \in Finance}]
----------------------------------------------------------------------------
Init ==
  /\ today = 1
  /\ \E have \in Item : \E f \in [DOMAIN have -> Rows] :
       /\ \A i \in DOMAIN have : f[i].class = have[i] /\ f[i].due >= 1
       /\ item = f
  /\ rows = {} /\ scan = [s \in Scan |-> Free] /\ edits = 0

\* Beat at nine, or scan_notification_reminders by hand.
Start(s) ==
  /\ At(s, "Idle")
  /\ Becomes(s, [pc |-> "Fetch", day |-> today, left |-> Kinds, moved |-> {}])
  /\ UNCHANGED <<today, item, rows, edits>>

\* Seeded fault: overdue follow-ups are asked for twice, today's never.
FetchNotToday(s) ==
  /\ At(s, "Fetch") /\ scan[s].left # << >>
  /\ LET k == Head(scan[s].left)
         kind == IF k = "today" THEN "late" ELSE k
     IN Becomes(s, [pc |-> "Tell", day |-> scan[s].day, left |-> Tail(scan[s].left), moved |-> scan[s].moved,
                    kind |-> kind, todo |-> {<<i, item[i]>> : i \in {j \in DOMAIN item : Matches(kind, item[j], scan[s].day)}}])
  /\ UNCHANGED <<today, item, rows, edits>>

\* The query for the next kind.
Fetch(s) ==
  /\ At(s, "Fetch") /\ scan[s].left # << >>
  /\ LET k == Head(scan[s].left)
     IN Becomes(s, [pc |-> "Tell", day |-> scan[s].day, left |-> Tail(scan[s].left), moved |-> scan[s].moved,
                    kind |-> k, todo |-> {<<i, item[i]>> : i \in {j \in DOMAIN item : Matches(k, item[j], scan[s].day)}}])
  /\ UNCHANGED <<today, item, rows, edits>>

\* Seeded fault: whether something is pending was asked with the query.
TellNext(s) ==
  /\ At(s, "Tell")
  /\ \/ /\ scan[s].todo = {} /\ rows' = rows
        /\ Becomes(s, [pc |-> "Fetch", day |-> scan[s].day, left |-> scan[s].left, moved |-> scan[s].moved])
     \/ \E e \in scan[s].todo :
          /\ Becomes(s, [scan[s] EXCEPT !.todo = @ \ {e}])
          /\ IF scan[s].kind = "payment" /\ ~ e[2].owed THEN rows' = rows
             ELSE Tell(scan[s].kind, e[1], scan[s].day, Audience(scan[s].kind, e[2]))
  /\ UNCHANGED <<today, item, edits>>

\* The next item of the query, as it was fetched; only what is pending of an
\* invoice is asked for again.
TellOne(s) ==
  /\ At(s, "Tell")
  /\ \/ /\ scan[s].todo = {} /\ rows' = rows
        /\ Becomes(s, [pc |-> "Fetch", day |-> scan[s].day, left |-> scan[s].left, moved |-> scan[s].moved])
     \/ \E e \in scan[s].todo :
          /\ Becomes(s, [scan[s] EXCEPT !.todo = @ \ {e}])
          /\ IF scan[s].kind = "payment" /\ ~ item[e[1]].owed THEN rows' = rows
             ELSE Tell(scan[s].kind, e[1], scan[s].day, Audience(scan[s].kind, e[2]))
  /\ UNCHANGED <<today, item, edits>>

Finish(s) ==
  /\ At(s, "Fetch") /\ scan[s].left = << >> /\ Becomes(s, Free)
  /\ UNCHANGED <<today, item, rows, edits>>

Die(s) ==
  /\ ~ At(s, "Idle") /\ Becomes(s, Free)
  /\ UNCHANGED <<today, item, rows, edits>>

\* Somebody saves an item.  A follow-up that is due reminds at once, all but
\* the one who saves it.
Save(i, r, by) ==
  LET k == IF r.due = today THEN "today" ELSE "late"
      due == r.class = "followup" /\ r.due <= today /\ Matches(k, r, today)
  IN /\ edits < MaxEdits /\ edits' = edits + 1
     /\ item[i].live /\ r # item[i] /\ r.class = item[i].class
     /\ item' = [item EXCEPT ![i] = r]
     /\ scan' = [s \in Scan |-> IF At(s, "Idle") THEN Free ELSE [scan[s] EXCEPT !.moved = @ \cup {i}]]
     /\ IF due THEN Tell(k, i, today, r.who \ {by}) ELSE rows' = rows
     /\ UNCHANGED today

Midnight ==
  /\ today < LastDay /\ today' = today + 1
  /\ UNCHANGED <<item, rows, scan, edits>>

\* An edit changes the date, the people or the state.
Edited(r) ==
  {[r EXCEPT !.due = d] : d \in 1..LastDay} \cup {[r EXCEPT !.who = w] : w \in {{t} : t \in Person}}
    \cup {[r EXCEPT !.open = FALSE], [r EXCEPT !.owed = FALSE], [r EXCEPT !.live = FALSE]}

Next ==
  \/ \E s \in Scan : Start(s) \/ Fetch(s) \/ TellOne(s) \/ Finish(s) \/ Die(s)
  \/ \E i \in DOMAIN item : \E r \in Edited(item[i]), by \in Person : Save(i, r, by)
  \/ Midnight

Spec == Init /\ [][Next]_vars
----------------------------------------------------------------------------
TypeOK ==
  /\ today \in 1..LastDay /\ edits \in 0..MaxEdits
  /\ \A i \in DOMAIN item : item[i].who \subseteq Person /\ item[i].due \in 0..(LastDay + 1)
  /\ \A r \in rows : r.to \in Person /\ r.item \in DOMAIN item /\ r.day \in 1..LastDay
  /\ \A s \in Scan : scan[s].pc \in {"Idle", "Fetch", "Tell"}

\* What a reader expects to be told of, in terms of the item alone.
Expected(r, day) ==
  /\ r.live
  /\ CASE r.class = "ticket" -> r.due = day /\ r.who # {}
       [] r.class = "project" -> r.due = day /\ r.who # {} /\ r.open
       [] r.class = "milestone" -> r.due = day + 1
       [] r.class = "invoice" -> r.due = day + 1 \/ (r.due < day /\ r.open /\ r.owed)
       [] r.class = "followup" -> r.due <= day /\ r.who # {} /\ r.open

Concerned(r) == IF r.class \in {"invoice", "milestone"} THEN Finance ELSE r.who

\* A scan that gets to its end has told everybody of every item that was due
\* on its day and did not change meanwhile, on every day anew, whatever other
\* scans and saves had told before.
DueIsToldStep ==
  \A s \in Scan : At(s, "Fetch") /\ scan[s].left = << >> /\ scan'[s] = Free =>
    \A i \in DOMAIN item \ scan[s].moved :
      Expected(item[i], scan[s].day) =>
        \A t \in Concerned(item[i]) : \E r \in rows : r.to = t /\ r.item = i /\ r.day = scan[s].day

\* DueIsToldStep, of every step.
DueIsTold == [][DueIsToldStep]_vars

\* Nobody is reminded of something that is not due, unless it changed after
\* the query; and of a debt that is paid not even then.
NoFalseAlarmStep ==
  rows' # rows =>
   \A r \in rows' \ rows :
     \/ /\ r.kind = "payment" => item[r.item].owed
        /\ \E s \in Scan : scan'[s] # scan[s] /\ r.item \in scan[s].moved
     \/ Expected(item'[r.item], r.day)

\* NoFalseAlarmStep, of every step.
NoFalseAlarm == [][NoFalseAlarmStep]_vars
=============================================================================
