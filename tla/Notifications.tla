--------------------------- MODULE Notifications ---------------------------
(***************************************************************************)
(* Domain events on their way to notification rows (apps/notifications):   *)
(* a request publishes an event, at once or through the Celery queue, and  *)
(* NotificationEngine.process writes one row per recipient in one          *)
(* transaction.  Redis hands a task to a worker before it is done, so that *)
(* a worker that dies takes its task with it.  There is one channel that   *)
(* is active, in_app, so that an event makes at most one row for each      *)
(* recipient.  An event is a record: to, the recipients it resolves to;    *)
(* actor, who caused it and is not told, if that holds for its kind; key,  *)
(* its dedup_key or Nobody; later, whether it goes through the queue.      *)
(***************************************************************************)
EXTENDS Integers, Sequences, FiniteSets, FiniteSetsExt

CONSTANTS
  Request,   \* requests and scans, each of which publishes an event
  Worker,    \* Celery workers
  Person,    \* employees, numbered in the order of their codes
  Event,     \* the events that may be published, once each
  Joiner,    \* those who may be activated or deactivated meanwhile
  Nobody     \* no actor, no dedup_key

VARIABLES
  active,    \* the employees who are active and not deleted
  queue,     \* the events the broker holds
  published, \* the events that publish_event was called with
  rows,      \* Notification rows: recipient and event
  seen,      \* those of them that were read
  logs,      \* NotificationEventLog rows
  pushed,    \* what was broadcast to web sockets
  proc,      \* what each request and each worker is processing
  lost,      \* events whose process died
  unsteady   \* events processed while somebody joined or left

ASSUME NotificationAssumption ==
  /\ Person \subseteq Nat /\ IsFiniteSet(Person) /\ Joiner \subseteq Person
  /\ \A e \in Event : e.to \subseteq Person

vars == <<active, queue, published, rows, seen, logs, pushed, proc, lost, unsteady>>

Process == Request \cup Worker
Free == [pc |-> "Idle"]
At(p, pc) == proc[p].pc = pc
Becomes(p, r) == proc' = [proc EXCEPT ![p] = r]
Busy == {p \in Process : ~ At(p, "Idle")}

Keyed(e) == e.key # Nobody
SameKey(e, f) == e = f \/ (Keyed(e) /\ e.key = f.key)

\* A row of the event, or one with its key, is there for the person.
Told(t, e) == \E r \in rows : r.to = t /\ SameKey(r.event, e)

\* exists() on the dedup_key.
HasKey(t, e) == Keyed(e) /\ \E r \in rows : r.to = t /\ r.event.key = e.key

\* What a transaction has inserted and not committed, under the key of e.
Writing(p) == At(p, "Look") \/ At(p, "Insert")
Holds(p, t, e) == Writing(p) /\ t \in proc[p].made /\ Keyed(e) /\ proc[p].event.key = e.key

\* resolve_recipients: the active ones, without who caused the event.
Recipients(e) == (e.to \cap active) \ {e.actor}
----------------------------------------------------------------------------
Init ==
  /\ active \in {Person, Person \ Joiner}
  /\ queue = << >> /\ published = {} /\ rows = {} /\ seen = {} /\ logs = {} /\ pushed = {}
  /\ proc = [p \in Process |-> Free]
  /\ lost = {} /\ unsteady = {}

\* publish_event: an event that may wait goes to the broker; when the broker
\* refuses it, or it may not wait, the request processes it.
Publish(p, e, accepted) ==
  /\ p \in Request /\ At(p, "Idle") /\ e \notin published
  /\ accepted => e.later
  /\ published' = published \cup {e}
  /\ queue' = IF accepted THEN Append(queue, e) ELSE queue
  /\ Becomes(p, IF accepted THEN Free ELSE [pc |-> "Start", event |-> e])
  /\ UNCHANGED <<active, rows, seen, logs, pushed, lost, unsteady>>

\* process_domain_event_task: the task leaves the queue when it is taken.
Take(p) ==
  /\ p \in Worker /\ At(p, "Idle") /\ queue # << >>
  /\ Becomes(p, [pc |-> "Start", event |-> Head(queue)])
  /\ queue' = Tail(queue)
  /\ UNCHANGED <<active, published, rows, seen, logs, pushed, lost, unsteady>>

\* NotificationEngine.process, to the list of recipients.
Resolve(p) ==
  LET e == proc[p].event
  IN /\ At(p, "Start")
     /\ Becomes(p, [pc |-> "Look", event |-> e, to |-> Recipients(e),
                    todo |-> Recipients(e), made |-> {}])
     /\ UNCHANGED <<active, queue, published, rows, seen, logs, pushed, lost, unsteady>>

\* Seeded fault: only rows that were not read yet are looked for.
LookUnread(p) ==
  /\ At(p, "Look") /\ proc[p].todo # {}
  /\ LET e == proc[p].event
         t == Min(proc[p].todo)
         there == Keyed(e) /\ \E r \in rows \ seen : r.to = t /\ r.event.key = e.key
     IN Becomes(p, IF there THEN [proc[p] EXCEPT !.todo = @ \ {t}]
                   ELSE [proc[p] EXCEPT !.pc = "Insert"])
  /\ UNCHANGED <<active, queue, published, rows, seen, logs, pushed, lost, unsteady>>

\* The next recipient, in the order of employee codes: one who has a row with
\* the key is passed over.
Look(p) ==
  /\ At(p, "Look") /\ proc[p].todo # {}
  /\ LET t == Min(proc[p].todo)
     IN Becomes(p, IF HasKey(t, proc[p].event) THEN [proc[p] EXCEPT !.todo = @ \ {t}]
                   ELSE [proc[p] EXCEPT !.pc = "Insert"])
  /\ UNCHANGED <<active, queue, published, rows, seen, logs, pushed, lost, unsteady>>

\* Seeded fault: no unique key.
InsertUnchecked(p) ==
  LET e == proc[p].event
      t == Min(proc[p].todo)
  IN /\ At(p, "Insert")
     /\ Becomes(p, [proc[p] EXCEPT !.pc = "Look", !.todo = @ \ {t}, !.made = @ \cup {t}])
     /\ pushed' = pushed \cup {[to |-> t, event |-> e]}
     /\ UNCHANGED <<active, queue, published, rows, seen, logs, lost, unsteady>>

\* The row is inserted and broadcast, both before the commit.  The unique key
\* makes the insert wait for a transaction that holds the same key, and fail
\* with all that was done before when that one has committed.
Insert(p) ==
  LET e == proc[p].event
      t == Min(proc[p].todo)
  IN /\ At(p, "Insert") /\ \A q \in Process \ {p} : ~ Holds(q, t, e)
     /\ Becomes(p, IF HasKey(t, e) THEN Free
                   ELSE [proc[p] EXCEPT !.pc = "Look", !.todo = @ \ {t}, !.made = @ \cup {t}])
     /\ pushed' = IF HasKey(t, e) THEN pushed ELSE pushed \cup {[to |-> t, event |-> e]}
     /\ UNCHANGED <<active, queue, published, rows, seen, logs, lost, unsteady>>

\* Seeded fault: each row is committed on its own.
CommitFirst(p) ==
  /\ At(p, "Look") /\ (proc[p].todo = {} \/ proc[p].made # {})
  /\ rows' = rows \cup {[to |-> t, event |-> proc[p].event] : t \in proc[p].made}
  /\ logs' = logs \cup {[event |-> proc[p].event, to |-> proc[p].to, made |-> Cardinality(proc[p].made)]}
  /\ Becomes(p, Free)
  /\ UNCHANGED <<active, queue, published, seen, pushed, lost, unsteady>>

\* The log row is completed, and rows and log are committed together.
Commit(p) ==
  /\ At(p, "Look") /\ proc[p].todo = {}
  /\ rows' = rows \cup {[to |-> t, event |-> proc[p].event] : t \in proc[p].made}
  /\ logs' = logs \cup {[event |-> proc[p].event, to |-> proc[p].to, made |-> Cardinality(proc[p].made)]}
  /\ Becomes(p, Free)
  /\ UNCHANGED <<active, queue, published, seen, pushed, lost, unsteady>>

\* The process dies, and the database undoes what it has not committed.
Die(p) ==
  /\ p \in Busy /\ Becomes(p, Free)
  /\ lost' = lost \cup {proc[p].event}
  /\ UNCHANGED <<active, queue, published, rows, seen, logs, pushed, unsteady>>

\* NotificationMarkReadView.post, for one row or for several.
MarkRead(marked) ==
  /\ marked # {} /\ marked \subseteq rows \ seen
  /\ seen' = seen \cup marked
  /\ UNCHANGED <<active, queue, published, rows, logs, pushed, proc, lost, unsteady>>

\* An account is activated or deactivated.
Change(t) ==
  /\ t \in Joiner
  /\ active' = IF t \in active THEN active \ {t} ELSE active \cup {t}
  /\ unsteady' = unsteady \cup {e \in published : \E p \in Busy : SameKey(proc[p].event, e)}
  /\ UNCHANGED <<queue, published, rows, seen, logs, pushed, proc, lost>>

Works(p) == Take(p) \/ Resolve(p) \/ Look(p) \/ Insert(p) \/ Commit(p)

Next ==
  \/ \E p \in Request, e \in Event, accepted \in BOOLEAN : Publish(p, e, accepted)
  \/ \E p \in Process : Take(p) \/ Resolve(p) \/ Look(p) \/ Insert(p) \/ Commit(p) \/ Die(p)
  \/ \E marked \in SUBSET rows : MarkRead(marked)
  \/ \E t \in Joiner : Change(t)

\* Workers that live take tasks and go on, and so do requests.
Fairness == \A p \in Process : WF_vars(Works(p))

Spec == Init /\ [][Next]_vars /\ Fairness
----------------------------------------------------------------------------
TypeOK ==
  /\ active \subseteq Person /\ queue \in Seq(Event) /\ published \subseteq Event
  /\ rows \subseteq [to : Person, event : published] /\ seen \subseteq rows
  /\ pushed \subseteq [to : Person, event : published]
  /\ \A l \in logs : l.event \in published /\ l.to \subseteq Person
  /\ \A p \in Process : proc[p].pc \in {"Idle", "Start", "Look", "Insert"}
  /\ lost \subseteq published /\ unsteady \subseteq published

\* With a dedup_key nobody is told twice, whoever scans how often.
ToldOnce ==
  \A r, s \in rows : r.to = s.to /\ SameKey(r.event, s.event) => r = s

\* A log row vouches for its event: everybody it was resolved to was told, by
\* this event or by another with its key, and it counts the rows it made.
LogIsRight ==
  \A l \in logs :
    /\ \A t \in l.to : Told(t, l.event)
    /\ l.made = Cardinality({r \in rows : r.event = l.event})

\* Two events with one key are told to different people, or somebody joined or
\* left between them.
Disputed(e) ==
  \/ \E f \in unsteady : SameKey(e, f)
  \/ \E f \in published : SameKey(e, f) /\ f.to \ {f.actor} # e.to \ {e.actor}

\* What was broadcast is there to be read, or its process is still at it, or
\* died; a key is no reason to take it back unless the events with it are
\* disputed.
BroadcastIsStored ==
  \A b \in pushed :
    \/ Told(b.to, b.event)
    \/ b.event \in lost
    \/ \E p \in Busy : proc[p].event = b.event
    \/ Disputed(b.event)

\* What is told, logged and broadcast agrees.
ToldAndLogged == TypeOK /\ ToldOnce /\ LogIsRight /\ BroadcastIsStored

Underway(e) == e \in {queue[k] : k \in DOMAIN queue} \cup {proc[p].event : p \in Busy}

Done(e) ==
  (\A t \in Recipients(e) : Told(t, e)) \/ \E f \in lost \cup unsteady : SameKey(e, f)

\* Everybody an event concerns is told in the end: a transaction that is
\* rolled back for another's key leaves nobody out.
EverybodyIsTold == \A e \in Event : Underway(e) ~> Done(e)
=============================================================================
