---------------------------- MODULE ChatMessages ----------------------------
(***************************************************************************)
(* The messages of one conversation (apps/chat): documents in MongoDB,     *)
(* which REST requests and web sockets insert, edit, delete and flag, each *)
(* update on its own and none in a transaction; broadcasts of what was     *)
(* read back; the virus scan of an attachment by a Celery worker, which    *)
(* may die with its task; and how far each participant has read.           *)
(***************************************************************************)
EXTENDS Integers, Sequences, FiniteSets, FiniteSetsExt

CONSTANTS
  Process,   \* requests and web sockets
  Worker,    \* Celery workers
  Person,    \* participants
  Message,   \* messages that may be sent
  Sender,    \* who sends each of them
  MaxOps,    \* bound: operations on messages that are there
  MaxReads,  \* bound: conversations marked as read
  MaxNow,    \* bound: the clock at which a message is sent
  None       \* no attachment

VARIABLES
  msg,       \* the documents
  file,      \* attachments: good, bad, deleted, or none
  shown,     \* what an open window shows of each message
  mark,      \* how far each person has read; history: what was there to read
  queue,     \* scans the broker holds
  now,       \* the clock, which ticks when it is asked for
  proc,      \* what each request, web socket and worker is doing
  count,     \* operations and reads so far
  excused    \* history: broadcasts out of order, and what died half-way

vars == <<msg, file, shown, mark, queue, now, proc, count, excused>>

All == Process \cup Worker
Free == [pc |-> "Idle"]
At(p, pc) == proc[p].pc = pc
Becomes(p, r) == proc' = [proc EXCEPT ![p] = r]

Absent == [there |-> FALSE]
There(m) == msg[m].there

\* MessageSerializer: what is shown of a document.
Content(d) == IF d.deleted THEN [deleted |-> TRUE] ELSE [deleted |-> FALSE, body |-> d.body, scan |-> d.scan]
Nothing == [deleted |-> FALSE, body |-> None, scan |-> None]
----------------------------------------------------------------------------
Init ==
  /\ msg = [m \in Message |-> Absent]
  /\ file = [m \in Message |-> None]
  /\ shown = [m \in Message |-> Nothing]
  /\ mark = [r \in Person |-> [at |-> 0, seen |-> {}]]
  /\ queue = << >> /\ now = 0
  /\ proc = [p \in All |-> Free]
  /\ count = [ops |-> 0, reads |-> 0] /\ excused = {}

\* create_message: the document is stamped, ...
Compose(p, m, attachment) ==
  /\ p \in Process /\ At(p, "Idle") /\ ~ There(m) /\ now < MaxNow
  /\ \A q \in All : ~ At(q, "Idle") => proc[q].m # m
  /\ now' = now + 1
  /\ file' = [file EXCEPT ![m] = attachment]
  /\ Becomes(p, [pc |-> "Insert", m |-> m,
                 doc |-> [there |-> TRUE, body |-> 0, deleted |-> FALSE, important |-> FALSE, stars |-> {}, at |-> now + 1,
                          scan |-> IF attachment = None THEN None ELSE "PENDING"]])
  /\ UNCHANGED <<msg, shown, mark, queue, count, excused>>

\* ... inserted, ...
Insert(p) ==
  /\ At(p, "Insert")
  /\ msg' = [msg EXCEPT ![proc[p].m] = proc[p].doc]
  /\ Becomes(p, [proc[p] EXCEPT !.pc = IF proc[p].doc.scan = None THEN "Broadcast" ELSE "Queue"])
  /\ UNCHANGED <<file, shown, mark, queue, now, count, excused>>

\* ... its attachment is sent to be scanned, and it is broadcast.
Queue(p) ==
  /\ At(p, "Queue")
  /\ queue' = Append(queue, proc[p].m)
  /\ Becomes(p, [proc[p] EXCEPT !.pc = "Broadcast"])
  /\ UNCHANGED <<msg, file, shown, mark, now, count, excused>>

\* A request or a web socket looks at a message: only its sender edits or
\* deletes it, and a deleted one is not edited.  Every edit has its own text.
Operate(p, m, who, op) ==
  /\ p \in Process /\ At(p, "Idle") /\ There(m) /\ count.ops < MaxOps
  /\ count' = [count EXCEPT !.ops = @ + 1]
  /\ op \in {"edit", "delete"} => who = Sender[m]
  /\ op = "edit" => ~ msg[m].deleted
  /\ Becomes(p, [pc |-> "Write", m |-> m, op |-> op, who |-> IF op = "star" THEN who ELSE None,
                 body |-> count.ops + 1, doc |-> msg[m]])
  /\ UNCHANGED <<msg, file, shown, mark, queue, now, excused>>

\* Seeded fault: what was looked at is saved as a whole.
UpdatedWhole(d, r) ==
  CASE r.op = "edit" -> [r.doc EXCEPT !.body = r.body]
    [] r.op = "delete" -> [r.doc EXCEPT !.deleted = TRUE]
    [] r.op = "important" -> [r.doc EXCEPT !.important = ~ @]
    [] r.op = "star" -> [r.doc EXCEPT !.stars = IF r.who \in @ THEN @ \ {r.who} ELSE @ \cup {r.who}]

\* Each operation sets its own fields; the flag and the stars are turned as
\* they were when the message was looked at.  Only edits and deletions are
\* broadcast.
Updated(d, r) ==
  CASE r.op = "edit" -> [d EXCEPT !.body = r.body]
    [] r.op = "delete" -> [d EXCEPT !.deleted = TRUE]
    [] r.op = "important" -> [d EXCEPT !.important = ~ r.doc.important]
    [] r.op = "star" -> [d EXCEPT !.stars = IF r.who \in r.doc.stars THEN @ \ {r.who} ELSE @ \cup {r.who}]

Write(p) ==
  /\ At(p, "Write")
  /\ msg' = [msg EXCEPT ![proc[p].m] = Updated(@, proc[p])]
  /\ Becomes(p, IF proc[p].op \in {"edit", "delete"} THEN [pc |-> "Get", m |-> proc[p].m] ELSE Free)
  /\ UNCHANGED <<file, shown, mark, queue, now, count, excused>>

\* The message is read back, ...
Get(p) ==
  /\ At(p, "Get")
  /\ Becomes(p, [pc |-> "Broadcast", m |-> proc[p].m, doc |-> msg[proc[p].m]])
  /\ UNCHANGED <<msg, file, shown, mark, queue, now, count, excused>>

\* ... and broadcast to every open window, whatever happened to it meanwhile.
Broadcast(p) ==
  LET m == proc[p].m
      stale == Content(proc[p].doc) # Content(msg[m])
  IN /\ At(p, "Broadcast")
     /\ shown' = [shown EXCEPT ![m] = Content(proc[p].doc)]
     /\ excused' = IF stale THEN excused \cup {<<m, "shown">>} ELSE excused
     /\ Becomes(p, Free)
     /\ UNCHANGED <<msg, file, mark, queue, now, count>>

\* scan_attachment.
Take(p) ==
  /\ p \in Worker /\ At(p, "Idle") /\ queue # << >>
  /\ Becomes(p, [pc |-> "Scan", m |-> Head(queue)])
  /\ queue' = Tail(queue)
  /\ UNCHANGED <<msg, file, shown, mark, now, count, excused>>

\* Seeded fault: a scan that fails ends the task.
ScanRaises(p, verdict) ==
  LET m == proc[p].m
  IN /\ At(p, "Scan")
     /\ verdict \in {IF file[m] = "bad" THEN "INFECTED" ELSE "CLEAN", "ERROR"}
     /\ file' = IF verdict = "INFECTED" THEN [file EXCEPT ![m] = "deleted"] ELSE file
     /\ Becomes(p, IF verdict = "ERROR" THEN Free ELSE [pc |-> "Status", m |-> m, verdict |-> verdict])
     /\ UNCHANGED <<msg, shown, mark, queue, now, count, excused>>

\* A scanner, or a storage, that does not answer gives ERROR; a file that is
\* infected is deleted first.
ScanFile(p, verdict) ==
  LET m == proc[p].m
  IN /\ At(p, "Scan")
     /\ verdict \in {IF file[m] = "bad" THEN "INFECTED" ELSE "CLEAN", "ERROR"}
     /\ file' = IF verdict = "INFECTED" THEN [file EXCEPT ![m] = "deleted"] ELSE file
     /\ Becomes(p, [pc |-> "Status", m |-> m, verdict |-> verdict])
     /\ UNCHANGED <<msg, shown, mark, queue, now, count, excused>>

\* The verdict is written to the attachment, and the message read back.
Status(p) ==
  LET m == proc[p].m
  IN /\ At(p, "Status")
     /\ msg' = [msg EXCEPT ![m].scan = proc[p].verdict]
     /\ Becomes(p, [pc |-> "Get", m |-> m])
     /\ UNCHANGED <<file, shown, mark, queue, now, count, excused>>

\* ConversationViewSet.read: the latest message is looked up, ...
Latest(p, r) ==
  /\ p \in Process /\ At(p, "Idle") /\ count.reads < MaxReads
  /\ count' = [count EXCEPT !.reads = @ + 1]
  /\ Becomes(p, [pc |-> "Mark", m |-> None, who |-> r, seen |-> {m \in Message : There(m)}])
  /\ UNCHANGED <<msg, file, shown, mark, queue, now, excused>>

\* Seeded fault: the mark is rounded up.
StampUp(p) == now' = now + 1 /\ Becomes(p, [pc |-> "Save", m |-> None, who |-> proc[p].who,
                                            at |-> now + 2, seen |-> proc[p].seen])

\* ... the clock is read, which is later than the message, ...
Stamp(p) == now' = now + 1 /\ Becomes(p, [pc |-> "Save", m |-> None, who |-> proc[p].who,
                                          at |-> now + 1, seen |-> proc[p].seen])

MarkRead(p) ==
  /\ At(p, "Mark") /\ Stamp(p)
  /\ excused' = excused \cup {<<m, "read", proc[p].who>> : m \in
                  {k \in Message : (There(k) /\ k \notin proc[p].seen)
                                   \/ \E q \in All : At(q, "Insert") /\ proc[q].m = k}}
  /\ UNCHANGED <<msg, file, shown, mark, queue, count>>

\* ... and saved.
SaveMark(p) ==
  /\ At(p, "Save")
  /\ mark' = [mark EXCEPT ![proc[p].who] = [at |-> proc[p].at, seen |-> proc[p].seen]]
  /\ Becomes(p, Free)
  /\ UNCHANGED <<msg, file, shown, queue, now, count, excused>>

\* A process dies, with its request, its socket or its task.
Die(p) ==
  /\ ~ At(p, "Idle") /\ Becomes(p, Free)
  /\ excused' = excused \cup (IF proc[p].pc \in {"Queue", "Get", "Broadcast"} THEN {<<proc[p].m, "shown">>} ELSE {})
                         \cup (IF proc[p].pc \in {"Queue", "Scan", "Status"} THEN {<<proc[p].m, "scan">>} ELSE {})
  /\ UNCHANGED <<msg, file, shown, mark, queue, now, count>>

\* unread_count: messages of others, after the mark.
Unread(r) == {m \in Message : There(m) /\ ~ msg[m].deleted /\ Sender[m] # r /\ msg[m].at > mark[r].at}

Works(p) ==
  \/ Insert(p) \/ Queue(p) \/ Write(p) \/ Get(p) \/ Broadcast(p) \/ Take(p) \/ Status(p)
  \/ MarkRead(p) \/ SaveMark(p) \/ \E verdict \in {"CLEAN", "INFECTED", "ERROR"} : ScanFile(p, verdict)

Next ==
  \/ \E p \in All, m \in Message, attachment \in {None, "good", "bad"} :
       Compose(p, m, attachment)
  \/ \E p \in All, m \in Message, who \in Person, op \in {"edit", "delete", "important", "star"} :
       Operate(p, m, who, op)
  \/ \E p \in All, r \in Person : Latest(p, r)
  \/ \E p \in All : Works(p) \/ Die(p)

\* Requests and workers that live go on, and workers take tasks.
Fairness == \A p \in All : WF_vars(Works(p))

Spec == Init /\ [][Next]_vars /\ Fairness
----------------------------------------------------------------------------
TypeOK ==
  /\ \A m \in Message :
       There(m) => /\ msg[m].body \in 0..MaxOps /\ msg[m].stars \subseteq Person
                   /\ msg[m].scan \in {None, "PENDING", "CLEAN", "INFECTED", "ERROR"}
  /\ \A r \in Person : mark[r].seen \subseteq Message
  /\ count.ops \in 0..MaxOps /\ count.reads \in 0..MaxReads

\* What open windows show is what is stored, unless somebody is about to
\* broadcast the message, died before, or broadcast it out of order.
ShownIsCurrent ==
  \A m \in Message : There(m) =>
    \/ shown[m] = Content(msg[m])
    \/ \E p \in All : ~ At(p, "Idle") /\ proc[p].m = m
    \/ <<m, "shown">> \in excused

\* A file can be had when it was found clean, and is there as long as it can
\* be had; an infected file is gone before anybody hears of it.
OnlyCleanFiles ==
  \A m \in Message : There(m) =>
    /\ msg[m].scan = "CLEAN" => file[m] = "good"
    /\ msg[m].scan = "INFECTED" => file[m] = "deleted"

\* A message that does not count as unread was there when its reader looked,
\* or was stored while the reader was marking the conversation.
ReadWasThere ==
  \A r \in Person, m \in Message :
    There(m) /\ Sender[m] # r /\ ~ msg[m].deleted /\ m \notin Unread(r) =>
      m \in mark[r].seen \/ <<m, "read", r>> \in excused

\* What is deleted stays so, and no other operation undoes a verdict.
DeletedForGoodStep ==
  msg' # msg => \A m \in Message : There(m) =>
    /\ msg[m].deleted => msg'[m].deleted
    /\ msg[m].scan # msg'[m].scan => msg[m].scan = "PENDING"

\* DeletedForGoodStep, of every step.
DeletedForGood == [][DeletedForGoodStep]_vars

Queued(m) == \E k \in DOMAIN queue : queue[k] = m
Scanned(m) == (There(m) /\ msg[m].scan # "PENDING") \/ <<m, "scan">> \in excused

\* An attachment does not stay unscanned, unless its worker dies.
ScanEnds == \A m \in Message : Queued(m) ~> Scanned(m)
=============================================================================
