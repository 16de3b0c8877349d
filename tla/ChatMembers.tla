---------------------------- MODULE ChatMembers ----------------------------
(***************************************************************************)
(* Conversations and who takes part in them (apps/chat): two people start  *)
(* a direct conversation unless they have one; the admin of a group adds   *)
(* and removes members, renames and deletes it; members leave.  A request  *)
(* looks at the rows, writes, and logs what it did, each in a statement of *)
(* its own, and may die in between.                                        *)
(***************************************************************************)
EXTENDS Integers, Sequences, FiniteSets, FiniteSetsExt

CONSTANTS
  Request,
  Person,
  Founder,   \* who created the group, its admin
  Pair,      \* direct conversations that may come to be, numbered
  MaxOps,    \* bound: requests
  Topics     \* what behaviours are about: "direct", "group"

VARIABLES
  topic,
  direct,    \* direct conversations: their participants
  live,      \* the group is not deleted
  name,      \* of the group
  row,       \* ConversationParticipant rows of the group
  log,       \* ConversationAuditLog of the group
  req,       \* what each request is doing
  ops,
  excused    \* history: whose rows two requests handled at a time, or one that died

vars == <<topic, direct, live, name, row, log, req, ops, excused>>

Free == [pc |-> "Idle"]
At(p, pc) == req[p].pc = pc
Becomes(p, r) == req' = [req EXCEPT ![p] = r]
Begins(p) == At(p, "Idle") /\ ops < MaxOps /\ ops' = ops + 1

NoRow == [role |-> "none", born |-> 0]
Member(t) == row[t].role # "none"
Admin(t) == row[t].role = "ADMIN"

\* The people a request is about.
About(p) == IF "todo" \in DOMAIN req[p] THEN req[p].todo ELSE {}
Handled(p) == UNION {About(q) : q \in Request \ {p}}
----------------------------------------------------------------------------
Init ==
  /\ topic \in Topics
  /\ direct = [c \in Pair |-> {}]
  /\ live = TRUE /\ name = 0
  /\ row = [t \in Person |-> IF t = Founder THEN [role |-> "ADMIN", born |-> 0] ELSE NoRow]
  /\ log = << >>
  /\ req = [p \in Request |-> Free] /\ ops = 0 /\ excused = {}

\* Seeded fault: a conversation one of them has is good enough.
FoundAny(who, other) == {c \in Pair : direct[c] \cap {who, other} # {}}

\* The direct conversations that have a row for one and a row for the other.
Found(who, other) == {c \in Pair : {who, other} \subseteq direct[c]}

\* ConversationCreateSerializer.create: an existing one is looked for, ...
Start(p, who, other) ==
  /\ topic = "direct" /\ Begins(p)
  /\ Becomes(p, IF Found(who, other) # {} THEN [pc |-> "Found", between |-> {who, other}, given |-> Found(who, other)]
                ELSE [pc |-> "Create", between |-> {who, other}])
  /\ UNCHANGED <<topic, direct, live, name, row, log, excused>>

\* ... or made with its participants, in one transaction.
Create(p, c) ==
  /\ At(p, "Create") /\ direct[c] = {} /\ \A d \in Pair : direct[d] = {} => c <= d
  /\ direct' = [direct EXCEPT ![c] = req[p].between]
  /\ excused' = IF \E d \in Pair : direct[d] = req[p].between THEN excused \cup req[p].between ELSE excused
  /\ Becomes(p, [pc |-> "Found", between |-> req[p].between, given |-> {c}])
  /\ UNCHANGED <<topic, live, name, row, log, ops>>

Answer(p) ==
  /\ At(p, "Found") /\ Becomes(p, Free)
  /\ UNCHANGED <<topic, direct, live, name, row, log, ops, excused>>

\* ConversationViewSet.members: an admin's request, and who is a member now.
AddLoad(p, who, to) ==
  /\ topic = "group" /\ Begins(p) /\ live /\ Admin(who) /\ to # {}
  /\ Becomes(p, [pc |-> "Add", who |-> who, todo |-> to, new |-> {t \in to : ~ Member(t)}])
  /\ excused' = excused \cup (to \cap Handled(p))
  /\ UNCHANGED <<topic, direct, live, name, row, log>>

\* One statement adds all of them, or none when one of them was added since.
AddRows(p) ==
  LET taken == \E t \in req[p].new : Member(t)
  IN /\ At(p, "Add")
     /\ row' = IF taken THEN row
               ELSE [t \in Person |-> IF t \in req[p].new THEN [role |-> "MEMBER", born |-> ops] ELSE row[t]]
     /\ Becomes(p, IF taken THEN Free
                   ELSE [pc |-> "Log", who |-> req[p].who, todo |-> req[p].todo, action |-> "member_added"])
     /\ UNCHANGED <<topic, direct, live, name, log, ops, excused>>

\* Seeded fault: every member may remove any.
RemoveLoadAny(p, who, t) ==
  /\ topic = "group" /\ Begins(p) /\ live /\ Member(who) /\ Member(t)
  /\ Becomes(p, [pc |-> "Remove", who |-> who, todo |-> {t}, born |-> row[t].born])
  /\ excused' = excused \cup ({t} \cap Handled(p))
  /\ UNCHANGED <<topic, direct, live, name, row, log>>

\* remove_member: an admin removes anybody, the others only themselves.
RemoveLoad(p, who, t) ==
  /\ topic = "group" /\ Begins(p) /\ live /\ Member(who) /\ (who # t => Admin(who)) /\ Member(t)
  /\ Becomes(p, [pc |-> "Remove", who |-> who, todo |-> {t}, born |-> row[t].born])
  /\ excused' = excused \cup ({t} \cap Handled(p))
  /\ UNCHANGED <<topic, direct, live, name, row, log>>

\* Seeded fault: the row is marked as deleted, which nobody asks for.
RemoveRowSoft(p) ==
  /\ At(p, "Remove")
  /\ Becomes(p, [pc |-> "Log", who |-> req[p].who, todo |-> req[p].todo,
                 action |-> IF req[p].todo = {req[p].who} THEN "member_left" ELSE "member_removed"])
  /\ UNCHANGED <<topic, direct, live, name, row, log, ops, excused>>

\* The row that was found is deleted, if it is still that row.
RemoveRow(p) ==
  LET gone == {t \in req[p].todo : Member(t) /\ row[t].born = req[p].born}
  IN /\ At(p, "Remove")
     /\ row' = [t \in Person |-> IF t \in gone THEN NoRow ELSE row[t]]
     /\ Becomes(p, [pc |-> "Log", who |-> req[p].who, todo |-> req[p].todo,
                    action |-> IF req[p].todo = {req[p].who} THEN "member_left" ELSE "member_removed"])
     /\ UNCHANGED <<topic, direct, live, name, log, ops, excused>>

\* The audit log has an entry for everybody the request named, one by one.
Log(p, t) ==
  /\ At(p, "Log") /\ t \in req[p].todo /\ \A u \in req[p].todo : t <= u
  /\ log' = Append(log, [action |-> req[p].action, of |-> t])
  /\ Becomes(p, IF req[p].todo = {t} THEN Free ELSE [req[p] EXCEPT !.todo = @ \ {t}])
  /\ UNCHANGED <<topic, direct, live, name, row, ops, excused>>

\* update: an admin renames the group, ...
Rename(p, who) ==
  /\ topic = "group" /\ Begins(p) /\ live /\ Admin(who)
  /\ Becomes(p, [pc |-> "Load", who |-> who, name |-> ops'])
  /\ UNCHANGED <<topic, direct, live, name, row, log, excused>>

\* ... which is loaded again, by whoever is still a member, ...
RenameLoad(p) ==
  /\ At(p, "Load")
  /\ Becomes(p, IF live /\ Member(req[p].who)
                THEN [pc |-> "Save", who |-> req[p].who, name |-> req[p].name] ELSE Free)
  /\ UNCHANGED <<topic, direct, live, name, row, log, ops, excused>>

\* ... and saved with every column, is_deleted too.
RenameSave(p) ==
  /\ At(p, "Save")
  /\ live' = TRUE /\ name' = req[p].name
  /\ Becomes(p, Free)
  /\ UNCHANGED <<topic, direct, row, log, ops, excused>>

\* destroy: two columns are saved.
Destroy(p, who) ==
  /\ topic = "group" /\ Begins(p) /\ live /\ Admin(who)
  /\ Becomes(p, [pc |-> "Delete", who |-> who])
  /\ UNCHANGED <<topic, direct, live, name, row, log, excused>>

Delete(p) ==
  /\ At(p, "Delete") /\ live' = FALSE /\ Becomes(p, Free)
  /\ UNCHANGED <<topic, direct, name, row, log, ops, excused>>

Die(p) ==
  /\ ~ At(p, "Idle") /\ Becomes(p, Free)
  /\ excused' = excused \cup About(p)
  /\ UNCHANGED <<topic, direct, live, name, row, log, ops>>

Next ==
  \/ \E p \in Request, who, other \in Person : Start(p, who, other)
  \/ \E p \in Request, c \in Pair : Create(p, c)
  \/ \E p \in Request, who \in Person, to \in SUBSET Person : AddLoad(p, who, to)
  \/ \E p \in Request, who, t \in Person : RemoveLoad(p, who, t)
  \/ \E p \in Request, who \in Person : Rename(p, who) \/ Destroy(p, who)
  \/ \E p \in Request, t \in Person : Log(p, t)
  \/ \E p \in Request : \/ Answer(p) \/ AddRows(p) \/ RemoveRow(p) \/ RenameLoad(p) \/ RenameSave(p)
                        \/ Delete(p) \/ Die(p)

Spec == Init /\ [][Next]_vars
----------------------------------------------------------------------------
TypeOK ==
  /\ topic \in Topics /\ ops \in 0..MaxOps /\ live \in BOOLEAN /\ name \in 0..MaxOps
  /\ \A c \in Pair : direct[c] \subseteq Person /\ Cardinality(direct[c]) <= 2
  /\ \A t \in Person : row[t].role \in {"none", "MEMBER", "ADMIN"} /\ row[t].born \in 0..MaxOps
  /\ \A k \in DOMAIN log : log[k].of \in Person

\* Two people have one direct conversation, unless both started it at once;
\* and what they are given is theirs, unless somebody looks for one with
\* himself, who is given any of his.
DirectIsTheirs ==
  /\ \A c, d \in Pair : direct[c] = direct[d] /\ direct[c] # {} => c = d \/ direct[c] \subseteq excused
  /\ \A p \in Request : At(p, "Found") =>
       Cardinality(req[p].between) = 1 \/ \A c \in req[p].given : direct[c] = req[p].between

\* The last entry about somebody tells whether he is a member, unless a
\* request is still about him, died, or met another about him.
LogTells ==
  \A t \in Person \ excused :
    LET entries == {k \in DOMAIN log : log[k].of = t}
    IN \/ \E p \in Request : t \in About(p)
       \/ IF entries = {} THEN Member(t) = (t = Founder)
          ELSE Member(t) = (log[Max(entries)].action = "member_added")

\* Members come and go by an admin, or by themselves, or by one who was the
\* admin when the request began.
AdminsManageStep ==
  row' # row => \A t \in Person : row'[t] # row[t] =>
    \E p \in Request : /\ req'[p] # req[p] /\ "who" \in DOMAIN req[p]
                       /\ \/ Admin(req[p].who) \/ req[p].who = t
                          \/ req[p].who = Founder

\* AdminsManageStep, of every step.
AdminsManage == [][AdminsManageStep]_vars

\* A deleted group is back only by a request that had loaded it before.
DeletedStaysStep ==
  ~ live /\ live' => \E p \in Request : At(p, "Save") /\ req'[p] # req[p]

\* DeletedStaysStep, of every step.
DeletedStays == [][DeletedStaysStep]_vars
=============================================================================
