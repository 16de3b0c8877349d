------------------------------ MODULE Masters -------------------------------
(***************************************************************************)
(* The reference tables: one table with a unique name and a unique slug     *)
(* that is derived from the name while it is empty (all ten tables of        *)
(* MasterBase have this form), and the one row of the reimbursement          *)
(* approver.  Two requests work at a time; a validation and the statement    *)
(* that follows it are two steps.                                            *)
(***************************************************************************)
EXTENDS Integers, FiniteSets

CONSTANTS Row,           \* primary keys
          Name,          \* names of rows
          SlugOf,        \* [Name -> slug]: slugify, which is not injective and
                         \* makes nothing of a name without ASCII letters
          NoSlug,        \* the empty slug
          Emp,           \* employees who may approve reimbursements
          Thread,        \* requests under way
          MaxRenames,    \* bound on the updates of the approver and of rows
          None

VARIABLES table,         \* [Row -> [name, slug, on] or None]
          config,        \* the ReimbursementConfig row: its approver, or None
          active,        \* active employees
          pc, job,       \* what a thread is about to do, and with what
          last,          \* the approver of the last request that finished
          renames

vars == <<table, config, active, pc, job, last, renames>>

Rows == [name : Name, slug : {NoSlug} \cup {SlugOf[n] : n \in Name}, on : BOOLEAN]
Jobs == [row : Row, image : Rows] \cup [boss : Emp]

TypeOK ==
    /\ table \in [Row -> Rows \cup {None}]
    /\ config \in Emp \cup {None} /\ last \in Emp \cup {None}
    /\ active \subseteq Emp
    /\ pc \in [Thread -> {"idle", "insert", "rename", "read", "create", "lock"}]
    /\ job \in [Thread -> Jobs \cup {None}]
    /\ renames \in 0 .. MaxRenames

Init ==
    /\ table = [r \in Row |-> None]
    /\ config = None /\ last = None
    /\ active = Emp
    /\ pc = [t \in Thread |-> "idle"] /\ job = [t \in Thread |-> None]
    /\ renames = 0

-----------------------------------------------------------------------------
Used == {r \in Row : table[r] # None}
NameTaken(n, but) == \E r \in Used \ {but} : table[r].name = n
SlugTaken(s, but) == \E r \in Used \ {but} : table[r].slug = s
Held(r) == \E t \in Thread : job[t] # None /\ "row" \in DOMAIN job[t] /\ job[t].row = r

Goto(t, label, j) == /\ pc' = [pc EXCEPT ![t] = label]
                     /\ job' = [job EXCEPT ![t] = j]
Done(t) == Goto(t, "idle", None)
Bounded == renames < MaxRenames /\ renames' = renames + 1
Approver == <<config, active, last>>

\* MasterBase.save derives a slug that is empty; the two unique columns decide,
\* and a row that somebody deleted meanwhile is inserted again.
Saved(image) == IF image.slug = NoSlug THEN [image EXCEPT !.slug = SlugOf[image.name]] ELSE image
Written(r, new) ==
    table' = IF NameTaken(new.name, r) \/ SlugTaken(new.slug, r) THEN table   \* an IntegrityError
             ELSE [table EXCEPT ![r] = new]

\* create() of a viewset: the serializer's UniqueValidator looks at the name;
\* the slug is read-only and no validator looks at it.
CheckName(t, r, n) ==
    /\ pc[t] = "idle" /\ r \notin Used /\ ~NameTaken(n, None) /\ ~Held(r)
    /\ Goto(t, "insert", [row |-> r, image |-> [name |-> n, slug |-> NoSlug, on |-> TRUE]])
    /\ UNCHANGED <<Approver, table, renames>>

Insert(t) ==
    /\ pc[t] = "insert"
    /\ Written(job[t].row, Saved(job[t].image))
    /\ Done(t) /\ UNCHANGED <<Approver, renames>>

\* update(): the row is loaded, renamed, switched off or on, and validated ...
CheckRename(t, r, n, on) ==
    /\ pc[t] = "idle" /\ r \in Used /\ ~NameTaken(n, r)
    /\ Bounded
    /\ Goto(t, "rename", [row |-> r, image |-> [table[r] EXCEPT !.name = n, !.on = on]])
    /\ UNCHANGED <<Approver, table>>

\* Seeded fault: the slug follows the name.
RenameSlug(t) ==
    /\ pc[t] = "rename"
    /\ Written(job[t].row, Saved([job[t].image EXCEPT !.slug = NoSlug]))
    /\ Done(t) /\ UNCHANGED <<Approver, renames>>

\* ... and saved with every column.
Rename(t) ==
    /\ pc[t] = "rename"
    /\ Written(job[t].row, Saved(job[t].image))
    /\ Done(t) /\ UNCHANGED <<Approver, renames>>

\* Rows are deleted for good, whoever has loaded them.
Delete(r) ==
    /\ r \in Used
    /\ table' = [table EXCEPT ![r] = None]
    /\ UNCHANGED <<Approver, pc, job, renames>>

\* What the drop-downs offer.
Dropdown == {table[r].name : r \in {x \in Used : table[x].on}}

-----------------------------------------------------------------------------
(* ReimbursementConfigView.put.                                             *)

Choose(t, e) ==
    /\ pc[t] = "idle" /\ e \in active /\ Bounded
    /\ Goto(t, "read", [boss |-> e])
    /\ UNCHANGED <<Approver, table>>

\* get_or_create: the locking read finds the row or there is none to lock.
ReadConfig(t) ==
    /\ pc[t] = "read"
    /\ Goto(t, IF config = None THEN "create" ELSE "lock", job[t])
    /\ UNCHANGED <<Approver, table, renames>>

\* The insert of the second of two firsts violates the singleton constraint;
\* get_or_create then reads the row of the first again, with its lock.
CreateConfig(t) ==
    /\ pc[t] = "create"
    /\ IF config = None
       THEN config' = job[t].boss /\ last' = job[t].boss /\ Done(t)
       ELSE Goto(t, "lock", job[t]) /\ UNCHANGED <<config, last>>
    /\ UNCHANGED <<active, table, renames>>

\* Seeded fault: the row that was found is left as it is.
UpdateConfigNot(t) ==
    /\ pc[t] = "lock"
    /\ last' = job[t].boss /\ Done(t)
    /\ UNCHANGED <<config, active, table, renames>>

UpdateConfig(t) ==
    /\ pc[t] = "lock"
    /\ config' = job[t].boss /\ last' = job[t].boss
    /\ Done(t)
    /\ UNCHANGED <<active, table, renames>>

Leave(e) ==
    /\ active' = active \ {e} /\ e \in active
    /\ UNCHANGED <<table, config, last, pc, job, renames>>

Next ==
    \/ \E t \in Thread :
          \/ \E r \in Row, n \in Name : CheckName(t, r, n)
          \/ \E r \in Row, n \in Name, on \in BOOLEAN : CheckRename(t, r, n, on)
          \/ Insert(t) \/ Rename(t)
          \/ \E e \in Emp : Choose(t, e)
          \/ ReadConfig(t) \/ CreateConfig(t) \/ UpdateConfig(t)
    \/ \E r \in Row : Delete(r)
    \/ \E e \in Emp : Leave(e)

Spec == Init /\ [][Next]_vars

-----------------------------------------------------------------------------
(* Properties.                                                              *)

\* No two rows share a name or a slug, so that every drop-down entry is one
\* row, whatever two overlapping requests checked (master/models.py 8-24).
TableIsKeyed ==
    \A r, s \in Used : r # s =>
        table[r].name # table[s].name /\ table[r].slug # table[s].slug

\* The slug of a row is the first it got that is not empty, so links to it
\* last; only a request that loaded the row before it had one may replace it.
SlugsLastStep ==
    \A r \in Used : table'[r] # None /\ table'[r].slug # table[r].slug =>
        \/ table[r].slug = NoSlug
        \/ \E t \in Thread : /\ pc[t] = "rename" /\ pc'[t] = "idle"
                            /\ job[t].row = r /\ job[t].image.slug = NoSlug

\* SlugsLastStep, of every step.
SlugsLast == [][SlugsLastStep]_vars

\* There is one approver from the first request on, the one of the request
\* that finished last (master/models.py 278-302).
LastApproverStands == config = last
=============================================================================
