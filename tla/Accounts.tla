------------------------------ MODULE Accounts ------------------------------
(***************************************************************************)
(* Employees and their accounts at the identity provider, Keycloak         *)
(* (apps/accounts).  HR creates, edits and deletes employees, and what is  *)
(* saved is pushed to Keycloak; every five minutes, and when somebody      *)
(* unknown calls, a sync copies Keycloak's users and their first group     *)
(* back, with whole rows, and deletes the employees whose account is gone. *)
(* Calls to Keycloak may fail, and failures are passed over: a user whose  *)
(* groups cannot be looked up counts as one without groups.  The flags     *)
(* is_pmo and is_manager are functions of the group they were set for,     *)
(* which is what the model keeps of them.                                  *)
(***************************************************************************)
EXTENDS Integers, FiniteSets, FiniteSetsExt

CONSTANTS
  Account,   \* people, with their user names
  Group,     \* Keycloak groups
  Request,   \* HR's requests and the daily inactivity check
  Syncer,    \* runs of the sync
  Status,    \* the statuses HR sets; the code treats RESIGNED and ON_LEAVE alike
  MaxEdits,  \* bound: changes by HR or by Keycloak's administrators, and failed lookups
  Start,     \* how many of the accounts are employees at first
  None       \* no group

VARIABLES
  row,       \* Employee rows
  kc,        \* Keycloak's users
  proc,      \* what each request and each sync is doing
  edits,     \* how many changes and failed lookups there were
  clash      \* two codes were generated at a time, or a deleted row came back

vars == <<row, kc, proc, edits, clash>>

Process == Request \cup Syncer
Free == [pc |-> "Idle"]
At(p, pc) == proc[p].pc = pc
Becomes(p, r) == proc' = [proc EXCEPT ![p] = r]

NoRow == [there |-> FALSE, live |-> FALSE, linked |-> FALSE, status |-> "ACTIVE",
          active |-> FALSE, group |-> None, flags |-> None, code |-> 0]
NoUser == [there |-> FALSE, on |-> FALSE, groups |-> {}]

\* Employee.save: the status, while it is one of these two, decides is_active.
Saved(r) == [r EXCEPT !.active = r.status = "ACTIVE" \/ (r.status # "INACTIVE" /\ r.active)]

\* What other processes know of an image that somebody else overwrites.
Generating(p) == \E q \in Process \ {p} : proc[q].pc \in {"User", "Group", "Insert", "Adopt"}

\* Seeded fault: employees are counted.
NextCodeByCount == Cardinality({a \in Account : row[a].live}) + 1

\* generate_employee_code: one more than the greatest code that is not deleted.
NextCode == Max({0} \cup {row[a].code : a \in {b \in Account : row[b].live}}) + 1

\* An update that is not committed locks its row.
Locked(a) == \E p \in Process : At(p, "Commit") /\ proc[p].account = a
----------------------------------------------------------------------------
Init ==
  /\ \E g \in Group, first \in SUBSET Account :
       /\ Cardinality(first) = Start
       /\ row = [a \in Account |->
            IF a \in first THEN [there |-> TRUE, live |-> TRUE, linked |-> TRUE, status |-> "ACTIVE",
                                 active |-> TRUE, group |-> g, flags |-> g, code |-> a]
            ELSE NoRow]
       /\ kc = [a \in Account |-> IF a \in first THEN [there |-> TRUE, on |-> TRUE, groups |-> {g}]
                                  ELSE NoUser]
  /\ proc = [p \in Process |-> Free]
  /\ edits = 0 /\ clash = FALSE

\* EmployeeViewSet.create: the code, ...
Code(p, a, g) ==
  /\ p \in Request /\ At(p, "Idle") /\ ~ row[a].live /\ edits < MaxEdits /\ edits' = edits + 1
  /\ Becomes(p, [pc |-> "User", account |-> a, group |-> g, code |-> NextCode, linked |-> FALSE])
  /\ clash' = (clash \/ Generating(p))
  /\ UNCHANGED <<row, kc>>

\* ... the user, unless there is one or Keycloak is down, ...
User(p, up) ==
  LET a == proc[p].account
      made == up /\ ~ kc[a].there
  IN /\ At(p, "User")
     /\ kc' = IF made THEN [kc EXCEPT ![a] = [there |-> TRUE, on |-> TRUE, groups |-> {}]] ELSE kc
     /\ proc' = [q \in Process |->
          IF q = p THEN [proc[p] EXCEPT !.pc = IF made THEN "Group" ELSE "Insert", !.linked = made]
          ELSE IF made /\ "ids" \in DOMAIN proc[q] THEN [proc[q] EXCEPT !.late = @ \cup {a}] ELSE proc[q]]
     /\ UNCHANGED <<row, edits, clash>>

\* ... its group, ...
JoinGroup(p, up) ==
  LET a == proc[p].account
  IN /\ At(p, "Group")
     /\ kc' = IF up /\ kc[a].there THEN [kc EXCEPT ![a].groups = @ \cup {proc[p].group}] ELSE kc
     /\ Becomes(p, [proc[p] EXCEPT !.pc = "Insert"])
     /\ UNCHANGED <<row, edits, clash>>

\* ... and the row, unless the user name is taken, by a deleted row too.
Insert(p) ==
  LET a == proc[p].account
      new == Saved([there |-> TRUE, live |-> TRUE, linked |-> proc[p].linked, status |-> "ACTIVE",
                    active |-> TRUE, group |-> proc[p].group, flags |-> proc[p].group,
                    code |-> proc[p].code])
  IN /\ At(p, "Insert")
     /\ row' = IF row[a].there THEN row ELSE [row EXCEPT ![a] = new]
     /\ Becomes(p, IF row[a].there THEN Free ELSE [pc |-> "Push", account |-> a, image |-> new])
     /\ UNCHANGED <<kc, edits, clash>>

\* Employee.save, its second half: the user as the image has it, and the group
\* in addition to those the user has.
Pushed(i, k) ==
  IF i.linked /\ k.there
  THEN [k EXCEPT !.on = i.active, !.groups = IF i.group = None THEN @ ELSE @ \cup {i.group}] ELSE k

Push(p, up) ==
  LET a == proc[p].account
  IN /\ At(p, "Push")
     /\ kc' = IF up THEN [kc EXCEPT ![a] = Pushed(proc[p].image, @)] ELSE kc
     /\ Becomes(p, Free)
     /\ UNCHANGED <<row, edits, clash>>

\* Seeded fault: anybody makes an inactive employee active.
LoadByAnybody(p, a, g, status, ceo) ==
  LET image == Saved([row[a] EXCEPT !.group = g, !.flags = IF g = row[a].group THEN @ ELSE g,
                                    !.status = status])
  IN /\ p \in Request /\ At(p, "Idle") /\ edits < MaxEdits /\ edits' = edits + 1
     /\ row[a].live
     /\ Becomes(p, [pc |-> "Save", account |-> a, image |-> image, moved |-> g # row[a].group,
                    was |-> row[a], ceo |-> ceo])
     /\ UNCHANGED <<row, kc, clash>>

\* EmployeeViewSet.partial_update, of the group or of the status: the row is
\* loaded, ...  Only the CEO makes an inactive employee active.
Load(p, a, g, status, ceo) ==
  LET image == Saved([row[a] EXCEPT !.group = g, !.flags = IF g = row[a].group THEN @ ELSE g,
                                    !.status = status])
  IN /\ p \in Request /\ At(p, "Idle") /\ edits < MaxEdits /\ edits' = edits + 1
     /\ row[a].live
     /\ row[a].status = "INACTIVE" /\ status = "ACTIVE" => ceo
     /\ Becomes(p, [pc |-> "Save", account |-> a, image |-> image, moved |-> g # row[a].group,
                    was |-> row[a], ceo |-> ceo])
     /\ UNCHANGED <<row, kc, clash>>

\* ... saved with every column and pushed, ...
Save(p, up) ==
  LET a == proc[p].account
  IN /\ At(p, "Save") /\ ~ Locked(a)
     /\ kc' = IF up THEN [kc EXCEPT ![a] = Pushed(proc[p].image, @)] ELSE kc
     /\ Becomes(p, [proc[p] EXCEPT !.pc = "Commit"])
     /\ UNCHANGED <<row, edits, clash>>

\* ... and committed; a new group ...
Commit(p) ==
  LET a == proc[p].account
  IN /\ At(p, "Commit")
     /\ row' = [row EXCEPT ![a] = proc[p].image]
     /\ clash' = (clash \/ ~ row[a].live)
     /\ Becomes(p, IF proc[p].moved /\ proc[p].image.linked
                   THEN [proc[p] EXCEPT !.pc = "Leave"] ELSE Free)
     /\ UNCHANGED <<kc, edits>>

\* ... replaces all others, which Keycloak may refuse.
Leave(p, up) ==
  LET a == proc[p].account
  IN /\ At(p, "Leave")
     /\ kc' = IF up THEN [kc EXCEPT ![a].groups = {}] ELSE kc
     /\ Becomes(p, [pc |-> "Group2", account |-> a, group |-> proc[p].image.group])
     /\ UNCHANGED <<row, edits, clash>>

Rejoin(p, up) ==
  LET a == proc[p].account
  IN /\ At(p, "Group2")
     /\ kc' = IF up /\ kc[a].there THEN [kc EXCEPT ![a].groups = @ \cup {proc[p].group}] ELSE kc
     /\ Becomes(p, Free)
     /\ UNCHANGED <<row, edits, clash>>

\* EmployeeViewSet.destroy: two columns, of which the status restores one.
Destroy(p, a) ==
  LET image == Saved([row[a] EXCEPT !.live = FALSE, !.active = FALSE])
  IN /\ p \in Request /\ At(p, "Idle") /\ edits < MaxEdits /\ edits' = edits + 1
     /\ row[a].live /\ ~ Locked(a)
     /\ row' = [row EXCEPT ![a] = image]
     /\ Becomes(p, [pc |-> "Push", account |-> a, image |-> image])
     /\ UNCHANGED <<kc, clash>>

\* check_consecutive_inactivity: who did not attend for five working days is
\* made inactive, with the whole row as it was loaded.
Idle(p, a) ==
  /\ p \in Request /\ At(p, "Idle") /\ edits < MaxEdits /\ edits' = edits + 1
  /\ row[a].live /\ row[a].status = "ACTIVE"
  /\ Becomes(p, [pc |-> "Retire", account |-> a, image |-> Saved([row[a] EXCEPT !.status = "INACTIVE"])])
  /\ UNCHANGED <<row, kc, clash>>

Retire(p) ==
  LET a == proc[p].account
  IN /\ At(p, "Retire") /\ ~ Locked(a)
     /\ row' = [row EXCEPT ![a] = proc[p].image]
     /\ clash' = (clash \/ ~ row[a].live)
     /\ Becomes(p, [proc[p] EXCEPT !.pc = "Push"])
     /\ UNCHANGED <<kc, edits>>

\* Seeded fault: only users that are enabled are asked for.
BeginEnabled(p) ==
  LET users == {a \in Account : kc[a].there /\ kc[a].on}
  IN /\ p \in Syncer /\ At(p, "Idle")
     /\ Becomes(p, [pc |-> "Sync", todo |-> users, ids |-> users,
                    on |-> [a \in Account |-> kc[a].on], late |-> {}])
     /\ UNCHANGED <<row, kc, edits, clash>>

\* sync_all: Keycloak's users are fetched once.
Begin(p) ==
  LET users == {a \in Account : kc[a].there}
  IN /\ p \in Syncer /\ At(p, "Idle")
     /\ Becomes(p, [pc |-> "Sync", todo |-> users, ids |-> users,
                    on |-> [a \in Account |-> kc[a].on], late |-> {}])
     /\ UNCHANGED <<row, kc, edits, clash>>

\* sync_one, for a user who calls and has no row: it deletes nobody.
BeginOne(p, a) ==
  /\ p \in Request /\ At(p, "Idle") /\ kc[a].there /\ ~ row[a].live
  /\ Becomes(p, [pc |-> "Sync", todo |-> {a}, ids |-> Account,
                 on |-> [b \in Account |-> kc[b].on], late |-> {}])
  /\ UNCHANGED <<row, kc, edits, clash>>

\* The first of a user's groups, in no particular order, or none, also when
\* the lookup fails; and the user's row.
Read(p, a, g, failed) ==
  LET linked == row[a].live /\ row[a].linked
  IN /\ At(p, "Sync") /\ a \in proc[p].todo
     /\ IF failed THEN g = None /\ edits < MaxEdits /\ edits' = edits + 1
        ELSE edits' = edits /\ (g \in kc[a].groups \/ (kc[a].groups = {} /\ g = None))
     /\ Becomes(p, [todo |-> proc[p].todo \ {a}, ids |-> proc[p].ids, on |-> proc[p].on,
                    late |-> proc[p].late, pc |-> IF linked THEN "Copy" ELSE "Adopt",
                    account |-> a, image |-> row[a], group |-> g, code |-> NextCode])
     /\ clash' = (clash \/ (~ linked /\ Generating(p)))
     /\ UNCHANGED <<row, kc>>

\* Seeded fault: whoever Keycloak has enabled is made active.
CopyStatus(p) ==
  LET a == proc[p].account
      i == proc[p].image
      new == Saved([i EXCEPT !.group = proc[p].group, !.flags = proc[p].group, !.active = proc[p].on[a],
                             !.status = IF proc[p].on[a] THEN "ACTIVE" ELSE @])
  IN /\ At(p, "Copy") /\ ~ Locked(a)
     /\ row' = [row EXCEPT ![a] = new]
     /\ clash' = (clash \/ ~ row[a].live)
     /\ Becomes(p, [proc[p] EXCEPT !.pc = "Sync"])
     /\ UNCHANGED <<kc, edits>>

\* Seeded fault: a change of the group is not noticed.
CopyEnabled(p) ==
  LET a == proc[p].account
      i == proc[p].image
      new == Saved([i EXCEPT !.group = proc[p].group, !.flags = proc[p].group, !.active = proc[p].on[a]])
  IN /\ At(p, "Copy") /\ ~ Locked(a)
     /\ row' = IF i.active # proc[p].on[a] THEN [row EXCEPT ![a] = new] ELSE row
     /\ clash' = (clash \/ ~ row[a].live)
     /\ Becomes(p, [proc[p] EXCEPT !.pc = "Sync"])
     /\ UNCHANGED <<kc, edits>>

\* A row that differs from the user is saved with every column; whether an
\* ACTIVE or INACTIVE one is active is decided by its status, not by Keycloak.
Copy(p) ==
  LET a == proc[p].account
      i == proc[p].image
      differs == i.group # proc[p].group \/ i.flags # proc[p].group \/ i.active # proc[p].on[a]
      new == Saved([i EXCEPT !.group = proc[p].group, !.flags = proc[p].group, !.active = proc[p].on[a]])
  IN /\ At(p, "Copy") /\ (differs => ~ Locked(a))
     /\ row' = IF differs THEN [row EXCEPT ![a] = new] ELSE row
     /\ clash' = (clash \/ (differs /\ ~ row[a].live))
     /\ Becomes(p, [proc[p] EXCEPT !.pc = "Sync"])
     /\ UNCHANGED <<kc, edits>>

\* A user without a linked row becomes an employee, unless a row has the user
\* name or, deleted, the Keycloak id.
Adopt(p) ==
  LET a == proc[p].account
      g == proc[p].group
  IN /\ At(p, "Adopt")
     /\ row' = IF row[a].there THEN row
               ELSE [row EXCEPT ![a] = Saved([there |-> TRUE, live |-> TRUE, linked |-> TRUE,
                       status |-> "ACTIVE", active |-> TRUE, group |-> g, flags |-> g,
                       code |-> proc[p].code])]
     /\ Becomes(p, [proc[p] EXCEPT !.pc = "Sync"])
     /\ UNCHANGED <<kc, edits, clash>>

\* Linked employees without a user in the list, ...
Miss(p) ==
  /\ At(p, "Sync") /\ proc[p].todo = {}
  /\ Becomes(p, [pc |-> "Sweep", ids |-> proc[p].ids, late |-> proc[p].late,
                 gone |-> {a \in Account : row[a].live /\ row[a].linked} \ proc[p].ids])
  /\ UNCHANGED <<row, kc, edits, clash>>

\* ... are deleted, and pushed once more, to whoever appeared meanwhile.
Sweep(p, up) ==
  /\ At(p, "Sweep")
  /\ \/ /\ proc[p].gone = {} /\ Becomes(p, Free) /\ UNCHANGED <<row, kc>>
     \/ \E a \in proc[p].gone :
          LET swept == Saved([row[a] EXCEPT !.live = FALSE, !.active = FALSE])
          IN /\ ~ Locked(a)
             /\ row' = [row EXCEPT ![a] = swept]
             /\ kc' = IF up THEN [kc EXCEPT ![a] = Pushed(swept, @)] ELSE kc
             /\ Becomes(p, [proc[p] EXCEPT !.gone = @ \ {a}])
  /\ UNCHANGED <<edits, clash>>

\* KeycloakAuthentication: a row without a Keycloak id is linked when its
\* owner calls.
Link(p, a) ==
  LET image == [row[a] EXCEPT !.linked = TRUE]
  IN /\ p \in Request /\ At(p, "Idle") /\ kc[a].there /\ row[a].live /\ ~ row[a].linked /\ ~ Locked(a)
     /\ row' = [row EXCEPT ![a] = image]
     /\ Becomes(p, [pc |-> "Push", account |-> a, image |-> Saved(image)])
     /\ UNCHANGED <<kc, edits, clash>>

\* Somebody administrates Keycloak itself.
Administrate(a, user) ==
  /\ edits < MaxEdits /\ edits' = edits + 1
  /\ kc[a] # user /\ (row[a].live /\ row[a].linked => kc[a].there)
  /\ kc' = [kc EXCEPT ![a] = user]
  /\ proc' = IF kc[a].there THEN proc
             ELSE [q \in Process |-> IF "ids" \in DOMAIN proc[q]
                                     THEN [proc[q] EXCEPT !.late = @ \cup {a}] ELSE proc[q]]
  /\ UNCHANGED <<row, clash>>

Works(p) ==
  \/ \E up \in BOOLEAN : User(p, up) \/ JoinGroup(p, up) \/ Push(p, up) \/ Save(p, up)
                          \/ Leave(p, up) \/ Rejoin(p, up) \/ Sweep(p, up)
  \/ Insert(p) \/ Commit(p) \/ Retire(p)
  \/ \E a \in Account, g \in Group \cup {None}, failed \in BOOLEAN : Read(p, a, g, failed)
  \/ Copy(p) \/ Adopt(p) \/ Miss(p)

Next ==
  \/ \E p \in Process, a \in Account, g \in Group : Code(p, a, g)
  \/ \E p \in Process, a \in Account, status \in Status, ceo \in BOOLEAN :
       \E g \in Group \cup {row[a].group} : Load(p, a, g, status, ceo)
  \/ \E p \in Process, a \in Account : Destroy(p, a) \/ Idle(p, a) \/ Link(p, a) \/ BeginOne(p, a)
  \/ \E p \in Process : Begin(p)
  \/ \E p \in Process : Works(p)
  \/ \E a \in Account, user \in {NoUser} \cup [there : {TRUE}, on : BOOLEAN, groups : {{g} : g \in Group}] :
       Administrate(a, user)

\* Requests and syncs go on, Keycloak answers again in the end, and the sync
\* of everybody is started every five minutes.
Fairness == \A p \in Process : WF_vars(Works(p)) /\ WF_vars(Begin(p))

Spec == Init /\ [][Next]_vars /\ Fairness
----------------------------------------------------------------------------
TypeOK ==
  /\ \A a \in Account :
       /\ row[a].there \in BOOLEAN /\ row[a].live \in BOOLEAN /\ row[a].linked \in BOOLEAN
       /\ row[a].status \in {"ACTIVE", "INACTIVE"} \cup Status /\ row[a].code \in Nat
       /\ row[a].group \in Group \cup {None} /\ row[a].flags \in Group \cup {None}
       /\ kc[a].there \in BOOLEAN /\ kc[a].groups \subseteq Group
  /\ edits \in 0..MaxEdits /\ clash \in BOOLEAN

\* No two employees have one code, unless two were generated at a time or a
\* deleted row was saved again from an image.
CodesDiffer ==
  clash \/ \A a, b \in Account : row[a].live /\ row[b].live /\ row[a].code = row[b].code => a = b

\* The sync deletes those who have no user, and those whose user appeared
\* after it had fetched the list.
OnlyTheGoneAreSweptStep ==
  row' # row => \A p \in Process : At(p, "Sweep") /\ proc'[p] # proc[p] =>
    \A a \in Account : row[a].live /\ ~ row'[a].live => ~ kc[a].there \/ a \in proc[p].late

\* OnlyTheGoneAreSweptStep, of every step.
OnlyTheGoneAreSwept == [][OnlyTheGoneAreSweptStep]_vars

\* From INACTIVE to ACTIVE an employee is put by the CEO, or by an image that
\* was loaded before the employee became INACTIVE.  Nothing is said of the way
\* over another status, which the code leaves open to all of HR.
OnlyTheCeoReactivatesStep ==
  row' # row => \A a \in Account :
    row[a].status = "INACTIVE" /\ row'[a].status = "ACTIVE" =>
      \E p \in Process :
        /\ proc'[p] # proc[p]
        /\ IF At(p, "Commit") THEN proc[p].ceo \/ proc[p].was.status # "INACTIVE"
           ELSE "image" \in DOMAIN proc[p] /\ proc[p].image.status = "ACTIVE"

\* OnlyTheCeoReactivatesStep, of every step.
OnlyTheCeoReactivates == [][OnlyTheCeoReactivatesStep]_vars

Agree ==
  \A a \in Account : row[a].live /\ row[a].linked /\ kc[a].there =>
    /\ row[a].group \in kc[a].groups \/ (kc[a].groups = {} /\ row[a].group = None)
    /\ row[a].flags = row[a].group

\* Once nobody changes anything and lookups no longer fail, every employee with
\* an account has a group of that account, and its flags, for good: the next
\* sync gives back what a failed lookup took.
Mirrored == <>[]Agree
=============================================================================
