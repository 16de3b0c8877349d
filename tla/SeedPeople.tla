----------------------------- MODULE SeedPeople -----------------------------
(***************************************************************************)
(* The command that loads the master tables and the employees of the list, *)
(* opens their accounts in Keycloak and fills in their attendance.  It is  *)
(* one transaction, but what it does in Keycloak is not part of it.        *)
(***************************************************************************)
EXTENDS Integers, FiniteSets

CONSTANTS Listed,           \* the employees of the list
          Others,           \* employees who are not
          Coded,            \* those of the others with a code that begins with HIT-
          Boss,             \* the manager of the list, for everybody else on it
          MaxDay,           \* working days of the calendar
          LeaveDay,         \* the day pre-marked as leave, for everybody but Boss
          MaxRuns, MaxEdits, None

VARIABLES day, runs, edits,
          employee,         \* Employee by username
          record,           \* AttendanceRecord by employee and day
          account,          \* users of Keycloak
          approver,         \* ReimbursementConfig.approver, which protects its row
          ran               \* history: what the last step ran, if it was a run

tables == <<employee, record, account>>
vars == <<day, runs, edits, employee, record, account, approver, ran>>

Emp == Listed \cup Others
Day == 1 .. MaxDay
Designations == {"list", "other"}

TypeOK ==
    /\ employee \in [Emp -> {None} \cup
           [manager : Emp \cup {None}, designation : Designations \cup {None},
            status : {"ACTIVE", "INACTIVE", "RESIGNED"}, active : BOOLEAN, account : Emp \cup {None}]]
    /\ record \in [Emp \X Day -> {None, "SEEDED", "LEAVE", "BY_HAND"}]
    /\ account \subseteq Emp /\ approver \in Emp \cup {None}
    /\ ran \in [how : {"no", "plain", "reset", "failed"}, done : SUBSET Listed]

NoRun == [how |-> "no", done |-> {}]

Init ==
    /\ day = 1 /\ runs = 0 /\ edits = 0 /\ ran = NoRun
    /\ employee = [e \in Emp |->
           IF e \in Listed THEN None
           ELSE [manager |-> None, designation |-> "other", status |-> "ACTIVE",
                 active |-> TRUE, account |-> None]]
    /\ record = [k \in Emp \X Day |-> None]
    /\ account = {} /\ approver = None

-----------------------------------------------------------------------------
(* A run, step by step.                                                     *)

Removed(reset) == IF reset THEN Listed \cup Coded ELSE {}

\* Deleting every designation empties the column of whoever is not on the
\* list; those with a HIT- code are deleted, and no longer manage anybody.
AfterReset(reset) ==
    [e \in Emp |->
        IF employee[e] = None \/ e \in Removed(reset) THEN None
        ELSE IF reset THEN [employee[e] EXCEPT !.designation = None,
                                !.manager = IF @ \in Removed(TRUE) THEN None ELSE @]
        ELSE employee[e]]

\* An active employee is an active account, an inactive one is not (the save
\* of the model); who has resigned is switched on again.
Saved(row) == [row EXCEPT !.active = IF row.status = "ACTIVE" THEN TRUE
                                     ELSE IF row.status = "INACTIVE" THEN FALSE ELSE @]

Fresh == [manager |-> None, designation |-> None, status |-> "ACTIVE", active |-> TRUE,
          account |-> None]

\* get_or_create by username; the defaults are written again if it was there.
Loaded(row) ==
    Saved([(IF row = None THEN Fresh ELSE row) EXCEPT !.designation = "list", !.active = TRUE])

\* Seeded fault: a new account for whoever has none entered.
ProvisionedAnew(row, e, done) ==
    IF e \in done /\ row.account = None /\ e \notin account
    THEN [row EXCEPT !.account = e] ELSE row

\* provision: the account of that username, made if there is none.
Provisioned(row, e, done) ==
    IF e \in done /\ row.account = None THEN [row EXCEPT !.account = e] ELSE row

\* Pass one, then pass two for the managers.
LoadEmployees(reset, done) ==
    [e \in Emp |->
        IF e \in Listed
        THEN [Provisioned(Loaded(AfterReset(reset)[e]), e, done) EXCEPT
                 !.manager = IF e = Boss THEN @ ELSE Boss]
        ELSE AfterReset(reset)[e]]

\* Seeded fault: whatever the day shows is written over.
SeededAlways(e, d, r) ==
    IF e \notin Listed \/ d > day THEN r
    ELSE IF d = LeaveDay /\ e # Boss THEN "LEAVE" ELSE "SEEDED"

\* get_or_create, but update_or_create for the leave that is known already.
Seeded(e, d, r) ==
    IF e \notin Listed \/ d > day THEN r
    ELSE IF d = LeaveDay /\ e # Boss THEN "LEAVE"
    ELSE IF r = None THEN "SEEDED" ELSE r

SeedAttendance(reset) ==
    [k \in Emp \X Day |->
        Seeded(k[1], k[2], IF k[1] \in Removed(reset) THEN None ELSE record[k])]

\* The transaction commits.  Keycloak answers for `done`; without a connection
\* that is nobody.  Whoever an entry protects keeps everybody from deletion.
Run(reset, done) ==
    /\ runs < MaxRuns /\ runs' = runs + 1
    /\ reset => approver \notin Removed(TRUE)
    /\ employee' = LoadEmployees(reset, done)
    /\ record' = SeedAttendance(reset)
    /\ account' = account \cup {e \in done : AfterReset(reset)[e] = None
                                             \/ AfterReset(reset)[e].account = None}
    /\ ran' = [how |-> IF reset THEN "reset" ELSE "plain", done |-> done]
    /\ UNCHANGED <<day, edits, approver>>

\* It does not: the deletion is refused, or the process dies; accounts that
\* were opened by then stay.
Fail(reset, done) ==
    /\ runs < MaxRuns /\ runs' = runs + 1
    /\ account' = (IF reset /\ approver \in Removed(TRUE) THEN account ELSE account \cup done)
    /\ ran' = [how |-> "failed", done |-> done]
    /\ UNCHANGED <<day, edits, employee, record, approver>>

-----------------------------------------------------------------------------
(* Between the runs.                                                        *)

Tomorrow ==
    /\ day < MaxDay /\ day' = day + 1 /\ ran' = NoRun
    /\ UNCHANGED <<runs, edits, employee, record, account, approver>>

Edit == edits < MaxEdits /\ edits' = edits + 1 /\ ran' = NoRun /\ UNCHANGED <<day, runs, account>>

SetStatus(e, s) ==
    /\ Edit /\ employee[e] # None
    /\ employee' = [employee EXCEPT ![e] = Saved([@ EXCEPT !.status = s])]
    /\ UNCHANGED <<record, approver>>

SetManager(e, m) ==
    /\ Edit /\ employee[e] # None /\ employee[m] # None /\ e # m
    /\ employee' = [employee EXCEPT ![e].manager = m]
    /\ UNCHANGED <<record, approver>>

Attend(e) ==
    /\ Edit /\ employee[e] # None /\ record' = [record EXCEPT ![e, day] = "BY_HAND"]
    /\ UNCHANGED <<employee, approver>>

Appoint(e) ==
    /\ Edit /\ employee[e] # None /\ approver' = e
    /\ UNCHANGED <<employee, record>>

Next ==
    \/ \E reset \in BOOLEAN, done \in SUBSET Listed : Run(reset, done) \/ Fail(reset, done)
    \/ Tomorrow
    \/ \E e \in Emp : \/ Attend(e) \/ Appoint(e)
                      \/ \E s \in {"ACTIVE", "INACTIVE", "RESIGNED"} : SetStatus(e, s)
                      \/ \E m \in Emp : SetManager(e, m)

Spec == Init /\ [][Next]_vars

-----------------------------------------------------------------------------
\* Right after a run that was committed everybody on the list is there, with his
\* manager, his designation, attendance to date and, if Keycloak answered for
\* him, his account, even if an earlier run died after opening it; an account
\* that is entered is the employee's own and is there.
ListIsThere ==
    /\ ran.how \in {"plain", "reset"} => \A e \in Listed :
           /\ employee[e] # None /\ employee[e].designation = "list"
           /\ e # Boss => employee[e].manager = Boss
           /\ employee[e].active <=> employee[e].status # "INACTIVE"
           /\ e \in ran.done => employee[e].account = e
           /\ \A d \in 1 .. day : record[e, d] # None
    /\ \A e \in Emp : employee[e] # None /\ employee[e].account # None =>
           employee[e].account = e /\ e \in account

\* A run that fails changes no table.  One without --reset changes nobody who is
\* not on the list and no day recorded by hand but the known leave, and run again
\* at once it leaves attendance as it is.  One with --reset keeps the employees
\* with another code and their attendance, and not their designation.
RunsKeepHandsStep ==
    runs' # runs =>
        /\ ran'.how = "failed" => UNCHANGED <<employee, record>>
        /\ ran'.how = "plain" =>
               /\ \A e \in Others : employee'[e] = employee[e]
               /\ \A e \in Emp, d \in Day :
                      record[e, d] = "BY_HAND" => record'[e, d] = "BY_HAND" \/ d = LeaveDay
               /\ ran.how \in {"plain", "reset"} => record' = record
        /\ ran'.how = "reset" => \A e \in Others \ Coded :
               /\ employee'[e].status = employee[e].status
               /\ \A d \in Day : record'[e, d] = record[e, d]
RunsKeepHands == [][RunsKeepHandsStep]_vars
=============================================================================
