----------------------------- MODULE Compliance -----------------------------
(***************************************************************************)
(* What employees have acknowledged: a compliance document carries its own *)
(* flag and is saved whole by whoever changes it; a policy has one row per *)
(* employee, made by get_or_create.  No view opens a transaction.          *)
(***************************************************************************)
EXTENDS Integers, FiniteSets

CONSTANTS Emp,          \* employees
          Policy, Paper,\* keys of policies and of compliance documents
          Req,          \* requests of more than one step, each used once
          None

VARIABLES policy,       \* PolicyDocument by key
          ack,          \* PolicyDocumentAcknowledgment rows
          paper,        \* HRComplianceDocument by key
          req

vars == <<policy, ack, paper, req>>

Versions == 1 .. 2

TypeOK ==
    /\ policy \in [Policy -> {None} \cup [version : Versions, published : BOOLEAN, gone : BOOLEAN]]
    /\ \A a \in ack : a.policy \in Policy /\ a.emp \in Emp /\ a.id \in Req
    /\ paper \in [Paper -> {None} \cup
           [emp : Emp, version : Versions, signed : BOOLEAN, gone : BOOLEAN]]
    /\ \A q \in Req : req[q].step \in
           {"new", "acknowledge", "replace", "sign", "correct", "done"}

Init ==
    /\ policy = [p \in Policy |-> None] /\ ack = {}
    /\ paper = [d \in Paper |-> None]
    /\ req = [q \in Req |-> [step |-> "new"]]

\* get(pk=..., is_deleted=False)
Found(table, k) == table[k] # None /\ ~table[k].gone

-----------------------------------------------------------------------------
(* Policies.                                                                *)

AddPolicy(p, shown) ==
    /\ policy[p] = None
    /\ policy' = [policy EXCEPT ![p] = [version |-> 1, published |-> shown, gone |-> FALSE]]
    /\ UNCHANGED <<ack, paper, req>>

\* patch of HR, up to the save.
LoadPolicy(q, p) ==
    /\ req[q].step = "new" /\ Found(policy, p)
    /\ req' = [req EXCEPT ![q] = [step |-> "replace", key |-> p, row |-> policy[p]]]
    /\ UNCHANGED <<policy, ack, paper>>

SavePolicy(q) ==
    /\ req[q].step = "replace"
    /\ \E v \in Versions, shown \in BOOLEAN :
           policy' = [policy EXCEPT ![req[q].key] =
               [req[q].row EXCEPT !.version = v, !.published = shown]]
    /\ req' = [req EXCEPT ![q] = [step |-> "done"]]
    /\ UNCHANGED <<ack, paper>>

DeletePolicy(p) ==
    /\ Found(policy, p)
    /\ policy' = [policy EXCEPT ![p].gone = TRUE]
    /\ UNCHANGED <<ack, paper, req>>

AckRows(p, e) == {a \in ack : a.policy = p /\ a.emp = e}

\* PolicyAcknowledgeView: a published policy is looked for,
LookForPolicy(q, e, p) ==
    /\ req[q].step = "new" /\ Found(policy, p) /\ policy[p].published
    /\ req' = [req EXCEPT ![q] = [step |-> "acknowledge", key |-> p, emp |-> e,
                                  row |-> AckRows(p, e)]]
    /\ UNCHANGED <<policy, ack, paper>>

\* Seeded fault: no constraint over policy and employee.
AcknowledgeTwice(q) ==
    /\ req[q].step = "acknowledge"
    /\ ack' = IF req[q].row # {} THEN ack
              ELSE ack \cup {[policy |-> req[q].key, emp |-> req[q].emp, id |-> q]}
    /\ req' = [req EXCEPT ![q] = [step |-> "done"]]
    /\ UNCHANGED <<policy, paper>>

\* then the row is got or created: an insert that the constraint refuses is
\* answered with the row that is there.
Acknowledge(q) ==
    /\ req[q].step = "acknowledge"
    /\ ack' = IF AckRows(req[q].key, req[q].emp) # {} THEN ack
              ELSE ack \cup {[policy |-> req[q].key, emp |-> req[q].emp, id |-> q]}
    /\ req' = [req EXCEPT ![q] = [step |-> "done"]]
    /\ UNCHANGED <<policy, paper>>

\* What the screens show of it.
PoliciesOf(hr) == {p \in Policy : Found(policy, p) /\ (hr \/ policy[p].published)}
AcknowledgedByMe(e) == {a.policy : a \in {b \in ack : b.emp = e}}
AcknowledgmentCount(p) == Cardinality({a \in ack : a.policy = p})
AcknowledgedBy(p) == {a.emp : a \in {b \in ack : b.policy = p}}

-----------------------------------------------------------------------------
(* Compliance documents.                                                    *)

AddPaper(d, e) ==
    /\ paper[d] = None
    /\ paper' = [paper EXCEPT ![d] = [emp |-> e, version |-> 1, signed |-> FALSE, gone |-> FALSE]]
    /\ UNCHANGED <<policy, ack, req>>

\* patch, up to the save: the employee of the document may change the flag,
\* HR whatever there is.
LoadPaper(q, step, d) ==
    /\ req[q].step = "new" /\ Found(paper, d)
    /\ req' = [req EXCEPT ![q] = [step |-> step, key |-> d, row |-> paper[d]]]
    /\ UNCHANGED <<policy, ack, paper>>

\* Seeded fault: nothing is dropped from what the employee sends.
SignAnything(q) ==
    /\ req[q].step = "sign"
    /\ \E s \in BOOLEAN, v \in Versions :
           paper' = [paper EXCEPT ![req[q].key] =
               [req[q].row EXCEPT !.signed = s, !.version = v]]
    /\ req' = [req EXCEPT ![q] = [step |-> "done"]]
    /\ UNCHANGED <<policy, ack>>

Sign(q) ==
    /\ req[q].step = "sign"
    /\ \E s \in BOOLEAN :
           paper' = [paper EXCEPT ![req[q].key] = [req[q].row EXCEPT !.signed = s]]
    /\ req' = [req EXCEPT ![q] = [step |-> "done"]]
    /\ UNCHANGED <<policy, ack>>

\* HR sends a new version, or another employee, or the flag.
Correct(q) ==
    /\ req[q].step = "correct"
    /\ \E v \in Versions, e \in Emp, s \in BOOLEAN :
           paper' = [paper EXCEPT ![req[q].key] =
               [req[q].row EXCEPT !.version = v, !.emp = e, !.signed = s]]
    /\ req' = [req EXCEPT ![q] = [step |-> "done"]]
    /\ UNCHANGED <<policy, ack>>

DeletePaper(d) ==
    /\ Found(paper, d)
    /\ paper' = [paper EXCEPT ![d].gone = TRUE]
    /\ UNCHANGED <<policy, ack, req>>

Next ==
    \/ \E p \in Policy : DeletePolicy(p) \/ \E shown \in BOOLEAN : AddPolicy(p, shown)
    \/ \E q \in Req, p \in Policy : LoadPolicy(q, p) \/ \E e \in Emp : LookForPolicy(q, e, p)
    \/ \E q \in Req : SavePolicy(q) \/ Acknowledge(q) \/ Sign(q) \/ Correct(q)
    \/ \E d \in Paper : DeletePaper(d) \/ \E e \in Emp : AddPaper(d, e)
    \/ \E q \in Req, step \in {"sign", "correct"}, d \in Paper : LoadPaper(q, step, d)

Spec == Init /\ [][Next]_vars

-----------------------------------------------------------------------------
\* The count beside a policy, the list of who acknowledged it and the flag each
\* employee sees say the same, whatever requests overlap (views.py:147-164,
\* 220-255).
CountsAgree ==
    \A p \in PoliciesOf(TRUE) :
        /\ AcknowledgmentCount(p) = Cardinality(AcknowledgedBy(p))
        /\ AcknowledgedBy(p) = {e \in Emp : p \in AcknowledgedByMe(e)}

\* An acknowledgment of a policy stays, through new versions and deletion.  The
\* version of a compliance document changes only by HR, or goes back to what
\* an employee had loaded before HR changed it (views.py:88-112).
PapersChangeStep ==
    /\ ack \subseteq ack'
    /\ \A d \in Paper : paper[d] # None /\ paper'[d] # paper[d] =>
           LET by == {q \in Req : req[q].step # "new" /\ req'[q].step = "done"
                                  /\ "key" \in DOMAIN req[q] /\ req[q].key = d}
           IN  paper'[d].version # paper[d].version =>
                   \E q \in by : req[q].step = "correct"
                                 \/ req[q].row.version = paper'[d].version
PapersChange == [][PapersChangeStep]_vars
=============================================================================
