-------------------------- MODULE LeaveLifecycle --------------------------
(***************************************************************************)
(* What leave management promises about one request at a time: it is       *)
(* submitted, decided once, perhaps withdrawn, and only an approval costs  *)
(* the employee anything, once.  LeaveLedger implements it as long as      *)
(* requests are served one after another (MCLeaveLedger, leave_serial).    *)
(***************************************************************************)
CONSTANT Leave       \* the requests that may be submitted

VARIABLES decision,   \* Leave -> NONE, PENDING, APPROVED, REJECTED, CANCELLED
          charged     \* the requests that have been charged to a balance

lifecycleVars == <<decision, charged>>

Init == decision = [l \in Leave |-> "NONE"] /\ charged = {}

Decide(l, from, to) ==
  /\ decision[l] = from
  /\ decision' = [decision EXCEPT ![l] = to]
  /\ UNCHANGED charged

Submit(l) == Decide(l, "NONE", "PENDING")
Settle(l) == \E to \in {"APPROVED", "REJECTED"} : Decide(l, "PENDING", to)
Withdraw(l) == \E from \in {"PENDING", "APPROVED"} : Decide(l, from, "CANCELLED")

Charge(l) ==
  /\ decision[l] = "APPROVED" /\ l \notin charged
  /\ charged' = charged \cup {l}
  /\ UNCHANGED decision

Next == \E l \in Leave : Submit(l) \/ Settle(l) \/ Withdraw(l) \/ Charge(l)

Spec == Init /\ [][Next]_lifecycleVars
=============================================================================
