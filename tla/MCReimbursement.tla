-------------------------- MODULE MCReimbursement --------------------------
(***************************************************************************)
(* Reimbursement for TLC.  A behaviour is about two bookings of one claim, *)
(* about a claim whose amount is edited, or about an expense that is       *)
(* entered by hand: each leaves out what the other two are about.          *)
(***************************************************************************)
EXTENDS Reimbursement, TLC

CONSTANTS w1, w2, c1, x1, x2

VARIABLE part  \* what the behaviour is about

Made == {e \in Expense : expense[e] # NoExpense}
ByHand == {e \in Made : expense[e].claim = None}

\* Room for a second booking, every row of the same amount.
Booking ==
  /\ ByHand = {}
  /\ \A c \in Claim : claim[c].amount # 2
  /\ \A e \in Expense : expense[e].amount # 2

\* A claim whose amount is edited, booked once at most.
Editing == ByHand = {} /\ Cardinality(Made) <= 1

\* An expense that is entered by hand, and no claim.
Entering == claim = [c \in Claim |-> NoClaim] /\ Cardinality(Made) <= 1

Within == CASE part = "booking" -> Booking
            [] part = "editing" -> Editing
            [] part = "entering" -> Entering

ClaimsInit == part \in {"booking", "editing", "entering"} /\ Init
ClaimsNext == Next /\ UNCHANGED part /\ Within'

ClaimsSpec == ClaimsInit /\ [][ClaimsNext]_<<part, vars>>

Symmetry == Permutations({w1, w2}) \cup Permutations({x1, x2})
=============================================================================
