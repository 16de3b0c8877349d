----------------------------- MODULE MCBilling -----------------------------
(***************************************************************************)
(* Instances of Billing for TLC.  A behaviour is about a milestone, its    *)
(* invoices and their one payment, with the milestone edited and invoices  *)
(* deleted, or with the keys of invoices and of the allocation edited and  *)
(* the payment deleted; about the budget, planned by two milestones or     *)
(* billed by two invoices, which are edited; or about two                  *)
(* payments received for one invoice, in amounts of one and two paise      *)
(* taxed by one, so that the tolerance of one paisa decides.  The rows of  *)
(* the instances it is not about stay as they were.                        *)
(***************************************************************************)
EXTENDS Billing, TLC

CONSTANTS
  w1, w2, x1, x2, y1, y2, m1, p1, a1,  \* rows, whatever they are in each instance
  Parts  \* which of "paid", "moved", "plans", "bills" and "receipts" a run looks at

VARIABLES
  part,
  milestoneB, milestoneI, invoiceI, invoiceB, paymentB, allocationB, reqB, lateB,
  milestoneR, invoiceR, paymentR, allocationR, reqR, lateR

MCNoTax == [a \in Amount |-> 0]
MCTax == [a \in Amount |-> 1]

\* The rows of this module, with the other keys edited and deleted.
Moved == INSTANCE Billing WITH Edited <- {y1, y2, a1}, Removed <- {p1}

\* A budget of two paise and its tolerance, planned and billed, ...
Plans == INSTANCE Billing WITH
  Milestone <- {x1, x2}, Invoice <- {m1}, Payment <- {}, Allocation <- {},
  Amount <- {1, 2}, Edited <- {x1, x2}, Removed <- {}, Tax <- [a \in {1, 2} |-> 0],
  Budget <- 2, MaxEntries <- 0,
  milestone <- milestoneB, invoice <- invoiceB, payment <- paymentB,
  allocation <- allocationB, req <- reqB, late <- lateB

\* ... and billed again, with a milestone or without.
Bills == INSTANCE Billing WITH
  Milestone <- {m1}, Invoice <- {x1, x2}, Payment <- {}, Allocation <- {},
  Amount <- {1, 2}, Edited <- {x1, x2}, Removed <- {}, Tax <- [a \in {1, 2} |-> 0],
  Budget <- 2, MaxEntries <- 0,
  milestone <- milestoneI, invoice <- invoiceI, payment <- paymentB,
  allocation <- allocationB, req <- reqB, late <- lateB

\* One taxed invoice, and two payments to allocate to it.
Receipts == INSTANCE Billing WITH
  Milestone <- {}, Invoice <- {m1}, Payment <- {x1, x2}, Allocation <- {y1, y2},
  Amount <- {1, 2}, Edited <- {x1, x2, y1, y2}, Removed <- {}, Tax <- [a \in {1, 2} |-> 1],
  Budget <- 4, MaxEntries <- 2,
  milestone <- milestoneR, invoice <- invoiceR, payment <- paymentR,
  allocation <- allocationR, req <- reqR, late <- lateR

budgetVars == <<milestoneB, milestoneI, invoiceI, invoiceB, paymentB, allocationB, reqB, lateB>>
receiptVars == <<milestoneR, invoiceR, paymentR, allocationR, reqR, lateR>>

BillingInit == part \in Parts /\ Init /\ Plans!Init /\ Bills!Init /\ Receipts!Init

BillingNext ==
  \/ part = "paid" /\ Next /\ UNCHANGED <<part, budgetVars, receiptVars>>
  \/ part = "moved" /\ Moved!Next /\ UNCHANGED <<part, budgetVars, receiptVars>>
  \/ part = "plans" /\ Plans!Next /\ UNCHANGED <<part, vars, milestoneI, invoiceI, receiptVars>>
  \/ part = "bills" /\ Bills!Next /\ UNCHANGED <<part, vars, milestoneB, invoiceB, receiptVars>>
  \/ part = "receipts" /\ Receipts!Next /\ UNCHANGED <<part, vars, budgetVars>>

BillingSpec == BillingInit /\ [][BillingNext]_<<part, vars, budgetVars, receiptVars>>

Symmetry == UNION {Permutations(S) : S \in {{w1, w2}, {x1, x2}, {y1, y2}}}
----------------------------------------------------------------------------
\* Nothing is asked for, received or given out beyond what there is, of a budget
\* that two milestones and two invoices share and of two payments of one invoice:
\* Billing!BudgetKept, ReceiptsWithinTotal and AllocationsWithinPayment.
WithinAmounts ==
  /\ Plans!BudgetKept /\ Bills!BudgetKept
  /\ Receipts!ReceiptsWithinTotal /\ Receipts!AllocationsWithinPayment
=============================================================================
