--------------------------- MODULE MCLeaveLedger ---------------------------
(***************************************************************************)
(* Instances of LeaveLedger for TLC: an employee with two requests on one  *)
(* balance and a chief executive with one request on another.              *)
(***************************************************************************)
EXTENDS LeaveLedger, TLC

CONSTANTS emp, boss, l1, l2, l3, b1, b2, w1, w2

MCOwner == [l \in Leave |-> IF l = l3 THEN boss ELSE emp]
MCMayReview == [l \in Leave |-> Person]
MCBalanceOf == [l \in Leave |-> IF l = l3 THEN b2 ELSE b1]
MCMaxDays == [b \in Balance |-> IF b = b1 THEN 2 ELSE 0]
MCDaysCount == [l \in Leave |-> 1]
MCDates == [l \in Leave |-> IF l = l2 THEN {LastDay} ELSE Day]
MCCorrections == {<<emp, 1, "ABSENT", FALSE>>, <<emp, 1, "HALF_DAY", TRUE>>}
Threads == Permutations(Request)
=============================================================================
