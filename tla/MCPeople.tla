-------------------------- MODULE MCPeople --------------------------
(***************************************************************************)
(* Instances for TLC of what is kept about an employee.  A behaviour is    *)
(* about one day's clock, about shifts and the switches that let people    *)
(* work at other times or at home, about the reports and cases of a        *)
(* month, or about a month's payroll, generated, also written by hand, or  *)
(* of every size; the other instances stay as they were.                   *)
(***************************************************************************)
EXTENDS Clock, TLC

CONSTANTS w1, w2

VARIABLES
  part,
  topicS, todayS, changeS, shiftsS, switchS, homeS, latestS, postedS, muddledS,
  teamS, reportS, caseS, dayS, outdatedS, refusedS, reqS,
  managerP, rateP, daysP, entryP, reqP, approvedP, excusedP,
  managerH, rateH, daysH, entryH, reqH, approvedH, excusedH,
  managerT, rateT, daysT, entryT, reqT, approvedT, excusedT

\* The clock of somebody without a shift, or with one that begins and ends late
\* in the day.
OneShift == {<< >>, <<2, 2>>}
OneUnit == [t \in BreakType |-> 1]
OneCorrection == {<<0, 1>>}

\* One request for a shift change, decided as often as anybody likes; the
\* switches; two cases about the same day; or a manager's report.
Asked == INSTANCE StaffRequests WITH
  Request <- {w1, w2}, Change <- {"c"}, Shift <- {"early", "late"}, LastDay <- 1, MaxRows <- 3,
  HandEnds <- {Unset}, Ranges <- {<<0, 1>>, <<1, 1>>}, Case <- {"c", "d"},
  Topics <- {"shift", "switch", "home", "report", "day"}, None <- Unset,
  topic <- topicS, today <- todayS, change <- changeS, shifts <- shiftsS,
  switch <- switchS, home <- homeS, latest <- latestS, posted <- postedS,
  muddled <- muddledS, team <- teamS, report <- reportS, case <- caseS, day <- dayS,
  outdated <- outdatedS, refused <- refusedS, req <- reqS

\* A day's pay, in a hierarchy of two who manage each other.
Payslip == INSTANCE Payroll WITH
  Request <- {w1, w2}, Person <- {"emp", "lead"}, Employee <- "emp",
  Hierarchies <- {[emp |-> "lead", lead |-> "emp"]}, Day <- {1}, Rates <- {60000},
  HandPays <- {}, None <- Unset,
  manager <- managerP, rate <- rateP, days <- daysP, entry <- entryP, req <- reqP,
  approved <- approvedP, excused <- excusedP

\* A payroll entry that may also be written by hand, with or without managers.
Written == INSTANCE Payroll WITH
  Request <- {w1, w2}, Person <- {"emp", "lead"}, Employee <- "emp",
  Hierarchies <- {[emp |-> Unset, lead |-> Unset], [emp |-> "lead", lead |-> "emp"]},
  Day <- {}, Rates <- {1}, HandPays <- {1}, None <- Unset,
  manager <- managerH, rate <- rateH, days <- daysH, entry <- entryH, req <- reqH,
  approved <- approvedH, excused <- excusedH

\* A day's pay at salaries that come just below, to and just above every
\* edge of the tax slabs, and into the middle of each; one request at a time,
\* and an employee whose manager column names themselves, so nobody approves.
Taxed == INSTANCE Payroll WITH
  Request <- {"w"}, Person <- {"emp", "lead"}, Employee <- "emp",
  Hierarchies <- {[emp |-> "emp", lead |-> Unset]}, Day <- {1},
  Rates <- {12500, 24999, 25000, 25001, 37499, 37500, 37501, 43750, 49999, 50000, 50001, 62500},
  HandPays <- {}, None <- Unset,
  manager <- managerT, rate <- rateT, days <- daysT, entry <- entryT, req <- reqT,
  approved <- approvedT, excused <- excusedT

askVars ==
  <<topicS, todayS, changeS, shiftsS, switchS, homeS, latestS, postedS, muddledS,
    teamS, reportS, caseS, dayS, outdatedS, refusedS, reqS>>
payVars == <<managerP, rateP, daysP, entryP, reqP, approvedP, excusedP>>
handVars == <<managerH, rateH, daysH, entryH, reqH, approvedH, excusedH>>
taxVars == <<managerT, rateT, daysT, entryT, reqT, approvedT, excusedT>>

PeopleInit ==
  /\ part \in {"clock", "ask", "pay", "hand", "tax"}
  /\ Init
  /\ Asked!Init
  /\ Payslip!Init
  /\ Written!Init
  /\ Taxed!Init
  /\ part # "clock" => ~ row.there /\ shift = << >>
  /\ part # "ask" => topicS = "shift" /\ shiftsS = << >>
  /\ part # "pay" => daysP[1] = "ABSENT"
  /\ part # "hand" => managerH["emp"] = Unset
  /\ part # "tax" => rateT = 25000 /\ daysT[1] = "ABSENT"

PeopleNext ==
  \/ part = "clock" /\ Next
     /\ UNCHANGED <<part, askVars, payVars, handVars, taxVars>>
  \/ part = "ask" /\ Asked!Next
     /\ UNCHANGED <<part, vars, payVars, handVars, taxVars>>
  \/ part = "pay" /\ Payslip!Next
     /\ UNCHANGED <<part, vars, askVars, handVars, taxVars>>
  \/ part = "hand" /\ Written!Next
     /\ UNCHANGED <<part, vars, askVars, payVars, taxVars>>
  \/ part = "tax" /\ Taxed!Next
     /\ UNCHANGED <<part, vars, askVars, payVars, handVars>>

PeopleSpec ==
  PeopleInit /\ [][PeopleNext]_<<part, vars, askVars, payVars, handVars, taxVars>>

Symmetry == Permutations({w1, w2})
----------------------------------------------------------------------------
\* What was decided last about shifts and switches is what rules:
\* StaffRequests!TypeOK, LastApprovalRules and SwitchIsObeyed.
LastDecisionRules == Asked!TypeOK /\ Asked!LastApprovalRules /\ Asked!SwitchIsObeyed

\* An approval stays and is carried out: StaffRequests!ApprovedReportStays and ApprovedIsOnTheDay.
ApprovalIsCarriedOut ==
  Asked!ApprovedReportStays /\ []Asked!ApprovedIsOnTheDay

\* The entry is what its month and its approver make it: Payroll!TypeOK,
\* FitsTheMonth, TaxIsProgressive, GeneratedAsPreviewed and ApprovedFromAbove.
PayslipIsRight ==
  /\ Payslip!TypeOK /\ Written!TypeOK
  /\ Taxed!TypeOK /\ Taxed!FitsTheMonth /\ Taxed!TaxIsProgressive /\ Taxed!GeneratedAsPreviewed
  /\ Payslip!FitsTheMonth /\ Payslip!TaxIsProgressive /\ Payslip!GeneratedAsPreviewed
  /\ Payslip!ApprovedFromAbove /\ Written!ApprovedFromAbove

\* Only what was approved is paid, and what is deleted stays deleted:
\* Payroll!PaidAsApproved and DeletedStays.
PaidOnlyAsApproved ==
  /\ Payslip!PaidAsApproved /\ Payslip!DeletedStays
  /\ Written!PaidAsApproved /\ Written!DeletedStays
=============================================================================
