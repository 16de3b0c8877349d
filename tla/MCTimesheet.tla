---------------------------- MODULE MCTimesheet ----------------------------
(***************************************************************************)
(* Instances of Timesheet for TLC.  A behaviour is either one week's, with *)
(* two requests, a reviewer and entries e1 of a project the reviewer       *)
(* manages and e2 of one nobody manages; or two weeks', where an entry     *)
(* moves between the sheets and nobody reviews; or that of one of the      *)
(* screens that attendance, the chart and the sheets feed.                 *)
(***************************************************************************)
EXTENDS Timesheet, TLC

CONSTANTS w1, w2, e1, e2, d1, pm, q1, q2,
  nobody,
  Parts  \* which instances a run looks at

VARIABLES
  part,
  s1, s2, s3, s4, s5, s6, s7, s8, s9, s10, s11, s12  \* the variables of any other
                                                     \* instance; 0 when it has fewer

MCManages == [r \in Reviewer |-> IF r = pm THEN {e1} \cap Log ELSE {}]
MCMayLog == Log \X OpenDays

\* Two weeks of one day, and an entry that moves between them.
Weeks == INSTANCE Timesheet WITH
  Log <- {d1}, LastWeek <- 2, OpenDays <- {1, 2}, Reviewer <- {}, Trusted <- {},
  MayLog <- {d1} \X {1, 2}, Manages <- << >>,
  sheet <- s1, log <- s2, thisWeek <- s3, req <- s4, late <- s5,
  behind <- s6, raced <- s7, drifted <- s8, unaudited <- s9

\* Two employees with two leave requests, a working day and a Saturday.
Screens == INSTANCE DayViews WITH
  Emp <- {w1, w2}, Req <- {q1, q2}, Day <- {1, 2}, Weekend <- {2},
  ByHand <- {"ABSENT", "HALF_DAY", "ON_LEAVE"}, MaxEdits <- 1, None <- nobody,
  rec <- s1, leave <- s2, active <- s3, holiday <- s4, today <- s5, edits <- s6

\* Three people, one of whom leads a project.
Chart == INSTANCE OrgChart WITH
  Emp <- {1, 2, 3}, Ceo <- 1, Lead <- 2, MaxLed <- 1, MaxAsked <- 1, Nobody <- nobody,
  manager <- s1, status <- s2, active <- s3, led <- s4, pending <- s5

\* Two tickets over three days, two of them in the week, and three reviewers.
Offers == INSTANCE TimesheetRules WITH
  Day <- {1, 2, 3}, Week <- {2, 3}, Shift <- TRUE, Employed <- {1, 2, 3}, Ticket <- {"t1", "t2"},
  Project <- {"p", "q"}, Of <- [t1 |-> "p", t2 |-> "q"], Task <- {"t1", "t2"},
  Reviewer <- {"pm", "hr", "boss"}, Staff <- {"hr"}, Managed <- [pm |-> {"p"}, hr |-> {}, boss |-> {}],
  Reports <- {"boss"}, Quarters <- {0, 12, 13}, Request <- {}, Capacity <- {9}, MaxEdits <- 3,
  None <- nobody,
  att <- s1, leave <- s2, holiday <- s3, alloc <- s4, ticket <- s5, sheet <- s6,
  logs <- s7, config <- s8, asked <- s9, wanted <- s10, raced <- s11, edits <- s12

\* Two requests for the configuration.
Capacities == INSTANCE TimesheetRules WITH
  Day <- {1}, Week <- {1}, Shift <- TRUE, Employed <- {1}, Ticket <- {}, Project <- {},
  Of <- << >>, Task <- {}, Reviewer <- {}, Staff <- {}, Managed <- << >>, Reports <- {},
  Quarters <- {0}, Request <- {w1, w2}, Capacity <- {9}, MaxEdits <- 4, None <- nobody,
  att <- s1, leave <- s2, holiday <- s3, alloc <- s4, ticket <- s5, sheet <- s6,
  logs <- s7, config <- s8, asked <- s9, wanted <- s10, raced <- s11, edits <- s12

others == <<s1, s2, s3, s4, s5, s6, s7, s8, s9, s10, s11, s12>>
allVars == <<part, vars, others>>

SheetsInit ==
  /\ part \in Parts /\ Init
  /\ \/ part = "week"
        /\ s1 = 0 /\ s2 = 0 /\ s3 = 0 /\ s4 = 0 /\ s5 = 0 /\ s6 = 0 /\ s7 = 0 /\ s8 = 0 /\ s9 = 0 /\ s10 = 0 /\ s11 = 0 /\ s12 = 0
     \/ part = "weeks" /\ Weeks!Init
        /\ s10 = 0 /\ s11 = 0 /\ s12 = 0
     \/ part = "views" /\ Screens!Init
        /\ s7 = 0 /\ s8 = 0 /\ s9 = 0 /\ s10 = 0 /\ s11 = 0 /\ s12 = 0
     \/ part = "chart" /\ Chart!Init
        /\ s6 = 0 /\ s7 = 0 /\ s8 = 0 /\ s9 = 0 /\ s10 = 0 /\ s11 = 0 /\ s12 = 0
     \/ part = "offers" /\ Offers!Init
     \/ part = "capacity" /\ Capacities!Init

SheetsNext ==
  \/ part = "week" /\ Next /\ UNCHANGED <<part, others>>
  \/ part = "weeks" /\ Weeks!Next /\ UNCHANGED <<part, vars, s10, s11, s12>>
  \/ part = "views" /\ Screens!Next /\ UNCHANGED <<part, vars, s7, s8, s9, s10, s11, s12>>
  \/ part = "chart" /\ Chart!Next /\ UNCHANGED <<part, vars, s6, s7, s8, s9, s10, s11, s12>>
  \/ part = "offers" /\ Offers!Next /\ UNCHANGED <<part, vars>>
  \/ part = "capacity" /\ Capacities!Next /\ UNCHANGED <<part, vars>>

SheetsSpec == SheetsInit /\ [][SheetsNext]_allVars

Symmetry == Permutations({w1, w2}) \cup Permutations({q1, q2})
----------------------------------------------------------------------------
\* An entry that moves between two weeks leaves both as they should be:
\* Timesheet!SheetAgrees, with NeverOnALaterSheet, and Timesheet!Sealed.
WeeksAgree ==
  /\ [](part = "weeks" => Weeks!SheetAgrees)
  /\ [][part = "weeks" => /\ Weeks!NoLateEntryStep
                         /\ Weeks!SealedUnlessRacedStep /\ Weeks!StatusMovesStep]_allVars

\* Screens that answer one question give one answer: DayViews!LeaveIsVisible,
\* MonthsAgree and HeadsAreCountedOnce, OrgChart!WalksAgree and ButtonsWork.  What is
\* offered, missing, pending and flagged is what is there: TimesheetRules!
\* OfferedIsAccepted, MissingAgrees, PendingIsQueued, FlagsAreRight and CapacityIsSet.
ScreensAgree ==
  /\ part = "views" => /\ Screens!TypeOK /\ Screens!LeaveIsVisible
                       /\ Screens!MonthsAgree /\ Screens!HeadsAreCountedOnce
  /\ part = "chart" => Chart!TypeOK /\ Chart!WalksAgree /\ Chart!ButtonsWork
  /\ part = "offers" => /\ Offers!TypeOK /\ Offers!OfferedIsAccepted /\ Offers!MissingAgrees
                        /\ Offers!PendingIsQueued /\ Offers!FlagsAreRight
  /\ part = "capacity" => Capacities!TypeOK /\ Capacities!CapacityIsSet
=============================================================================
