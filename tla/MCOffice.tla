-------------------------- MODULE MCOffice --------------------------
(***************************************************************************)
(* Instances for TLC of what an office of the company keeps: notifications *)
(* and reminders and who gets them, accounts, conversations and posts,     *)
(* financial documents and quotations, leads that become clients, projects *)
(* and who is allocated to them, the figures of a year and of the          *)
(* portfolio, master data, entitlements, compliance, offboarding, and the  *)
(* commands that seed it all.  A behaviour is about one of them.           *)
(* ServicesSpec has what runs beside the requests and must get to its end, *)
(* under fairness; OfficeSpec has the rest.                                *)
(***************************************************************************)
EXTENDS Notifications, TLC

CONSTANTS w1, w2, clerk, syncer

VARIABLES
  part,  \* the instance the behaviour is about
  s1, s2, s3, s4, s5, s6, s7, s8, s9, s10, s11  \* its variables, in their order; 0 when it has fewer

\* Requests and a worker tell an event that a scan publishes twice, and one
\* that a task publishes later.
Events ==
  {[name |-> "scan", to |-> {1, 2}, actor |-> Nobody, key |-> "k", later |-> FALSE],
   [name |-> "again", to |-> {1, 2}, actor |-> Nobody, key |-> "k", later |-> FALSE],
   [name |-> "task", to |-> {1, 2}, actor |-> 1, key |-> Nobody, later |-> TRUE]}

\* Line items whose amounts are rounded, each and in the sum.
LineItems ==
  {<<[quantity |-> 150, rate |-> 333, gst |-> 18]>>,
   <<[quantity |-> 33, rate |-> 150, gst |-> 5], [quantity |-> 100, rate |-> 133, gst |-> 12]>>}

\* Two names with one slug, and one with none.
Slugs == [RnD |-> "r-d", Rd |-> "r-d", Ops |-> "ops", Vitta |-> ""]

\* A rule that ends, its successor, and one that overlaps them.
CarryRules ==
  {[from |-> 1, to |-> 1, carry |-> TRUE, limit |-> 1, total |-> 2],
   [from |-> 1, to |-> Nobody, carry |-> FALSE, limit |-> 0, total |-> 2],
   [from |-> 2, to |-> Nobody, carry |-> TRUE, limit |-> 0, total |-> 2]}

\* The sync of an employee and another account.
Mirror == INSTANCE Accounts WITH
  Account <- {1, 2}, Group <- {"g", "h"}, Request <- {w1}, Syncer <- {syncer},
  Status <- {"ACTIVE", "INACTIVE", "RESIGNED"}, MaxEdits <- 1, Start <- 1, None <- Nobody,
  row <- s1, kc <- s2, proc <- s3, edits <- s4, clash <- s5

\* A message that is edited, deleted and flagged.
Edits == INSTANCE ChatMessages WITH
  Process <- {w1, w2}, Worker <- {syncer}, Person <- {1, 2}, Message <- {"m"},
  Sender <- [m |-> 1], MaxOps <- 2, MaxReads <- 0, MaxNow <- 1, None <- Nobody,
  msg <- s1, file <- s2, shown <- s3, mark <- s4, queue <- s5, now <- s6, proc <- s7,
  count <- s8, excused <- s9

\* An item of each class, scanned twice.
Daily == INSTANCE Reminders WITH
  Scan <- {w1, w2}, Item <- {[a |-> k] : k \in {"ticket", "project", "invoice", "milestone", "followup"}},
  Person <- {1, 2}, Finance <- {2}, LastDay <- 2, MaxEdits <- 1,
  today <- s1, item <- s2, rows <- s3, scan <- s4, edits <- s5

\* An employee and another account, with two changes.
Logins == INSTANCE Accounts WITH
  Account <- {1, 2}, Group <- {"g"}, Request <- {clerk}, Syncer <- {syncer},
  Status <- {"ACTIVE", "INACTIVE", "RESIGNED"}, MaxEdits <- 2, Start <- 1, None <- Nobody,
  row <- s1, kc <- s2, proc <- s3, edits <- s4, clash <- s5

\* A message that is read.
Reads == INSTANCE ChatMessages WITH
  Process <- {w1, w2}, Worker <- {syncer}, Person <- {1, 2}, Message <- {"m"},
  Sender <- [m |-> 1], MaxOps <- 1, MaxReads <- 1, MaxNow <- 2, None <- Nobody,
  msg <- s1, file <- s2, shown <- s3, mark <- s4, queue <- s5, now <- s6, proc <- s7,
  count <- s8, excused <- s9

\* Three people, a direct conversation or a group.
Members == INSTANCE ChatMembers WITH
  Request <- {w1, w2}, Person <- {1, 2, 3}, Founder <- 1, Pair <- {1, 2, 3}, MaxOps <- 3,
  Topics <- {"direct", "group"},
  topic <- s1, direct <- s2, live <- s3, name <- s4, row <- s5, log <- s6, req <- s7,
  ops <- s8, excused <- s9

\* Documents of two types until the numbers get too wide.
Numbers == INSTANCE Documents WITH
  Request <- {w1, w2}, Type <- {"quotation", "receipt"},
  Lists <- {<<[quantity |-> 150, rate |-> 333, gst |-> 18]>>},
  Status <- {"draft", "accepted"}, Widest <- 2, MaxDocs <- 4,
  Quotation <- {}, Cost <- {}, Blank <- 0, MaxEdits <- 1,
  doc <- s1, row <- s2, edits <- s3, req <- s4, lost <- s5, stale <- s6, foreign <- s7, disturbed <- s8

\* One document, changed thrice.
Papers == INSTANCE Documents WITH
  Request <- {w1, w2}, Type <- {"quotation", "receipt"}, Lists <- LineItems,
  Status <- {"draft", "accepted"}, Widest <- 2, MaxDocs <- 1,
  Quotation <- {}, Cost <- {}, Blank <- 0, MaxEdits <- 3,
  doc <- s1, row <- s2, edits <- s3, req <- s4, lost <- s5, stale <- s6, foreign <- s7, disturbed <- s8

\* Three sales quotations.
Quotes == INSTANCE Documents WITH
  Request <- {w1, w2}, Type <- {}, Lists <- {}, Status <- {}, Widest <- 0, MaxDocs <- 0,
  Quotation <- {"q1", "q2", "q3"}, Cost <- {0, 25}, Blank <- 0, MaxEdits <- 2,
  doc <- s1, row <- s2, edits <- s3, req <- s4, lost <- s5, stale <- s6, foreign <- s7, disturbed <- s8

\* A lead that is saved up to twice, and a client or a deal once by hand.
Leads == INSTANCE Conversion WITH
  Request <- {w1, w2}, Lead <- {"lead"}, Employee <- {1}, Amount <- {0, 5}, MaxSaves <- 2,
  MaxHands <- 1, lead <- s1, client <- s2, deal <- s3, req <- s4, saves <- s5, hands <- s6, excused <- s7

\* Three allocations of one employee: two parts make just 100.01 %.
Shares == INSTANCE Projects WITH
  Request <- {w1, w2}, Topics <- {"staff"}, MaxRows <- 3, LastDay <- 2, Percent <- {4001, 6000},
  Ticket <- {}, Manager <- {1}, First <- "enquiry", Final <- {}, Moves <- {}, MaxEdits <- 1,
  row <- s1, project <- s2, ticket <- s3, told <- s4, req <- s5, edits <- s6, excused <- s7

\* A project with a ticket, which may be opened again.
Running == INSTANCE Projects WITH
  Request <- {w1, w2}, Topics <- {"project"}, MaxRows <- 0, LastDay <- 0, Percent <- {},
  Ticket <- {"t"}, Manager <- {1, 2}, First <- "enquiry", Final <- {"closed"},
  Moves <- {<<"enquiry", "running">>, <<"running", "closed">>, <<"closed", "running">>}, MaxEdits <- 4,
  row <- s1, project <- s2, ticket <- s3, told <- s4, req <- s5, edits <- s6, excused <- s7

\* A master table of two rows, and the approver of claims.
Tables == INSTANCE Masters WITH
  Row <- {1, 2}, Name <- {"RnD", "Rd", "Ops", "Vitta"}, SlugOf <- Slugs, NoSlug <- "", Emp <- {3, 4},
  Thread <- {w1, w2}, MaxRenames <- 2, None <- Nobody,
  table <- s1, config <- s2, active <- s3, pc <- s4, job <- s5, last <- s6,
  renames <- s7

\* Three years of one employee under three rules.
Days == INSTANCE Entitlements WITH
  Emp <- {1}, Year <- {1, 2, 3}, Fixed <- {1}, Amounts <- {1, 3}, MaxDays <- 2, StdDays <- 2,
  Rules <- CarryRules, Req <- {clerk}, MaxOps <- 4, None <- Nobody,
  bal <- s1, rules <- s2, carried <- s3, stale <- s4, revised <- s5, job <- s6, ops <- s7

\* An employee who asks, two others and two projects.
Heard == INSTANCE Audience WITH
  Emp <- {"asks", "other", "third"}, Who <- "asks", Project <- {w1, w2}, MaxEdits <- 5,
  Nobody <- Nobody,
  manager <- s1, active <- s2, group <- s3, projectMan <- s4, dropped <- s5,
  allocated <- s6, logged <- s7, approver <- s8, edits <- s9

\* A post that two people like and comment on.
Wall == INSTANCE Feed WITH
  User <- {1, 2}, Req <- {w1, w2}, MaxOps <- 3, MaxComments <- 2,
  post <- s1, likes <- s2, comments <- s3, req <- s4, ops <- s5

\* A policy and a document of two employees.
Signed == INSTANCE Compliance WITH
  Emp <- {1, 2}, Policy <- {"p"}, Paper <- {"d"}, Req <- {w1, w2}, None <- Nobody,
  policy <- s1, ack <- s2, paper <- s3, req <- s4

\* An employee who leaves, and one of the staff.
Exit == INSTANCE Offboarding WITH
  Emp <- {1, 2}, Staff <- {2}, Rec <- {"r"}, Doc <- {"d"}, Req <- {w1, w2}, MaxTold <- 1,
  None <- Nobody,
  record <- s1, form <- s2, item <- s3, document <- s4, req <- s5, told <- s6,
  owned <- s7, active <- s8

\* Three runs of the finance seed over three days, two changes by hand.
Demo == INSTANCE SeedFinance WITH
  MaxDay <- 3, MaxRuns <- 3, MaxEdits <- 2,
  day <- s1, runs <- s2, edits <- s3, client <- s4, project <- s5, document <- s6,
  milestone <- s7, invoice <- s8, collected <- s9, expense <- s10, asLeft <- s11

\* Three runs of the employee seed over two days, one change by hand.
List == INSTANCE SeedPeople WITH
  Listed <- {1, 2}, Others <- {3, 4}, Coded <- {3}, Boss <- 1, MaxDay <- 2, LeaveDay <- 2,
  MaxRuns <- 3, MaxEdits <- 1, None <- Nobody,
  day <- s1, runs <- s2, edits <- s3, employee <- s4, record <- s5, account <- s6,
  approver <- s7, ran <- s8

\* Two invoices of a project and a payment over three months and the turn of
\* a year.
Money == INSTANCE Figures WITH
  Day <- 1 .. 4, MonthOf <- <<1, 1, 2, 3>>, YearOf <- <<1, 1, 2>>, MondayOf <- <<0, 2, 2, 4>>,
  Invoice <- {w1, w2}, Payment <- {"p1"}, Log <- {}, Estimate <- << >>,
  Amounts <- {1, 2}, Project <- {"prj"}, Ticket <- {}, Of <- << >>, Begins <- 1, Slugs <- {"ongoing", "close"},
  MaxSteps <- 3, None <- Nobody,
  invoice <- s1, payment <- s2, share <- s3, log <- s4, project <- s5, ticket <- s6, today <- s7,
  steps <- s8

\* Two work logs over as many months, with weeks that straddle them.
Worked == INSTANCE Figures WITH
  Day <- 1 .. 6, MonthOf <- <<1, 1, 2, 2, 3, 3>>, YearOf <- <<1, 1, 2>>,
  MondayOf <- <<0, 2, 2, 2, 5, 5>>, Invoice <- {}, Payment <- {}, Log <- {w1, w2},
  Estimate <- [x |-> 6, y |-> 12], Amounts <- {1, 3},
  Project <- {}, Ticket <- {}, Of <- << >>, Begins <- 1, Slugs <- {}, MaxSteps <- 4, None <- Nobody,
  invoice <- s1, payment <- s2, share <- s3, log <- s4, project <- s5, ticket <- s6, today <- s7,
  steps <- s8

\* A project of two tickets around its due date.
Items == INSTANCE Figures WITH
  Day <- {1, 8, 10, 11}, MonthOf <- [d \in 1 .. 11 |-> 1], YearOf <- <<1>>, MondayOf <- [d \in 1 .. 11 |-> 1],
  Invoice <- {}, Payment <- {}, Log <- {}, Estimate <- << >>, Amounts <- {},
  Project <- {"p"}, Ticket <- {w1, w2}, Of <- [t \in {w1, w2} |-> "p"],
  Begins <- 1, Slugs <- {"enquiry", "followup", "ongoing", "close", "onhold"},
  MaxSteps <- 3, None <- Nobody,
  invoice <- s1, payment <- s2, share <- s3, log <- s4, project <- s5, ticket <- s6, today <- s7,
  steps <- s8

otherVars == <<s1, s2, s3, s4, s5, s6, s7, s8, s9, s10, s11>>

allVars == <<part, vars, otherVars>>

ServicesInit ==
  /\ Init
  /\ \/ part = "notice" /\ s1 = 0 /\ s2 = 0 /\ s3 = 0 /\ s4 = 0 /\ s5 = 0 /\ s6 = 0 /\ s7 = 0 /\ s8 = 0 /\ s9 = 0 /\ s10 = 0 /\ s11 = 0
     \/ part = "mirror" /\ Mirror!Init /\ active = Person /\ s6 = 0 /\ s7 = 0 /\ s8 = 0 /\ s9 = 0 /\ s10 = 0 /\ s11 = 0
     \/ part = "edits" /\ Edits!Init /\ active = Person /\ s10 = 0 /\ s11 = 0

ServicesNext ==
  \/ part = "notice" /\ Next /\ UNCHANGED <<part, otherVars>>
  \/ part = "mirror" /\ Mirror!Next /\ UNCHANGED <<part, vars, s6, s7, s8, s9, s10, s11>>
  \/ part = "edits" /\ Edits!Next /\ UNCHANGED <<part, vars, s10, s11>>

ServicesSpec == ServicesInit /\ [][ServicesNext]_allVars

\* The fairness of Notifications, Accounts and ChatMessages, of the part the
\* behaviour is about: what was begun goes on, and the sync is begun.
GoesOn(p) ==
  \/ part = "notice" /\ Works(p) /\ UNCHANGED <<part, otherVars>>
  \/ part = "mirror" /\ p # w2 /\ Mirror!Works(p) /\ UNCHANGED <<part, vars, s6, s7, s8, s9, s10, s11>>
  \/ part = "edits" /\ Edits!Works(p) /\ UNCHANGED <<part, vars, s10, s11>>

FairSpec ==
  /\ ServicesSpec
  /\ \A p \in {w1, w2, syncer} : WF_allVars(GoesOn(p))
  /\ WF_allVars(part = "mirror" /\ Mirror!Begin(syncer) /\ UNCHANGED <<part, vars, s6, s7, s8, s9, s10, s11>>)

OfficeInit ==
  /\ Init /\ active = Person
  /\ \/ part = "remind" /\ Daily!Init /\ s6 = 0 /\ s7 = 0 /\ s8 = 0 /\ s9 = 0 /\ s10 = 0 /\ s11 = 0
     \/ part = "account" /\ Logins!Init /\ s6 = 0 /\ s7 = 0 /\ s8 = 0 /\ s9 = 0 /\ s10 = 0 /\ s11 = 0
     \/ part = "reads" /\ Reads!Init /\ s10 = 0 /\ s11 = 0
     \/ part = "members" /\ Members!Init /\ s10 = 0 /\ s11 = 0
     \/ part = "numbers" /\ Numbers!Init /\ s9 = 0 /\ s10 = 0 /\ s11 = 0
     \/ part = "document" /\ Papers!Init /\ s9 = 0 /\ s10 = 0 /\ s11 = 0
     \/ part = "quote" /\ Quotes!Init /\ s9 = 0 /\ s10 = 0 /\ s11 = 0
     \/ part = "lead" /\ Leads!Init /\ s8 = 0 /\ s9 = 0 /\ s10 = 0 /\ s11 = 0
     \/ part = "share" /\ Shares!Init /\ s8 = 0 /\ s9 = 0 /\ s10 = 0 /\ s11 = 0
     \/ part = "project" /\ Running!Init /\ s8 = 0 /\ s9 = 0 /\ s10 = 0 /\ s11 = 0
     \/ part = "masters" /\ Tables!Init /\ s8 = 0 /\ s9 = 0 /\ s10 = 0 /\ s11 = 0
     \/ part = "days" /\ Days!Init /\ s8 = 0 /\ s9 = 0 /\ s10 = 0 /\ s11 = 0
     \/ part = "audience" /\ Heard!Init /\ s10 = 0 /\ s11 = 0
     \/ part = "feed" /\ Wall!Init /\ s6 = 0 /\ s7 = 0 /\ s8 = 0 /\ s9 = 0 /\ s10 = 0 /\ s11 = 0
     \/ part = "papers" /\ Signed!Init /\ s5 = 0 /\ s6 = 0 /\ s7 = 0 /\ s8 = 0 /\ s9 = 0 /\ s10 = 0 /\ s11 = 0
     \/ part = "exit" /\ Exit!Init /\ s9 = 0 /\ s10 = 0 /\ s11 = 0
     \/ part = "seedmoney" /\ Demo!Init
     \/ part = "seedpeople" /\ List!Init /\ s9 = 0 /\ s10 = 0 /\ s11 = 0
     \/ part = "money" /\ Money!Init /\ s9 = 0 /\ s10 = 0 /\ s11 = 0
     \/ part = "worked" /\ Worked!Init /\ s9 = 0 /\ s10 = 0 /\ s11 = 0
     \/ part = "items" /\ Items!Init /\ s9 = 0 /\ s10 = 0 /\ s11 = 0

OfficeNext ==
  \/ part = "remind" /\ Daily!Next /\ UNCHANGED <<part, vars, s6, s7, s8, s9, s10, s11>>
  \/ part = "account" /\ Logins!Next /\ UNCHANGED <<part, vars, s6, s7, s8, s9, s10, s11>>
  \/ part = "reads" /\ Reads!Next /\ UNCHANGED <<part, vars, s10, s11>>
  \/ part = "members" /\ Members!Next /\ UNCHANGED <<part, vars, s10, s11>>
  \/ part = "numbers" /\ Numbers!Next /\ UNCHANGED <<part, vars, s9, s10, s11>>
  \/ part = "document" /\ Papers!Next /\ UNCHANGED <<part, vars, s9, s10, s11>>
  \/ part = "quote" /\ Quotes!Next /\ UNCHANGED <<part, vars, s9, s10, s11>>
  \/ part = "lead" /\ Leads!Next /\ UNCHANGED <<part, vars, s8, s9, s10, s11>>
  \/ part = "share" /\ Shares!Next /\ UNCHANGED <<part, vars, s8, s9, s10, s11>>
  \/ part = "project" /\ Running!Next /\ UNCHANGED <<part, vars, s8, s9, s10, s11>>
  \/ part = "masters" /\ Tables!Next /\ UNCHANGED <<part, vars, s8, s9, s10, s11>>
  \/ part = "days" /\ Days!Next /\ UNCHANGED <<part, vars, s8, s9, s10, s11>>
  \/ part = "audience" /\ Heard!Next /\ UNCHANGED <<part, vars, s10, s11>>
  \/ part = "feed" /\ Wall!Next /\ UNCHANGED <<part, vars, s6, s7, s8, s9, s10, s11>>
  \/ part = "papers" /\ Signed!Next /\ UNCHANGED <<part, vars, s5, s6, s7, s8, s9, s10, s11>>
  \/ part = "exit" /\ Exit!Next /\ UNCHANGED <<part, vars, s9, s10, s11>>
  \/ part = "seedmoney" /\ Demo!Next /\ UNCHANGED <<part, vars>>
  \/ part = "seedpeople" /\ List!Next /\ UNCHANGED <<part, vars, s9, s10, s11>>
  \/ part = "money" /\ Money!Next /\ UNCHANGED <<part, vars, s9, s10, s11>>
  \/ part = "worked" /\ Worked!Next /\ UNCHANGED <<part, vars, s9, s10, s11>>
  \/ part = "items" /\ Items!Next /\ UNCHANGED <<part, vars, s9, s10, s11>>

OfficeSpec == OfficeInit /\ [][OfficeNext]_allVars

Symmetry == Permutations({w1, w2})
----------------------------------------------------------------------------
\* Reminders are of what is due, all of it: Reminders!TypeOK,
\* DueIsTold and NoFalseAlarm; and who is told may act on it: Audience!ToldMayDecide
\* and TheRightAreTold.
RemindedOfWhatIsDue ==
  /\ [](part = "remind" => Daily!TypeOK)
  /\ [][part = "remind" => Daily!DueIsToldStep /\ Daily!NoFalseAlarmStep]_allVars
  /\ [](part = "audience" => Heard!TypeOK /\ Heard!ToldMayDecide /\ Heard!TheRightAreTold)

\* Employees are who HR and Keycloak say: Accounts!TypeOK, CodesDiffer,
\* OnlyTheGoneAreSwept and OnlyTheCeoReactivates.
EmployeesStay ==
  /\ [](part = "account" => Logins!TypeOK /\ Logins!CodesDiffer)
  /\ [][part = "account" => Logins!OnlyTheGoneAreSweptStep /\ Logins!OnlyTheCeoReactivatesStep]_allVars

\* A conversation is its members', and read as far as they read it:
\* ChatMembers!TypeOK, DirectIsTheirs, LogTells, AdminsManage and DeletedStays, and
\* ChatMessages!TypeOK and ReadWasThere; the counters of a post are put right by
\* whoever is alone with it: Feed!TypeOK and AloneIsNoWorse.
ConversationsAgree ==
  /\ [](part = "members" => Members!TypeOK /\ Members!DirectIsTheirs /\ Members!LogTells)
  /\ [](part = "reads" => Reads!TypeOK /\ Reads!ReadWasThere)
  /\ [][part = "members" => Members!AdminsManageStep /\ Members!DeletedStaysStep]_allVars
  /\ [](part = "feed" => Wall!TypeOK)
  /\ [][part = "feed" => Wall!AloneIsNoWorseStep]_allVars


\* A lead that is saved as won is one client with one deal, unless hands made a
\* second: Conversion!OneClient, Converted and DealStays.
LeadsConvert ==
  [][part = "lead" => Leads!OneClientStep /\ Leads!ConvertedStep /\ Leads!DealStaysStep]_allVars


\* What has been entered lasts, whoever enters something after it: Masters!TableIsKeyed,
\* LastApproverStands and SlugsLast, Entitlements!CarriedWasLeft, CarriedByRule and
\* UsedStays, Compliance!CountsAgree and PapersChange, Offboarding!OneOfEach, ToldOnce and
\* DeletedStays, SeedFinance!SeedsAddUp and AgainIsNothing, SeedPeople!ListIsThere
\* and RunsKeepHands.
RecordsLast ==
  /\ [](part = "masters" => Tables!TypeOK /\ Tables!TableIsKeyed /\ Tables!LastApproverStands)
  /\ [](part = "days" => Days!TypeOK /\ Days!CarriedWasLeft /\ Days!CarriedByRule)
  /\ [](part = "papers" => Signed!TypeOK /\ Signed!CountsAgree)
  /\ [](part = "exit" => Exit!TypeOK /\ Exit!OneOfEach /\ Exit!ToldOnce)
  /\ [](part = "seedmoney" => Demo!TypeOK /\ Demo!SeedsAddUp)
  /\ [](part = "seedpeople" => List!TypeOK /\ List!ListIsThere)
  /\ [][/\ part = "masters" => Tables!SlugsLastStep
        /\ part = "days" => Days!UsedStaysStep
        /\ part = "papers" => Signed!PapersChangeStep
        /\ part = "exit" => Exit!DeletedStaysStep
        /\ part = "seedmoney" => Demo!AgainIsNothingStep
        /\ part = "seedpeople" => List!RunsKeepHandsStep]_allVars

\* The sync makes employees and accounts agree: Accounts!TypeOK and
\* Mirrored.
AccountsAreMirrored ==
  [](part = "mirror" => Mirror!TypeOK) /\ <>[](part = "mirror" => Mirror!Agree)

\* A message is shown as it is, its attachment when it is clean: ChatMessages!
\* TypeOK, ShownIsCurrent, OnlyCleanFiles, DeletedForGood and ScanEnds.
MessagesAreTrue ==
  /\ [](part = "edits" => Edits!TypeOK /\ Edits!ShownIsCurrent /\ Edits!OnlyCleanFiles)
  /\ [][part = "edits" => Edits!DeletedForGoodStep]_allVars
  /\ part = "edits" /\ Edits!Queued("m") ~> part = "edits" /\ Edits!Scanned("m")
=============================================================================
