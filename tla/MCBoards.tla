------------------------------ MODULE MCBoards ------------------------------
(***************************************************************************)
(* Instances of Workflow and Tickets for TLC.  A behaviour is one of the   *)
(* boards', of a ticket and its child, of one ticket that changes hands    *)
(* while a state is deleted, or of one that passes between people and      *)
(* projects; the parts it is not about stay as they were.                  *)
(***************************************************************************)
EXTENDS Workflow, TLC

CONSTANTS w1, w2, t1, t2, t3, i1, nobody

VARIABLES
  part,                                              \* what the behaviour is about
  ticketF, leadF, statesF, edgesF, trailF, windowsF, reqF, taintedF,
  ticketD, leadD, statesD, edgesD, trailD, windowsD, reqD, taintedD,
  ticketC, leadC, statesC, edgesC, trailC, windowsC, reqC, taintedC

Cycle == {<<"todo", "done">>, <<"done", "todo">>}

\* A family of two tickets that nobody is assigned to.
Family == INSTANCE Tickets WITH
  Ticket <- {t1, t2}, Person <- {"manager"}, Assignable <- {}, Reportable <- {},
  Project <- {"p"}, FirstLead <- [j \in {"p"} |-> "manager"], Hands <- {}, ViewAll <- {}, Super <- {},
  State <- {"todo", "done"}, InitialState <- "todo", Final <- {"done"}, Closing <- {"done"},
  Transitions <- Cycle, None <- nobody, MaxTrail <- 2, MaxDeletions <- 0,
  ticket <- ticketF, lead <- leadF, states <- statesF, edges <- edgesF, trail <- trailF,
  windows <- windowsF, req <- reqF, tainted <- taintedF

\* One ticket, assigned and reassigned, that three people may want to close.
Desk == INSTANCE Tickets WITH
  Ticket <- {t3}, Person <- {"manager", "member", "pmo"}, Assignable <- {"member", "pmo"},
  Reportable <- {}, Project <- {"p"}, FirstLead <- [j \in {"p"} |-> "manager"], Hands <- {},
  ViewAll <- {"pmo"}, Super <- {},
  State <- {"todo", "done"}, InitialState <- "todo", Final <- {"done"}, Closing <- {"done"},
  Transitions <- Cycle, None <- nobody, MaxTrail <- 2, MaxDeletions <- 1,
  ticket <- ticketD, lead <- leadD, states <- statesD, edges <- edgesD, trail <- trailD,
  windows <- windowsD, req <- reqD, tainted <- taintedD

\* One ticket that passes between reporters and projects, and projects between
\* managers, while four may want to close it; one project begins without.
Counter == INSTANCE Tickets WITH
  Ticket <- {t3}, Person <- {"manager", "guest", "pmo", "root"},
  Assignable <- {}, Reportable <- {"guest", nobody},
  Project <- {"p", "q"}, FirstLead <- [p |-> "manager", q |-> nobody], Hands <- {"guest"},
  ViewAll <- {"pmo", "root"}, Super <- {"root"},
  State <- {"todo", "done"}, InitialState <- "todo", Final <- {"done"}, Closing <- {"done"},
  Transitions <- {<<"todo", "done">>}, None <- nobody, MaxTrail <- 1, MaxDeletions <- 0,
  ticket <- ticketC, lead <- leadC, states <- statesC, edges <- edgesC, trail <- trailC,
  windows <- windowsC, req <- reqC, tainted <- taintedC

familyVars == <<ticketF, leadF, statesF, edgesF, trailF, windowsF, reqF, taintedF>>
deskVars == <<ticketD, leadD, statesD, edgesD, trailD, windowsD, reqD, taintedD>>
counterVars == <<ticketC, leadC, statesC, edgesC, trailC, windowsC, reqC, taintedC>>
allVars == <<part, vars, familyVars, deskVars, counterVars>>

BoardsInit ==
  /\ part \in {"board", "family", "desk", "counter"}
  /\ Init /\ Family!Init /\ Desk!Init /\ Counter!Init
  /\ part # "board" => app = "todos"

BoardsNext ==
  \/ part = "board" /\ Next /\ UNCHANGED <<part, familyVars, deskVars, counterVars>>
  \/ part = "family" /\ Family!Next /\ UNCHANGED <<part, vars, deskVars, counterVars>>
  \/ part = "desk" /\ Desk!Next /\ UNCHANGED <<part, vars, familyVars, counterVars>>
  \/ part = "counter" /\ Counter!Next /\ UNCHANGED <<part, vars, familyVars, deskVars>>

BoardsSpec == BoardsInit /\ [][BoardsNext]_allVars

Symmetry == Permutations({w1, w2}) \cup Permutations({t1, t2})
----------------------------------------------------------------------------
\* Tickets!TypeOK, TrailIsPath, NoLoop, WindowIsAssignee and NeverStranded, of
\* tickets that have parents and of one that is reassigned and whose states are
\* deleted.
TicketsAgree ==
  /\ [](Family!TypeOK /\ Family!TrailIsPath /\ Family!NoLoop)
  /\ [](Desk!TypeOK /\ Desk!TrailIsPath /\ Desk!WindowIsAssignee)
  /\ [](Counter!TypeOK /\ Counter!TrailIsPath /\ Counter!WindowIsAssignee)
  /\ Desk!NeverStranded

=============================================================================
