------------------------------- MODULE Board -------------------------------
(***************************************************************************)
(* What a workflow board promises: an object enters at the first column,   *)
(* moves along the configured transitions only, and its trail is the path  *)
(* it took.  Closing a column sends its objects back to the start and      *)
(* blots the column out of every trail.  Objects moved by two requests at  *)
(* once are set apart: the code promises nothing of their place.           *)
(***************************************************************************)
EXTENDS Sequences, FiniteSets

CONSTANTS
  Object,
  Nowhere  \* not on the board, or a column that was closed

VARIABLES
  columns,  \* the columns of the board
  first,  \* the column objects enter at
  edges,  \* the configured transitions, pairs of columns
  place,  \* Object -> its column, or Nowhere
  trail,  \* Object -> the moves it made, oldest first
  raced   \* objects moved by overlapping requests

boardVars == <<columns, first, edges, place, trail, raced>>

BoardInit ==
  /\ place = [o \in Object |-> Nowhere]
  /\ trail = [o \in Object |-> << >>]
  /\ raced = {}

Enter(o) ==
  /\ place[o] = Nowhere
  /\ place' = [place EXCEPT ![o] = first]
  /\ UNCHANGED <<trail, raced>>

Moves(o, e) ==
  /\ place' = [place EXCEPT ![o] = e[2]]
  /\ trail' = [trail EXCEPT ![o] = Append(@, e)]

\* An object that is not yet on the board moves from the first column.
Move(o, e) ==
  /\ e[1] = IF place[o] = Nowhere THEN first ELSE place[o]
  /\ Moves(o, e)
  /\ UNCHANGED raced

MoveRaced(o, e) == Moves(o, e) /\ raced' = raced \cup {o}

Overwrite(o, c) ==
  /\ place' = [place EXCEPT ![o] = c]
  /\ raced' = raced \cup {o}
  /\ UNCHANGED trail

Close(c) ==
  LET Blot(x) == IF x = c THEN Nowhere ELSE x
  IN /\ place' = [o \in Object |-> Blot(place[o])]
     /\ trail' = [o \in Object |->
          [k \in DOMAIN trail[o] |-> <<Blot(trail[o][k][1]), Blot(trail[o][k][2])>>]]
     /\ UNCHANGED raced

BoardNext ==
  /\ \/ \E o \in Object : Enter(o)
     \/ \E o \in Object, e \in edges : Move(o, e) \/ MoveRaced(o, e)
     \/ \E o \in Object, c \in columns : Overwrite(o, c)
     \/ \E c \in columns : Close(c)
  /\ UNCHANGED <<columns, first, edges>>

BoardSpec == BoardInit /\ [][BoardNext]_boardVars
=============================================================================
