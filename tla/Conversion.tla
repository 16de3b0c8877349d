------------------------------ MODULE Conversion ------------------------------
(***************************************************************************)
(* A lead that is won becomes a client with a chat room and a deal         *)
(* (LeadViewSet.perform_update in apps/leads/views.py).  The view is a     *)
(* plain ModelViewSet: every statement commits for itself, and a second    *)
(* request for the lead, or for another of the same name, may come between *)
(* any two.  Clients are looked up by name, deals by client, and neither   *)
(* is unique.  Leads, clients and deals are also made, changed and deleted *)
(* by hand, in every column and with no such consequence: a lead that is   *)
(* created as WON is not converted, and a second client of the name or a   *)
(* second deal of the client ends all conversions.                         *)
(***************************************************************************)
EXTENDS Integers, Sequences, FiniteSets

CONSTANTS
  Request,   \* the server's request threads, which are the users' too
  Lead,      \* the leads, all of one name
  Employee,  \* whom a lead may be assigned to
  Amount,    \* what a deal may be worth; 0 stands for none
  MaxSaves,  \* bounds the updates of leads
  MaxHands   \* bounds what else is done to clients and deals

VARIABLES
  lead,      \* Lead -> its status and amount; status "none" before it is made
  client,    \* the clients in the order they were made, and whether each still
             \* is there and has the name
  deal,      \* the deals, each of a client or of none, and whether it is there
  req,       \* what each request thread is doing
  saves,     \* how many updates of leads were begun
  hands,     \* how much was done by hand
  excused    \* a request overlapped another one, or died

vars == <<lead, client, deal, req, saves, hands, excused>>

Free == [pc |-> "Idle"]
At(w, pc) == req[w].pc = pc
Becomes(w, r) == req' = [req EXCEPT ![w] = r]
Then(w, pc) == Becomes(w, [req[w] EXCEPT !.pc = pc])
Crowded(w) == \E v \in Request \ {w} : ~ At(v, "Idle")

Busy == \E w \in Request : ~ At(w, "Idle")

Status == {"LEAD", "WON"}
Stages == {"Active", "Won"}
NoRoom == {"none"}
Nobodys == 0
Gone == [there |-> FALSE]
There == {c \in DOMAIN client : client[c].there}
Named == {c \in There : client[c].named}
DealsOf(c) == {d \in DOMAIN deal : deal[d].there /\ deal[d].client = c}
NewClient(amount, staff) == [there |-> TRUE, named |-> TRUE, amount |-> amount, staff |-> staff, room |-> NoRoom]
NewDeal(c, value, stage) == [there |-> TRUE, client |-> c, value |-> value, stage |-> stage]
----------------------------------------------------------------------------
Init ==
  /\ lead = [l \in Lead |-> [status |-> "none", amount |-> 0]]
  /\ client = <<>> /\ deal = <<>>
  /\ req = [w \in Request |-> Free]
  /\ saves = 0 /\ hands = 0 /\ excused = FALSE

\* perform_create: whatever its status, a new lead is a lead and no more.
Post(l, status, amount) ==
  /\ lead[l].status = "none"
  /\ lead' = [lead EXCEPT ![l] = [status |-> status, amount |-> amount]]
  /\ UNCHANGED <<client, deal, req, saves, hands, excused>>

\* serializer.save: the lead, with the employees the request names.
Save(w, l, status, amount, staff) ==
  /\ At(w, "Idle") /\ saves < MaxSaves /\ lead[l].status # "none"
  /\ saves' = saves + 1
  /\ lead' = [lead EXCEPT ![l] = [status |-> status, amount |-> amount]]
  /\ Becomes(w, IF status = "WON" THEN [pc |-> "Find", amount |-> amount, staff |-> staff]
                ELSE Free)
  /\ excused' = (excused \/ Crowded(w))
  /\ UNCHANGED <<client, deal, hands>>

\* Client.objects.get_or_create(name): none is there, ...
FindNone(w) ==
  /\ At(w, "Find") /\ Named = {}
  /\ Then(w, "Create")
  /\ UNCHANGED <<lead, client, deal, saves, hands, excused>>

\* Seeded fault: every conversion makes a client.
FindOneNever(w) ==
  /\ At(w, "Find") /\ Named # {}
  /\ Then(w, "Create")
  /\ UNCHANGED <<lead, client, deal, saves, hands, excused>>

\* ... or one is, and gets the deal's fields next.
FindOne(w) ==
  /\ At(w, "Find")
  /\ \E c \in Named : /\ Named = {c}
                     /\ Becomes(w, [pc |-> "Sync", amount |-> req[w].amount, staff |-> req[w].staff, client |-> c])
  /\ UNCHANGED <<lead, client, deal, saves, hands, excused>>

\* With two of the name there is no answer, and the request fails: the lead
\* stays won.
FindMany(w) ==
  /\ At(w, "Find") /\ Cardinality(Named) > 1
  /\ Becomes(w, Free)
  /\ UNCHANGED <<lead, client, deal, saves, hands, excused>>

\* The client of the request is still there.
Present(w) == client[req[w].client].there

Create(w) ==
  /\ At(w, "Create")
  /\ client' = Append(client, NewClient(req[w].amount, {}))
  /\ Becomes(w, [pc |-> "Staff", amount |-> req[w].amount, staff |-> req[w].staff,
                 client |-> Len(client) + 1])
  /\ UNCHANGED <<lead, deal, saves, hands, excused>>

Sync(w) ==
  /\ At(w, "Sync") /\ Present(w)
  /\ client' = [client EXCEPT ![req[w].client].amount = req[w].amount]
  /\ Then(w, "Staff")
  /\ UNCHANGED <<lead, deal, saves, hands, excused>>

\* assigned_employees is set to the list, or cleared if it is empty; then
\* there is nothing to do about the room.
Staff(w) ==
  /\ At(w, "Staff") /\ Present(w)
  /\ client' = [client EXCEPT ![req[w].client].staff = req[w].staff]
  /\ Then(w, IF req[w].staff = {} THEN "Deal" ELSE "Room")
  /\ UNCHANGED <<lead, deal, saves, hands, excused>>

\* Seeded fault: only a new room gets its participants.
RoomOnce(w) ==
  /\ At(w, "Room") /\ Present(w)
  /\ client' = [client EXCEPT ![req[w].client].room = IF @ = NoRoom THEN {} ELSE @]
  /\ Then(w, IF client[req[w].client].room = NoRoom THEN "Join" ELSE "Deal")
  /\ UNCHANGED <<lead, deal, saves, hands, excused>>

\* The client's room, of which there is one, is made if need be, ...
Room(w) ==
  /\ At(w, "Room") /\ Present(w)
  /\ client' = [client EXCEPT ![req[w].client].room = IF @ = NoRoom THEN {} ELSE @]
  /\ Then(w, "Join")
  /\ UNCHANGED <<lead, deal, saves, hands, excused>>

\* ... and its participants are the employees and the user.
Join(w) ==
  /\ At(w, "Join") /\ Present(w)
  /\ client' = [client EXCEPT ![req[w].client].room = req[w].staff \cup {w}]
  /\ Then(w, "Deal")
  /\ UNCHANGED <<lead, deal, saves, hands, excused>>

\* Deal.objects.get_or_create(client): none is there, one is, or two are
\* and the request fails.
DealFind(w) ==
  LET c == req[w].client
      its == DealsOf(c)
  IN /\ At(w, "Deal")
     /\ Becomes(w, IF its = {} THEN [pc |-> "DealCreate", amount |-> req[w].amount, client |-> c]
                   ELSE IF Cardinality(its) > 1 THEN Free
                   ELSE LET d == CHOOSE d \in its : TRUE
                        IN [pc |-> "DealSave", deal |-> d, image |-> deal[d], amount |-> req[w].amount])
     /\ UNCHANGED <<lead, client, deal, saves, hands, excused>>

DealCreate(w) ==
  /\ At(w, "DealCreate") /\ Present(w) /\ Becomes(w, Free)
  /\ deal' = Append(deal, NewDeal(req[w].client, req[w].amount, "Active"))
  /\ UNCHANGED <<lead, client, saves, hands, excused>>

\* Seeded fault: a deal that is worth nothing overwrites its value.
DealSaveAny(w) ==
  LET r == req[w]
  IN /\ At(w, "DealSave") /\ Becomes(w, Free)
     /\ deal' = [deal EXCEPT ![r.deal] = [r.image EXCEPT !.value = r.amount]]
     /\ UNCHANGED <<lead, client, saves, hands, excused>>

\* The deal is saved with every column as it was read, and its value if the
\* lead has one; a deal that was deleted meanwhile is inserted again.
DealSave(w) ==
  LET r == req[w]
  IN /\ At(w, "DealSave") /\ Becomes(w, Free)
     /\ deal' = [deal EXCEPT ![r.deal] =
                   [r.image EXCEPT !.value = IF r.amount > 0 THEN r.amount ELSE @]]
     /\ UNCHANGED <<lead, client, saves, hands, excused>>

\* A client that was deleted has no staff, no room and no deal to save: the
\* request fails.
Fail(w) ==
  /\ req[w].pc \in {"Sync", "Staff", "Room", "Join", "DealCreate"} /\ ~ Present(w)
  /\ Becomes(w, Free)
  /\ UNCHANGED <<lead, client, deal, saves, hands, excused>>

Die(w) ==
  /\ ~ At(w, "Idle") /\ Becomes(w, Free)
  /\ excused' = TRUE
  /\ UNCHANGED <<lead, client, deal, saves, hands>>
----------------------------------------------------------------------------
(* Clients and deals by hand.                                               *)

Hands == hands < MaxHands /\ hands' = hands + 1
ByHand == Hands /\ excused' = (excused \/ Busy) /\ UNCHANGED <<lead, req, saves>>

\* ClientViewSet.create and destroy, which takes the room with the client and
\* leaves its deals to nobody.
PostClient(amount, staff) ==
  /\ ByHand
  /\ client' = Append(client, NewClient(amount, staff))
  /\ UNCHANGED deal

DropClient(c) ==
  /\ client[c].there /\ ByHand
  /\ client' = [client EXCEPT ![c] = Gone]
  /\ deal' = [d \in DOMAIN deal |-> IF d \in DealsOf(c) THEN [deal[d] EXCEPT !.client = Nobodys] ELSE deal[d]]

\* ClientChatRoomViewSet: a room is made without people, deleted, or given to
\* another client with its people.
SetRoom(c, room) == client' = [client EXCEPT ![c].room = room]
PostRoom(c) == client[c].there /\ client[c].room = NoRoom /\ ByHand /\ SetRoom(c, {}) /\ UNCHANGED deal
DropRoom(c) == client[c].there /\ client[c].room # NoRoom /\ ByHand /\ SetRoom(c, NoRoom) /\ UNCHANGED deal
MoveRoom(c, e) ==
  /\ c \in There /\ e \in There /\ client[c].room # NoRoom /\ client[e].room = NoRoom
  /\ ByHand
  /\ client' = [client EXCEPT ![c].room = NoRoom, ![e].room = client[c].room]
  /\ UNCHANGED deal

\* DealViewSet.create and destroy.
PostDeal(c, value, stage) ==
  /\ c \in There \cup {Nobodys}
  /\ ByHand
  /\ deal' = Append(deal, NewDeal(c, value, stage))
  /\ UNCHANGED client

DropDeal(d) ==
  /\ deal[d].there /\ ByHand
  /\ deal' = [deal EXCEPT ![d] = Gone]
  /\ UNCHANGED client

\* update of a client or of a deal: the row is loaded ...
PatchLoad(w, kind, x) ==
  /\ At(w, "Idle") /\ Hands
  /\ \/ kind = "client" /\ client[x].there /\ Becomes(w, [pc |-> "Client", client |-> x])
     \/ kind = "deal" /\ deal[x].there /\ Becomes(w, [pc |-> "Stage", deal |-> x])
  /\ excused' = (excused \/ Crowded(w))
  /\ UNCHANGED <<lead, client, deal, saves>>

\* ... and saved, with any name, amount and staff, or any client, value and
\* stage; a row deleted meanwhile is inserted again.
Rewrite(w, named, amount, staff) ==
  LET c == req[w].client
  IN /\ At(w, "Client") /\ Becomes(w, Free)
     /\ client' = [client EXCEPT ![c] = [there |-> TRUE, named |-> named, amount |-> amount, staff |-> staff,
                      room |-> IF client[c].there THEN client[c].room ELSE NoRoom]]
     /\ UNCHANGED <<lead, deal, saves, hands, excused>>

Stage(w, c, value, stage) ==
  /\ At(w, "Stage") /\ Becomes(w, Free)
  /\ c \in There \cup {Nobodys}
  /\ deal' = [deal EXCEPT ![req[w].deal] = NewDeal(c, value, stage)]
  /\ UNCHANGED <<lead, client, saves, hands, excused>>

Next ==
  \/ \E l \in Lead, status \in Status, amount \in Amount : Post(l, status, amount)
  \/ \E w \in Request, l \in Lead, status \in Status, amount \in Amount,
        staff \in SUBSET Employee : Save(w, l, status, amount, staff)
  \/ \E w \in Request :
       FindNone(w) \/ FindOne(w) \/ FindMany(w) \/ Create(w) \/ Sync(w) \/ Staff(w)
         \/ Room(w) \/ Join(w) \/ DealFind(w) \/ DealCreate(w) \/ DealSave(w) \/ Fail(w) \/ Die(w)
  \/ \E amount \in Amount, staff \in SUBSET Employee : PostClient(amount, staff)
  \/ \E c \in DOMAIN client : DropClient(c) \/ PostRoom(c) \/ DropRoom(c) \/ (\E e \in DOMAIN client : MoveRoom(c, e))
  \/ \E c \in DOMAIN client \cup {Nobodys}, value \in Amount, stage \in Stages : PostDeal(c, value, stage)
  \/ \E d \in DOMAIN deal : DropDeal(d)
  \/ \E w \in Request : \/ \E c \in DOMAIN client : PatchLoad(w, "client", c)
                        \/ \E d \in DOMAIN deal : PatchLoad(w, "deal", d)
  \/ \E w \in Request, named \in BOOLEAN, amount \in Amount, staff \in SUBSET Employee :
       Rewrite(w, named, amount, staff)
  \/ \E w \in Request, c \in DOMAIN client \cup {Nobodys}, value \in Amount, stage \in Stages :
       Stage(w, c, value, stage)

Spec == Init /\ [][Next]_vars
----------------------------------------------------------------------------
Moves(w, pc) == At(w, pc) /\ req'[w] # req[w]

\* A conversion makes a client only when there is none of the name, and a deal
\* only for a client without one, unless a request overlapped it; a second one
\* comes by hand.
OneClientStep ==
  ~ excused' => \A w \in Request :
    /\ Moves(w, "Create") /\ Named' # Named => Named = {}
    /\ Moves(w, "DealCreate") /\ deal' # deal => DealsOf(req[w].client) = {}

\* OneClientStep, of every step.
OneClient == [][OneClientStep]_vars

\* A conversion that was alone ends with one client of the name, which has one
\* deal; whoever works for the client is in its room, and the client says what
\* the deal is worth unless nothing was said.  It ends short of that only where
\* somebody made a second client of the name or a second deal of the client.
ConvertedStep ==
  ~ excused' => \A w \in Request :
    /\ Moves(w, "DealCreate") \/ Moves(w, "DealSave") =>
         \E c \in Named' : /\ Named' = {c} /\ Cardinality(DealsOf(c)') = 1
                           /\ client'[c].staff # {} => client'[c].staff \subseteq client'[c].room
                           /\ \A d \in DealsOf(c)' : client'[c].amount \in {0, deal'[d].value}
    /\ (\E pc \in {"Find", "Sync", "Staff", "Room", "Join", "Deal"} : Moves(w, pc)) /\ req'[w] = Free =>
         Cardinality(Named) > 1 \/ \E c \in Named : Cardinality(DealsOf(c)) > 1

\* ConvertedStep, of every step.
Converted == [][ConvertedStep]_vars

\* A conversion makes no deal worthless that was worth something, and opens
\* none again that was won, unless a request overlapped it: only hands do.
DealStaysStep ==
  ~ excused /\ (\E w \in Request : Moves(w, "DealSave")) => \A d \in DOMAIN deal :
    /\ deal[d].there /\ deal'[d].there
         => (deal[d].value > 0 => deal'[d].value > 0) /\ deal'[d].stage = deal[d].stage
    /\ deal[d].there <=> deal'[d].there

\* DealStaysStep, of every step.
DealStays == [][DealStaysStep]_vars
=============================================================================
