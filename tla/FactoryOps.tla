----------------------------- MODULE FactoryOps -----------------------------
(***************************************************************************)
(* The registry of TicketFactory (src/src/ticketFactory.sol): which ids    *)
(* were handed out to whom, and which event each became.                   *)
(*                                                                         *)
(*   r  the mappings event_To_ID and eventAddressToID and the array        *)
(*      registeredEvents                                                   *)
(*                                                                         *)
(* Faulty variants of a definition precede it, as in TicketOps.            *)
(***************************************************************************)
EXTENDS TicketOps, Sequences, Functions

CONSTANTS Ids,         \* the event ids in play
          Addresses,   \* the addresses the factory deploys events at
          ZeroAddress  \* what an unset address reads as

ASSUME FactoryOpsAssumption ==
  /\ Ids \subseteq Uint
  /\ ZeroAddress \notin Accounts \cup Addresses

\* What an organizer chooses for an event.
Plans == [fee : Uint, seats : Uint, opens : Uint, closes : Uint]

EventDetail ==
  [id : Uint, eventAddress : Addresses \cup {ZeroAddress},
   admin : Accounts \cup {ZeroAddress},
   ID_Is_Used : BOOLEAN, ID_Is_Created : BOOLEAN]

Registries ==
  [event_To_ID : [Ids -> EventDetail], registeredEvents : Seq(Addresses),
   eventAddressToID : [Addresses -> Uint]]

NewRegistry ==
  [event_To_ID |->
     [id \in Ids |-> [id |-> 0, eventAddress |-> ZeroAddress,
                      admin |-> ZeroAddress,
                      ID_Is_Used |-> FALSE, ID_Is_Created |-> FALSE]],
   registeredEvents |-> <<>>,
   eventAddressToID |-> [c \in Addresses |-> 0]]

CanCreateIDUnused(r, id) == ~r.event_To_ID[id].ID_Is_Used

CanCreateID(r, id) == ~r.event_To_ID[id].ID_Is_Created

IDCreated(r, id, admin) ==
  [r EXCEPT !.event_To_ID[id] = [@ EXCEPT !.admin = admin,
                                          !.ID_Is_Created = TRUE,
                                          !.id = id]]

CanCreateEventAgain(r, a, id, plan) ==
  /\ r.event_To_ID[id].admin = a
  /\ r.event_To_ID[id].id # 0
  /\ 0 < plan.opens
  /\ plan.opens < plan.closes

CanCreateEvent(r, a, id, plan) ==
  /\ r.event_To_ID[id].admin = a
  /\ ~r.event_To_ID[id].ID_Is_Used
  /\ r.event_To_ID[id].id # 0
  /\ 0 < plan.opens
  /\ plan.opens < plan.closes

EventCreatedUnmarked(r, a, id, c) ==
  [event_To_ID |-> [r.event_To_ID EXCEPT ![id] = [@ EXCEPT !.eventAddress = c]],
   registeredEvents |-> Append(r.registeredEvents, c),
   eventAddressToID |-> [r.eventAddressToID EXCEPT ![c] = id]]

\* The entries createEvent makes for the event it deployed at c.
EventCreated(r, a, id, c) ==
  [event_To_ID |->
     [r.event_To_ID EXCEPT ![id] = [@ EXCEPT !.ID_Is_Used = TRUE,
                                             !.eventAddress = c,
                                             !.admin = a,
                                             !.id = id]],
   registeredEvents |-> Append(r.registeredEvents, c),
   eventAddressToID |-> [r.eventAddressToID EXCEPT ![c] = id]]

\* The arguments of the constructor of iTicketing.
Details(a, id, plan, controller) ==
  [eventNftId |-> id, eventFee |-> plan.fee,
   totalExpectedParticipants |-> plan.seats,
   regStartDateAndTime |-> plan.opens, regDeadline |-> plan.closes,
   eventAdmin |-> a, Controller |-> controller]

\* withdrawFromChild, openWithdrawalChild and pauseWithdrawalChild look the
\* event up by its id; the zero address answers no call.
HasChild(r, id) ==
  /\ r.event_To_ID[id].id = id
  /\ r.event_To_ID[id].eventAddress # ZeroAddress

ChildOf(r, id) == r.event_To_ID[id].eventAddress

-----------------------------------------------------------------------------
(* Consistency of the registry with the events deployed: details maps their *)
(* addresses to the arguments of their constructors.                        *)

RegisteredOnce(r, details) ==
  /\ Range(r.registeredEvents) = DOMAIN details
  /\ IsInjective(r.registeredEvents)

FoundByAddress(r, details) ==
  \A c \in DOMAIN details :
    LET id == r.eventAddressToID[c] IN
    /\ id \in Ids \ {0}
    /\ details[c].eventNftId = id
    /\ r.event_To_ID[id].eventAddress = c
    /\ r.event_To_ID[id].admin = details[c].eventAdmin

FoundById(r, details) ==
  \A id \in Ids :
    LET d == r.event_To_ID[id] IN
    /\ d.ID_Is_Used => d.ID_Is_Created
    /\ d.ID_Is_Created <=> d.admin # ZeroAddress
    /\ d.ID_Is_Created => d.id = id
    /\ ~d.ID_Is_Created => d.id = 0
    /\ IF d.ID_Is_Used THEN /\ d.eventAddress \in DOMAIN details
                            /\ r.eventAddressToID[d.eventAddress] = id
                       ELSE d.eventAddress = ZeroAddress

RegistryOK(r, details) ==
  /\ r \in Registries
  /\ RegisteredOnce(r, details)
  /\ FoundByAddress(r, details)
  /\ FoundById(r, details)

=============================================================================
