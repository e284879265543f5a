------------------------------ MODULE Platform ------------------------------
(***************************************************************************)
(* The factory and the events it deployed, side by side: TicketFactory     *)
(* (src/src/ticketFactory.sol) with one iTicketing and one Poap for each   *)
(* event.  Contracts that get control in a callback may call the factory   *)
(* and every event, and a revert undoes what a call did to any of them.    *)
(* Faulty variants of a definition precede it, as in TicketOps.            *)
(*                                                                         *)
(* Token transfers, which no contract here depends on, are in Ticketing.   *)
(***************************************************************************)
EXTENDS FactoryOps, Calls

CONSTANTS
  EventPlans,  \* what organizers may choose for their events
  Values,      \* ether sent along with a call
  Amounts,     \* amounts that are asked for
  MaxGifts,    \* bound on the ether a contract gets that pays for nothing
  MaxFees,     \* bound on the fees drawn from one event
  MaxBatch,    \* bound on the length of a setAttenders batch
  MaxTime      \* bound on block.timestamp

ASSUME PlatformAssumption ==
  /\ IsFiniteSet(Accounts)
  /\ Wallets \subseteq Accounts
  /\ EventPlans \subseteq Plans
  /\ Values \subseteq Nat
  /\ Amounts \subseteq Nat
  /\ {MaxGifts, MaxFees, MaxBatch, MaxTime} \subseteq Nat

VARIABLES
  Controller,  \* of the factory
  registry,    \* the mappings and the array of the factory
  coffer,      \* the ether of the factory
  events,      \* the events deployed: address -> what its contracts store
  clock        \* block.timestamp

vars == <<Controller, registry, coffer, events, clock, stack, gas>>

Coffers == [balance : Nat, gifts : Nat, paid : Nat]

\* What iTicketing and Poap of one event store.
EventState(details, store, tickets, poaps, vault) ==
  [details |-> details, store |-> store, tickets |-> tickets,
   poaps |-> poaps, vault |-> vault]

\* An event as its constructor and that of its Poap leave it.
Deployed(details) ==
  EventState(details, NewStorage, NewLedger, NewLedger, NewVault)

\* The events when one of them, at c, is left with these.
Updated(c, store, tickets, poaps, vault) ==
  [events EXCEPT ![c] =
     EventState(events[c].details, store, tickets, poaps, vault)]

State == [Controller |-> Controller, registry |-> registry,
          coffer |-> coffer, events |-> events]

Await(op, c, id) ==
  Push([op |-> op, event |-> c, id |-> id, saved |-> State])

Init ==
  /\ Controller \in Accounts
  /\ registry = NewRegistry
  /\ coffer = [balance |-> 0, gifts |-> 0, paid |-> 0]
  /\ events = [c \in {} |-> {}]
  /\ NoCalls
  /\ clock = 1

-----------------------------------------------------------------------------
(* The functions of the factory *)

CreateID(a, id, admin) ==
  /\ MayCall(a)
  /\ a = Controller
  /\ CanCreateID(registry, id)
  /\ registry' = IDCreated(registry, id, admin)
  /\ Done
  /\ UNCHANGED <<Controller, coffer, events, clock>>

\* Deploys both contracts, enters the event, and connects it to its Poap.
CreateEvent(a, id, plan, c) ==
  /\ MayCall(a)
  /\ CanCreateEvent(registry, a, id, plan)
  /\ c \notin DOMAIN events
  /\ registry' = EventCreated(registry, a, id, c)
  /\ events' = [d \in DOMAIN events \cup {c} |->
                  IF d = c THEN Deployed(Details(a, id, plan, Controller))
                           ELSE events[d]]
  /\ Done
  /\ UNCHANGED <<Controller, coffer, clock>>

\* Events keep the Controller of the time they were created.
ChangeController(a, new) ==
  /\ MayCall(a)
  /\ a = Controller
  /\ Controller' = new
  /\ Done
  /\ UNCHANGED <<registry, coffer, events, clock>>

\* onlyController, and the event the call goes to
MayCallChild(a, id) ==
  /\ MayCall(a)
  /\ a = Controller
  /\ HasChild(registry, id)

\* The event sends its fee to its Controller instead of the factory.
WithdrawFromChildToController(a, id) ==
  LET c == ChildOf(registry, id)
      ev == events[c]
      fee == FeeOf(ev.store.totalEthFromTicket) IN
  /\ MayCallChild(a, id)
  /\ CanWithdraw(ev.store, ev.vault)
  /\ ev.vault.platform + fee <= MaxFees
  /\ events' = Updated(c, Withdrawn(ev.store), ev.tickets, ev.poaps,
                        PaidToPlatform(ev.vault, fee))
  /\ Done
  /\ UNCHANGED <<Controller, registry, coffer, clock>>

WithdrawFromChild(a, id) ==
  LET c == ChildOf(registry, id)
      ev == events[c]
      fee == FeeOf(ev.store.totalEthFromTicket) IN
  /\ MayCallChild(a, id)
  /\ CanWithdraw(ev.store, ev.vault)
  /\ ev.vault.platform + fee <= MaxFees
  /\ events' = Updated(c, Withdrawn(ev.store), ev.tickets, ev.poaps,
                        PaidToPlatform(ev.vault, fee))
  /\ coffer' = [coffer EXCEPT !.balance = @ + fee]
  /\ Done
  /\ UNCHANGED <<Controller, registry, clock>>

\* openWithdrawalChild (open = TRUE) and pauseWithdrawalChild
SetWithdrawalChild(a, id, open) ==
  LET c == ChildOf(registry, id)
      ev == events[c] IN
  /\ MayCallChild(a, id)
  /\ ev.store.withdrawIsOpen # open
  /\ events' = Updated(c, [ev.store EXCEPT !.withdrawIsOpen = open],
                        ev.tickets, ev.poaps, ev.vault)
  /\ Done
  /\ UNCHANGED <<Controller, registry, coffer, clock>>

CanWithdrawFactory(a, amount) == a = Controller /\ amount <= coffer.balance

PaidOut(amount) ==
  coffer' = [coffer EXCEPT !.balance = @ - amount, !.paid = @ + amount]

\* withdraw, to an account
WithdrawFactory(a, amount, to) ==
  /\ MayCall(a)
  /\ CanWithdrawFactory(a, amount)
  /\ PaidOut(amount)
  /\ IF to \in Wallets THEN Await("pay", ZeroAddress, 0) ELSE Done
  /\ UNCHANGED <<Controller, registry, events, clock>>

\* withdraw, to an event, whose receive function accepts it
WithdrawFactoryToEvent(a, amount, c) ==
  LET ev == events[c] IN
  /\ MayCall(a)
  /\ CanWithdrawFactory(a, amount)
  /\ ev.vault.gifts + amount <= MaxGifts
  /\ PaidOut(amount)
  /\ events' = Updated(c, ev.store, ev.tickets, ev.poaps,
                        Gifted(ev.vault, amount))
  /\ Done
  /\ UNCHANGED <<Controller, registry, clock>>

\* receive(): ether from anyone, for nothing.
Receive(a, value) ==
  /\ MayCall(a)
  /\ coffer.gifts + value <= MaxGifts
  /\ coffer' = [coffer EXCEPT !.balance = @ + value, !.gifts = @ + value]
  /\ Done
  /\ UNCHANGED <<Controller, registry, events, clock>>

-----------------------------------------------------------------------------
(* The functions of an event, as in Ticketing *)

Register(a, c, value) ==
  LET ev == events[c]
      id == NextId(ev.details, ev.store)
      minted == Mint(ev.tickets, a, id)
      With(ledger) ==
        Updated(c, Registered(ev.store, a, value), ledger, ev.poaps,
                Deposited(ev.vault, value)) IN
  /\ MayCall(a)
  /\ CanRegister(ev.details, ev.store, ev.tickets, a, value, clock)
  /\ \/ a \in Wallets /\ events' = With(minted) /\ Await("register", c, id)
     \/ a \notin Wallets /\ events' = With(SetTokenURI(minted, id)) /\ Done
  /\ UNCHANGED <<Controller, registry, coffer, clock>>

SetAttenders(a, c, batch) ==
  LET ev == events[c] IN
  /\ MayCall(a)
  /\ CanSetAttenders(ev.details, ev.store, a, batch)
  /\ events' = Updated(c, Attended(ev.store, batch), ev.tickets, ev.poaps,
                        ev.vault)
  /\ Done
  /\ UNCHANGED <<Controller, registry, coffer, clock>>

ClaimAttendanceToken(a, c) ==
  LET ev == events[c]
      id == NextId(ev.details, ev.store)
      minted == Mint(ev.poaps, a, id)
      With(ledger) ==
        Updated(c, Claimed(ev.store, a), ev.tickets, ledger, ev.vault) IN
  /\ MayCall(a)
  /\ CanClaim(ev.details, ev.store, ev.poaps, a)
  /\ \/ a \in Wallets /\ events' = With(minted) /\ Await("claim", c, id)
     \/ a \notin Wallets /\ events' = With(SetTokenURI(minted, id)) /\ Done
  /\ UNCHANGED <<Controller, registry, coffer, clock>>

WithdrawEthEventAdmin(a, c, amount) ==
  LET ev == events[c] IN
  /\ MayCall(a)
  /\ CanWithdrawEventAdmin(ev.details, ev.store, ev.vault, a, amount)
  /\ events' = Updated(c, WithdrawnByEventAdmin(ev.store, amount), ev.tickets,
                        ev.poaps, PaidToOrganizer(ev.vault, amount))
  /\ IF a \in Wallets THEN Await("pay", c, 0) ELSE Done
  /\ UNCHANGED <<Controller, registry, coffer, clock>>

\* receive() of an event
Give(a, c, value) ==
  LET ev == events[c] IN
  /\ MayCall(a)
  /\ ev.vault.gifts + value <= MaxGifts
  /\ events' = Updated(c, ev.store, ev.tickets, ev.poaps,
                        Gifted(ev.vault, value))
  /\ Done
  /\ UNCHANGED <<Controller, registry, coffer, clock>>

-----------------------------------------------------------------------------
(* The end of a function that handed over control *)

Unwind ==
  LET c == Top.event
      ev == events[c] IN
  /\ stack # <<>>
  /\ CASE Top.op = "register" ->
            /\ Exists(ev.tickets, Top.id)
            /\ events' = Updated(c, ev.store, SetTokenURI(ev.tickets, Top.id),
                                 ev.poaps, ev.vault)
       [] Top.op = "claim" ->
            /\ Exists(ev.poaps, Top.id)
            /\ events' = Updated(c, ev.store, ev.tickets,
                                 SetTokenURI(ev.poaps, Top.id), ev.vault)
       [] Top.op = "pay" -> UNCHANGED events
  /\ Leave
  /\ UNCHANGED <<Controller, registry, coffer, clock>>

Revert ==
  /\ stack # <<>>
  /\ Controller' = Top.saved.Controller
  /\ registry' = Top.saved.registry
  /\ coffer' = Top.saved.coffer
  /\ events' = Top.saved.events
  /\ Leave
  /\ UNCHANGED clock

Tick ==
  /\ stack = <<>>
  /\ clock < MaxTime
  /\ clock' = clock + 1
  /\ UNCHANGED <<Controller, registry, coffer, events, stack, gas>>

Batches == UNION {[1 .. n -> Accounts] : n \in 0 .. MaxBatch}

FactoryCall(a) ==
  \/ \E id \in Ids, admin \in Accounts : CreateID(a, id, admin)
  \/ \E id \in Ids, plan \in EventPlans, c \in Addresses :
       CreateEvent(a, id, plan, c)
  \/ \E new \in Accounts : ChangeController(a, new)
  \/ \E id \in Ids :
       \/ WithdrawFromChild(a, id)
       \/ \E open \in BOOLEAN : SetWithdrawalChild(a, id, open)
  \/ \E amount \in Amounts :
       \/ \E to \in Accounts : WithdrawFactory(a, amount, to)
       \/ \E c \in DOMAIN events : WithdrawFactoryToEvent(a, amount, c)
  \/ \E value \in Values : Receive(a, value)

EventCall(a, c) ==
  \/ \E value \in Values : Register(a, c, value) \/ Give(a, c, value)
  \/ \E batch \in Batches : SetAttenders(a, c, batch)
  \/ ClaimAttendanceToken(a, c)
  \/ \E amount \in Amounts : WithdrawEthEventAdmin(a, c, amount)

Next ==
  \/ \E a \in Accounts :
       \/ FactoryCall(a)
       \/ \E c \in DOMAIN events : EventCall(a, c)
  \/ Unwind
  \/ Revert
  \/ Tick

Spec == Init /\ [][Next]_vars

-----------------------------------------------------------------------------
(* Properties *)

Ops == {"register", "claim", "pay"}

EventTypeOK(ev) ==
  /\ ev = EventState(ev.details, ev.store, ev.tickets, ev.poaps, ev.vault)
  /\ ev.details \in EventDetails
  /\ StateTypeOK(ev.store, ev.tickets, ev.poaps, ev.vault)

\* The types of what all contracts store together.
ContractsTypeOK(state) ==
  /\ state.Controller \in Accounts
  /\ state.registry \in Registries
  /\ state.coffer \in Coffers
  /\ DOMAIN state.events \subseteq Addresses
  /\ \A c \in DOMAIN state.events : EventTypeOK(state.events[c])

\* Every variable has its type, and the states kept for a revert have it too.
TypeOK ==
  /\ ContractsTypeOK(State)
  /\ CallsInv
  /\ \A i \in DOMAIN stack : /\ stack[i].op \in Ops
                           /\ ContractsTypeOK(stack[i].saved)
  /\ clock \in Nat

DetailsOf(evs) == [c \in DOMAIN evs |-> evs[c].details]

\* The registry and the events agree: every event is listed once, is found
\* under its address and its id, belongs to whom the id was created for, and
\* an id that is not used leads nowhere, whatever createEvent was undone.
RegistryConsistent == RegistryOK(registry, DetailsOf(events))

\* The fees the events paid, wei by wei, each with the event it came from:
\* their number is the sum over all events.
FeeWeis(evs) ==
  UNION {{c} \X (1 .. evs[c].vault.platform) : c \in DOMAIN evs}

FeesBalance(cof, evs) ==
  cof.balance + cof.paid = cof.gifts + Cardinality(FeeWeis(evs))

\* What the factory holds and has paid out is what its events paid it and
\* what it was given: no fee is lost or counted twice between contracts.
FeesArrive == FeesBalance(coffer, events)

\* Every event stays consistent in itself, whatever calls and reverts go on
\* across the factory and other events.
EventsConsistent ==
  \A c \in DOMAIN events :
    LET ev == events[c] IN
    StateOK(ev.details, ev.store, ev.tickets, ev.poaps, ev.vault)

\* Only its organizer and the Controller may draw from an event: the message
\* of onlyEventAdminOrController (Unauthorized, not Admin or controller).
AdminOrControllerDraws ==
  \A c \in DOMAIN events, a \in Accounts, amount \in Amounts :
    LET ev == events[c] IN
    CanWithdrawEventAdmin(ev.details, ev.store, ev.vault, a, amount)
      => a \in {ev.details.eventAdmin, Controller}

-----------------------------------------------------------------------------
(* The inductive invariant: what holds of the present state of all contracts *)
(* holds of every state kept for a revert.                                   *)

EventOK(ev) ==
  /\ EventTypeOK(ev)
  /\ StateOK(ev.details, ev.store, ev.tickets, ev.poaps, ev.vault)

ContractsOK(ctl, reg, cof, evs) ==
  /\ ctl \in Accounts
  /\ cof \in Coffers
  /\ DOMAIN evs \subseteq Addresses
  /\ \A c \in DOMAIN evs : EventOK(evs[c])
  /\ RegistryOK(reg, DetailsOf(evs))
  /\ IsFiniteSet(FeeWeis(evs))
  /\ FeesBalance(cof, evs)

FramesOK ==
  \A i \in DOMAIN stack :
    /\ stack[i].op \in Ops
    /\ LET saved == stack[i].saved IN
       ContractsOK(saved.Controller, saved.registry, saved.coffer, saved.events)

IInv ==
  /\ ContractsOK(Controller, registry, coffer, events)
  /\ CallsInv
  /\ FramesOK
  /\ clock \in Nat

-----------------------------------------------------------------------------
(* What the rest of the chain sees: the state between transactions *)

Committed == IF stack = <<>> THEN State ELSE stack[1].saved

Abstract == INSTANCE Registry WITH
  None <- ZeroAddress,
  owner <- [id \in Ids |-> Committed.registry.event_To_ID[id].admin],
  place <- [id \in Ids |-> Committed.registry.event_To_ID[id].eventAddress],
  terms <- DetailsOf(Committed.events)

\* Between transactions ids are given out and turned into events once.
ImplementsRegistry == Abstract!Spec

=============================================================================
