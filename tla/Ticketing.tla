----------------------------- MODULE Ticketing -----------------------------
(***************************************************************************)
(* One event: its iTicketing contract and the Poap contract that goes with *)
(* it, called by accounts some of which are contracts themselves.          *)
(*                                                                         *)
(* A function that hands control to a contract is split at that point:     *)
(* the rest of it is Unwind, and Revert undoes it together with whatever   *)
(* was called from within it, and leaves the functions below as they were. *)
(* A call whose guard is false reverts at once, which is a stuttering      *)
(* step.                                                                   *)
(***************************************************************************)
EXTENDS TicketOps, Calls

CONSTANTS
  Operators,   \* the accounts that may be the Controller of the factory
  Recipients,  \* the accounts tokens are transferred to
  Events,      \* the events createEvent may have deployed
  Values,      \* ether sent along with a call
  Amounts,     \* amounts organizers ask for
  MaxGifts,    \* bound on the ether received outside of register
  MaxBatch,    \* bound on the length of a setAttenders batch
  MaxTime      \* bound on block.timestamp

ASSUME TicketingAssumption ==
  /\ IsFiniteSet(Accounts)
  /\ Wallets \subseteq Accounts
  /\ Operators \subseteq Accounts
  /\ Recipients \subseteq Accounts
  /\ Events \subseteq EventDetails
  /\ Values \subseteq Nat
  /\ Amounts \subseteq Nat
  /\ {MaxGifts, MaxBatch, MaxTime} \subseteq Nat

VARIABLES
  event,    \* the constructor's arguments
  store,    \* the state variables of iTicketing
  tickets,  \* the ERC721 ledger of iTicketing
  poaps,    \* the ERC721 ledger of Poap
  vault,    \* the ether of iTicketing
  clock     \* block.timestamp

vars == <<event, store, tickets, poaps, vault, stack, gas, clock>>

State == [store |-> store, tickets |-> tickets, poaps |-> poaps, vault |-> vault]

Ops == {"register", "claim", "pay", "transfer"}

\* Hand control to a contract, which may answer or not.
Await(op, id) == Push([op |-> op, id |-> id, saved |-> State])

-----------------------------------------------------------------------------
(* The functions *)

Init ==
  /\ event \in Events
  /\ store = NewStorage
  /\ tickets = NewLedger
  /\ poaps = NewLedger
  /\ vault = NewVault
  /\ NoCalls
  /\ clock = 1

Register(a, value) ==
  LET id == NextId(event, store) IN
  /\ MayCall(a)
  /\ CanRegister(event, store, tickets, a, value, clock)
  /\ store' = Registered(store, a, value)
  /\ vault' = Deposited(vault, value)
  /\ \/ /\ a \in Wallets
        /\ tickets' = Mint(tickets, a, id)
        /\ Await("register", id)
     \/ /\ a \notin Wallets
        /\ tickets' = SetTokenURI(Mint(tickets, a, id), id)
        /\ Done
  /\ UNCHANGED <<event, poaps, clock>>

SetAttenders(a, batch) ==
  /\ MayCall(a)
  /\ CanSetAttenders(event, store, a, batch)
  /\ store' = Attended(store, batch)
  /\ Done
  /\ UNCHANGED <<event, tickets, poaps, vault, clock>>

ClaimAttendanceToken(a) ==
  LET id == NextId(event, store) IN
  /\ MayCall(a)
  /\ CanClaim(event, store, poaps, a)
  /\ store' = Claimed(store, a)
  /\ \/ /\ a \in Wallets
        /\ poaps' = Mint(poaps, a, id)
        /\ Await("claim", id)
     \/ /\ a \notin Wallets
        /\ poaps' = SetTokenURI(Mint(poaps, a, id), id)
        /\ Done
  /\ UNCHANGED <<event, tickets, vault, clock>>

WithdrawEthEventAdmin(a, amount) ==
  /\ MayCall(a)
  /\ CanWithdrawEventAdmin(event, store, vault, a, amount)
  /\ store' = WithdrawnByEventAdmin(store, amount)
  /\ vault' = PaidToOrganizer(vault, amount)
  /\ IF a \in Wallets THEN Await("pay", 0) ELSE Done
  /\ UNCHANGED <<event, tickets, poaps, clock>>

\* The factory calls, on behalf of its Controller.
FactoryMayCall == \E a \in Operators : MayCall(a)

OpenWithdrawal ==
  /\ FactoryMayCall
  /\ ~store.withdrawIsOpen
  /\ store' = [store EXCEPT !.withdrawIsOpen = TRUE]
  /\ Done
  /\ UNCHANGED <<event, tickets, poaps, vault, clock>>

PauseWithdrawal ==
  /\ FactoryMayCall
  /\ store.withdrawIsOpen
  /\ store' = [store EXCEPT !.withdrawIsOpen = FALSE]
  /\ Done
  /\ UNCHANGED <<event, tickets, poaps, vault, clock>>

\* The receive function of the factory does nothing with the control it gets.
Withdraw ==
  /\ FactoryMayCall
  /\ CanWithdraw(store, vault)
  /\ store' = Withdrawn(store)
  /\ vault' = PaidToPlatform(vault, FeeOf(store.totalEthFromTicket))
  /\ Done
  /\ UNCHANGED <<event, tickets, poaps, clock>>

\* receive(): ether from anyone, for nothing.
Receive(a, value) ==
  /\ MayCall(a)
  /\ vault.gifts + value <= MaxGifts
  /\ vault' = Gifted(vault, value)
  /\ Done
  /\ UNCHANGED <<event, store, tickets, poaps, clock>>

\* transferFrom and safeTransferFrom, by the owner or whom the owner approved
\* (here: anyone); the safe one calls a receiver that is a contract.
Transfer(a, ledger, to, id) ==
  /\ MayCall(a)
  /\ Exists(ledger, id)
  /\ \/ Done
     \/ to \in Wallets /\ Await("transfer", id)
  /\ UNCHANGED <<event, store, vault, clock>>

TransferTicket(a, to, id) ==
  /\ Transfer(a, tickets, to, id)
  /\ tickets' = Move(tickets, to, id)
  /\ UNCHANGED poaps

TransferPoap(a, to, id) ==
  /\ Transfer(a, poaps, to, id)
  /\ poaps' = Move(poaps, to, id)
  /\ UNCHANGED tickets

-----------------------------------------------------------------------------
(* The end of a function that handed control over *)

\* register and Poap.safeMint keep the number in a local variable; reading the
\* counter again would find the number of the last nested call.
MintedIdReread == event.eventNftId + store.tokenIds

MintedId == Top.id

\* The callback accepted: after a mint _setTokenURI remains to be done, which
\* requires the token to exist; nothing remains after a payment or a transfer.
Unwind ==
  /\ stack # <<>>
  /\ Top.op = "register" => Exists(tickets, MintedId)
  /\ Top.op = "claim" => Exists(poaps, MintedId)
  /\ tickets' = IF Top.op = "register" THEN SetTokenURI(tickets, MintedId)
                                       ELSE tickets
  /\ poaps' = IF Top.op = "claim" THEN SetTokenURI(poaps, MintedId) ELSE poaps
  /\ Leave
  /\ UNCHANGED <<event, store, vault, clock>>

\* The callback refused, failed or ran out of gas, or the caller gave up.
Revert ==
  /\ stack # <<>>
  /\ store' = Top.saved.store
  /\ tickets' = Top.saved.tickets
  /\ poaps' = Top.saved.poaps
  /\ vault' = Top.saved.vault
  /\ Leave
  /\ UNCHANGED <<event, clock>>

\* Every call of a transaction sees the timestamp of its block.
Tick ==
  /\ stack = <<>>
  /\ clock < MaxTime
  /\ clock' = clock + 1
  /\ UNCHANGED <<event, store, tickets, poaps, vault, stack, gas>>

Batches == UNION {[1 .. n -> Accounts] : n \in 0 .. MaxBatch}

Next ==
  \/ \E a \in Accounts, value \in Values : Register(a, value)
  \/ \E a \in Accounts, batch \in Batches : SetAttenders(a, batch)
  \/ \E a \in Accounts : ClaimAttendanceToken(a)
  \/ \E a \in Accounts, amount \in Amounts : WithdrawEthEventAdmin(a, amount)
  \/ OpenWithdrawal
  \/ PauseWithdrawal
  \/ Withdraw
  \/ \E a \in Accounts, value \in Values : Receive(a, value)
  \/ \E a \in Accounts, to \in Recipients :
       \/ \E id \in DOMAIN tickets.owners : TransferTicket(a, to, id)
       \/ \E id \in DOMAIN poaps.owners : TransferPoap(a, to, id)
  \/ Unwind
  \/ Revert
  \/ Tick

Spec == Init /\ [][Next]_vars

-----------------------------------------------------------------------------
(* Types *)

\* Every variable has its type, and the states kept for a revert have it too.
TypeOK ==
  /\ event \in Events
  /\ StateTypeOK(store, tickets, poaps, vault)
  /\ CallsInv
  /\ \A i \in DOMAIN stack :
       /\ stack[i].op \in Ops
       /\ stack[i].id \in Uint
       /\ StateTypeOK(stack[i].saved.store, stack[i].saved.tickets,
                      stack[i].saved.poaps, stack[i].saved.vault)
  /\ clock \in Nat

-----------------------------------------------------------------------------
(* Safety *)

\* Tickets and attendance tokens share one counter: at every moment, even in
\* the middle of nested mints and after any of them is undone, the numbers up
\* to the counter are in use, each by one token of one contract.
OneNumberOneToken == NumberingOK(event, store, tickets, poaps)

\* One ticket for each participant, no more participants than seats (the code
\* only compares the two for equality), one attendance token for each who
\* claimed, and nobody claimed without having attended and registered.
Headcount == HeadcountOK(event, store, tickets, poaps)

\* The recorded sales are what the participants paid, and every wei that came
\* in is either still there or was paid out, whatever reverted on the way.
BooksBalance == MoneyOK(event, store, vault)

\* The organizer's share and the platform's fee are recorded by different
\* calls, at different times and totals; together they never promise more
\* than was sold.
QuotasWithinSales == QuotasOK(store)

Minting(op) == {stack[i].id : i \in {j \in DOMAIN stack : stack[j].op = op}}

\* Every token shows its URI, except those whose receiver still has control
\* in the middle of register or claim: _setTokenURI comes after the callback.
TokensShowTheirURI ==
  /\ \A id \in DOMAIN tickets.owners \ Minting("register") :
       TicketURI(tickets, id) = "eventUri"
  /\ DOMAIN poaps.owners \ Minting("claim") \subseteq poaps.uris

\* As long as the numbers of two tokens per seat fit, numbering is never a
\* reason to turn anyone away: who is marked as attending and has not claimed
\* can claim, and who pays for a free seat in time can register.
NumbersNeverBlock ==
  Fits(event.eventNftId + 2 * event.totalExpectedParticipants) =>
    /\ \A a \in store.attendedEvent \ store.hasClaimed :
         CanClaim(event, store, poaps, a)
    /\ \A a \in Accounts \ store.hasRegistered :
         /\ store.totalParticipants < event.totalExpectedParticipants
         /\ clock \in event.regStartDateAndTime .. event.regDeadline
         /\ Fits(store.totalEthFromTicket + event.eventFee)
         => CanRegister(event, store, tickets, a, event.eventFee, clock)

\* The check in withdrawEthEventAdmin taken at its word: the organizer is
\* paid no more, all in all, than the sales without the platform's fee.
OrganizerStaysWithinShare ==
  vault.organizer <= store.totalEthFromTicket - FeeOf(store.totalEthFromTicket)

-----------------------------------------------------------------------------
(* The inductive invariant.  A revert brings back a state that was saved     *)
(* earlier, so what is to hold of the current state has to hold of every     *)
(* saved state too.                                                          *)

FramesOK ==
  \A i \in DOMAIN stack :
    /\ stack[i].op \in Ops
    /\ stack[i].id \in Uint
    /\ StateOK(event, stack[i].saved.store, stack[i].saved.tickets,
               stack[i].saved.poaps, stack[i].saved.vault)

IInv ==
  /\ event \in Events
  /\ clock \in Nat
  /\ StateOK(event, store, tickets, poaps, vault)
  /\ CallsInv
  /\ FramesOK

-----------------------------------------------------------------------------
(* What the rest of the chain sees: the state between transactions *)

Committed == IF stack = <<>> THEN State ELSE stack[1].saved

StageOf(s, a) ==
  IF a \in s.hasClaimed THEN "claimed"
  ELSE IF a \in s.attendedEvent THEN "attended"
  ELSE IF a \in s.hasRegistered THEN "registered" ELSE "none"

Plan == [seats |-> event.totalExpectedParticipants,
         opens |-> event.regStartDateAndTime, closes |-> event.regDeadline]

Abstract == INSTANCE Attendance WITH
  plan <- Plan,
  stage <- [a \in Accounts |-> StageOf(Committed.store, a)]

\* Between transactions people only move forward, one seat each, and take
\* seats only while registration is open.
ImplementsAttendance == Abstract!Spec

-----------------------------------------------------------------------------
(* Liveness *)

\* A transaction ends, for its gas is finite; and an account that keeps
\* trying to claim gets into a block again and again.
FairSpec ==
  /\ Spec
  /\ WF_vars(Unwind \/ Revert)
  /\ \A a \in Accounts \ Wallets : SF_vars(ClaimAttendanceToken(a))

\* Who was marked as attending gets the attendance token.
AttendeesGetToken ==
  \A a \in Accounts \ Wallets :
    a \in Committed.store.attendedEvent ~> a \in Committed.store.hasClaimed

=============================================================================
