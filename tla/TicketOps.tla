----------------------------- MODULE TicketOps -----------------------------
(***************************************************************************)
(* The storage of one event and what each function of its two contracts,   *)
(* iTicketing (src/src/ticket.sol) and Poap (src/src/poap.sol), reads and  *)
(* writes of it.  A function f is a guard CanF, the conjunction of every   *)
(* check that would revert the call, and the storage it leaves behind.     *)
(*                                                                         *)
(* A storage has four parts, as the contracts keep it:                     *)
(*   s  the state variables of iTicketing                                  *)
(*   l  an ERC721 ledger: owners (token -> owner, defined on the minted    *)
(*      tokens) and uris (the tokens whose URI is set); iTicketing and     *)
(*      Poap inherit one each                                              *)
(*   v  the ether of iTicketing: its balance, and the history of what came *)
(*      in as a gift and went out to the organizer and to the platform     *)
(*   e  what the constructor fixes for good                                *)
(*                                                                         *)
(* Some definitions are preceded by a faulty variant of themselves         *)
(* (RegisteredUnpaid, CanClaimAgain, ...).  Nothing uses these: put in the *)
(* place of the definition, each breaks the property it was written for.   *)
(***************************************************************************)
EXTENDS Integers, FiniteSets

CONSTANTS Accounts,  \* addresses that call the contracts, the zero address excluded
          MaxUint    \* largest uint256

ASSUME MaxUintAssumption == MaxUint \in Nat

Uint == 0 .. MaxUint

Fits(n) == n <= MaxUint

\* What TicketFactory.createEvent lets through to the constructor.
EventDetails ==
  {e \in [eventNftId : Uint, eventFee : Uint, totalExpectedParticipants : Uint,
          regStartDateAndTime : Uint, regDeadline : Uint,
          eventAdmin : Accounts, Controller : Accounts] :
     /\ e.eventNftId # 0
     /\ 0 < e.regStartDateAndTime
     /\ e.regStartDateAndTime < e.regDeadline}

TicketStorage ==
  [tokenIds : Uint, totalParticipants : Uint, totalEthFromTicket : Uint,
   OrganizersEthShare : Uint, platformFee : Uint, withdrawIsOpen : BOOLEAN,
   hasRegistered : SUBSET Accounts, attendedEvent : SUBSET Accounts,
   hasClaimed : SUBSET Accounts]

Vaults == [balance : Nat, gifts : Nat, organizer : Nat, platform : Nat]

LedgerTypeOK(l) ==
  /\ DOMAIN l.owners \subseteq Uint
  /\ l.owners \in [DOMAIN l.owners -> Accounts]
  /\ l.uris \subseteq DOMAIN l.owners

NewStorage ==
  [tokenIds |-> 0, totalParticipants |-> 0, totalEthFromTicket |-> 0,
   OrganizersEthShare |-> 0, platformFee |-> 0, withdrawIsOpen |-> FALSE,
   hasRegistered |-> {}, attendedEvent |-> {}, hasClaimed |-> {}]

NewLedger == [owners |-> [id \in {} |-> {}], uris |-> {}]

NewVault == [balance |-> 0, gifts |-> 0, organizer |-> 0, platform |-> 0]

-----------------------------------------------------------------------------
(* ERC721 and ERC721URIStorage, as far as iTicketing and Poap use them *)

Exists(l, id) == id \in DOMAIN l.owners

Mint(l, to, id) ==
  [owners |-> [k \in DOMAIN l.owners \cup {id} |->
                 IF k = id THEN to ELSE l.owners[k]],
   uris   |-> l.uris]

SetTokenURI(l, id) == [owners |-> l.owners, uris |-> l.uris \cup {id}]

Move(l, to, id) ==
  [owners |-> [l.owners EXCEPT ![id] = to], uris |-> l.uris]

-----------------------------------------------------------------------------
(* Registration, attendance and the attendance token *)

\* Counters increments without an overflow check.
Increment(n) == IF n = MaxUint THEN 0 ELSE n + 1

\* Tickets and attendance tokens are numbered from the same counter.
NextId(e, s) == e.eventNftId + Increment(s.tokenIds)

RegistrationOpenLate(e, now) == e.regStartDateAndTime <= now

RegistrationOpen(e, now) ==
  /\ e.regStartDateAndTime <= now
  /\ now <= e.regDeadline

CanRegister(e, s, tickets, a, value, now) ==
  /\ Fits(NextId(e, s))
  /\ e.totalExpectedParticipants # s.totalParticipants
  /\ a \notin s.hasRegistered
  /\ RegistrationOpen(e, now)
  /\ \/ e.eventFee = 0 /\ value = 0
     \/ e.eventFee > 0 /\ value = e.eventFee
  /\ Fits(s.totalEthFromTicket + value)
  /\ ~Exists(tickets, NextId(e, s))

RegisteredUnpaid(s, a, value) ==
  [s EXCEPT !.tokenIds = Increment(@),
            !.hasRegistered = @ \cup {a},
            !.totalParticipants = @ + 1]

RegisteredUncounted(s, a, value) ==
  [s EXCEPT !.hasRegistered = @ \cup {a},
            !.totalParticipants = @ + 1,
            !.totalEthFromTicket = @ + value]

Registered(s, a, value) ==
  [s EXCEPT !.tokenIds = Increment(@),
            !.hasRegistered = @ \cup {a},
            !.totalParticipants = @ + 1,
            !.totalEthFromTicket = @ + value]

CanSetAttendersUnchecked(e, s, a, batch) == a = e.eventAdmin

\* The loop reverts on the first entry that is not registered or is already
\* marked, by an earlier call or earlier in the same batch.
CanSetAttenders(e, s, a, batch) ==
  /\ a = e.eventAdmin
  /\ \A i \in DOMAIN batch :
       /\ batch[i] \in s.hasRegistered
       /\ batch[i] \notin s.attendedEvent
       /\ \A j \in 1 .. i - 1 : batch[j] # batch[i]

Attended(s, batch) ==
  [s EXCEPT !.attendedEvent = @ \cup {batch[i] : i \in DOMAIN batch}]

CanClaimAgain(e, s, poaps, a) ==
  /\ Fits(NextId(e, s))
  /\ a \in s.attendedEvent
  /\ ~Exists(poaps, NextId(e, s))

CanClaim(e, s, poaps, a) ==
  /\ Fits(NextId(e, s))
  /\ a \in s.attendedEvent
  /\ a \notin s.hasClaimed
  /\ ~Exists(poaps, NextId(e, s))

ClaimedUncounted(s, a) == [s EXCEPT !.hasClaimed = @ \cup {a}]

Claimed(s, a) ==
  [s EXCEPT !.tokenIds = Increment(@), !.hasClaimed = @ \cup {a}]

-----------------------------------------------------------------------------
(* Money *)

FeeOf(total) == (total * 5) \div 100

CanWithdrawEventAdminUpToTotal(e, s, v, a, amount) ==
  /\ a \in {e.eventAdmin, e.Controller}
  /\ Fits(s.totalEthFromTicket * 5)
  /\ s.withdrawIsOpen
  /\ amount <= s.totalEthFromTicket
  /\ amount <= v.balance

\* total * 5 is checked arithmetic; the difference cannot underflow.
CanWithdrawEventAdmin(e, s, v, a, amount) ==
  /\ a \in {e.eventAdmin, e.Controller}
  /\ Fits(s.totalEthFromTicket * 5)
  /\ s.withdrawIsOpen
  /\ amount <= s.totalEthFromTicket - FeeOf(s.totalEthFromTicket)
  /\ amount <= v.balance

WithdrawnByEventAdmin(s, amount) ==
  [s EXCEPT
     !.platformFee = FeeOf(s.totalEthFromTicket),
     !.OrganizersEthShare =
        s.totalEthFromTicket - FeeOf(s.totalEthFromTicket) - amount]

PaidToOrganizer(v, amount) ==
  [v EXCEPT !.balance = @ - amount, !.organizer = @ + amount]

CanWithdraw(s, v) ==
  /\ Fits(s.totalEthFromTicket * 5)
  /\ FeeOf(s.totalEthFromTicket) <= v.balance

WithdrawnAccumulating(s) ==
  [s EXCEPT !.platformFee = @ + FeeOf(s.totalEthFromTicket)]

Withdrawn(s) == [s EXCEPT !.platformFee = FeeOf(s.totalEthFromTicket)]

PaidToPlatform(v, fee) ==
  [v EXCEPT !.balance = @ - fee, !.platform = @ + fee]

Gifted(v, value) == [v EXCEPT !.balance = @ + value, !.gifts = @ + value]

Deposited(v, value) == [v EXCEPT !.balance = @ + value]

-----------------------------------------------------------------------------
(* tokenURI.  iTicketing first reads a mapping _tokenURIs of its own, which *)
(* no function writes, so the answer always comes from the mapping of the   *)
(* same name in ERC721URIStorage.  The result is the part that follows the  *)
(* base URI.                                                                *)

TicketURI(tickets, id) ==
  IF id \in tickets.uris THEN "eventUri" ELSE "tokenId"

-----------------------------------------------------------------------------
(* Consistency of a storage, in named parts; Ticketing says what they mean. *)

StateTypeOK(s, tl, pl, v) ==
  /\ s \in TicketStorage
  /\ LedgerTypeOK(tl)
  /\ LedgerTypeOK(pl)
  /\ v \in Vaults

NumberingOK(e, s, tl, pl) ==
  /\ DOMAIN tl.owners \cup DOMAIN pl.owners =
       e.eventNftId + 1 .. e.eventNftId + s.tokenIds
  /\ DOMAIN tl.owners \cap DOMAIN pl.owners = {}

HeadcountOK(e, s, tl, pl) ==
  /\ s.hasClaimed \subseteq s.attendedEvent
  /\ s.attendedEvent \subseteq s.hasRegistered
  /\ Cardinality(s.hasRegistered) = s.totalParticipants
  /\ Cardinality(DOMAIN tl.owners) = s.totalParticipants
  /\ Cardinality(DOMAIN pl.owners) = Cardinality(s.hasClaimed)
  /\ s.totalParticipants <= e.totalExpectedParticipants

MoneyOK(e, s, v) ==
  /\ s.totalEthFromTicket = e.eventFee * s.totalParticipants
  /\ v.balance + v.organizer + v.platform = s.totalEthFromTicket + v.gifts

QuotasOK(s) == s.OrganizersEthShare + s.platformFee <= s.totalEthFromTicket

\* The recorded share is bounded by the share of the present total and the
\* recorded fee by the present fee: what QuotasOK needs to be preserved.
QuotasInv(s) ==
  /\ s.OrganizersEthShare + FeeOf(s.totalEthFromTicket) <= s.totalEthFromTicket
  /\ s.platformFee <= FeeOf(s.totalEthFromTicket)

StateOK(e, s, tl, pl, v) ==
  /\ StateTypeOK(s, tl, pl, v)
  /\ Fits(e.eventNftId + s.tokenIds)
  /\ NumberingOK(e, s, tl, pl)
  /\ HeadcountOK(e, s, tl, pl)
  /\ MoneyOK(e, s, v)
  /\ QuotasInv(s)

=============================================================================
