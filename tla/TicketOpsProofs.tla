--------------------------- MODULE TicketOpsProofs ---------------------------
(***************************************************************************)
(* Facts about the operators of TicketOps, for every value of Accounts and *)
(* MaxUint.                                                                *)
(***************************************************************************)
EXTENDS TicketOps, FiniteSetTheorems, TLAPS

(* The platform's fee (calcQuotas) is a natural number no greater than the  *)
(* total it is taken from, so the organizer's share never underflows.       *)
LEMMA FeeBounds ==
  ASSUME NEW t \in Nat
  PROVE  FeeOf(t) \in Nat /\ FeeOf(t) <= t
BY DEF FeeOf

(* When sales grow, the fee grows by no more than the sales do, in spite of *)
(* the rounding: a fee computed earlier and a share computed earlier still  *)
(* fit into the later total.                                                *)
LEMMA FeeSlope ==
  ASSUME NEW t \in Nat, NEW d \in Nat
  PROVE  FeeOf(t) <= FeeOf(t + d) /\ FeeOf(t + d) <= FeeOf(t) + d
BY DEF FeeOf

(* Minting (ERC721 _mint) a number that is not in use adds it to the        *)
(* numbers in use, once, and leaves every other token with its owner.       *)
LEMMA MintAddsToken ==
  ASSUME NEW l, LedgerTypeOK(l), NEW to \in Accounts, NEW id \in Uint,
         IsFiniteSet(DOMAIN l.owners), ~Exists(l, id)
  PROVE  /\ LedgerTypeOK(Mint(l, to, id))
         /\ DOMAIN Mint(l, to, id).owners = DOMAIN l.owners \cup {id}
         /\ IsFiniteSet(DOMAIN Mint(l, to, id).owners)
         /\ Cardinality(DOMAIN Mint(l, to, id).owners) =
              Cardinality(DOMAIN l.owners) + 1
<1>1. DOMAIN Mint(l, to, id).owners = DOMAIN l.owners \cup {id}
  BY DEF Mint
<1>2. LedgerTypeOK(Mint(l, to, id))
  BY DEF Mint, LedgerTypeOK
<1>3. QED
  BY <1>1, <1>2, FS_AddElement DEF Exists

-----------------------------------------------------------------------------
(* Each function of the contracts keeps a consistent storage consistent.    *)

(* The tokens in use are finitely many: their numbers are an interval.      *)
LEMMA FinitelyManyTokens ==
  ASSUME NEW e \in EventDetails, NEW s, NEW tl, NEW pl, NEW v,
         StateOK(e, s, tl, pl, v)
  PROVE  IsFiniteSet(DOMAIN tl.owners) /\ IsFiniteSet(DOMAIN pl.owners)
<1>1. /\ e.eventNftId + 1 \in Int
      /\ e.eventNftId + s.tokenIds \in Int
  BY MaxUintAssumption
  DEF StateOK, StateTypeOK, TicketStorage, EventDetails, Uint
<1> DEFINE ids == e.eventNftId + 1 .. e.eventNftId + s.tokenIds
<1>2. IsFiniteSet(ids)
  BY <1>1, FS_Interval
<1>3. DOMAIN tl.owners \subseteq ids /\ DOMAIN pl.owners \subseteq ids
  BY DEF StateOK, NumberingOK
<1>4. QED
  BY <1>2, <1>3, FS_Subset

(* The next number is one past the numbers in use, and the counter does not *)
(* wrap: the numbers in use fit into a uint256.                             *)
LEMMA NextNumber ==
  ASSUME NEW e \in EventDetails, NEW s, NEW tl, NEW pl, NEW v,
         StateOK(e, s, tl, pl, v)
  PROVE  /\ Increment(s.tokenIds) = s.tokenIds + 1
         /\ NextId(e, s) = e.eventNftId + s.tokenIds + 1
         /\ NextId(e, s) \notin DOMAIN tl.owners \cup DOMAIN pl.owners
<1>1. /\ s.tokenIds \in Nat
      /\ e.eventNftId \in Nat \ {0}
      /\ e.eventNftId + s.tokenIds <= MaxUint
  BY MaxUintAssumption
  DEF StateOK, StateTypeOK, TicketStorage, EventDetails, Uint, Fits
<1>2. Increment(s.tokenIds) = s.tokenIds + 1
  BY <1>1, MaxUintAssumption DEF Increment
<1>3. NextId(e, s) = e.eventNftId + s.tokenIds + 1
  BY <1>1, <1>2 DEF NextId
<1>4. QED
  BY <1>1, <1>2, <1>3 DEF StateOK, NumberingOK

(* register, up to the point where the receiver is called.                  *)
LEMMA RegisteredOK ==
  ASSUME IsFiniteSet(Accounts),
         NEW e \in EventDetails, NEW s, NEW tl, NEW pl, NEW v, NEW now,
         NEW a \in Accounts, NEW value \in Nat,
         StateOK(e, s, tl, pl, v),
         CanRegister(e, s, tl, a, value, now)
  PROVE  StateOK(e, Registered(s, a, value), Mint(tl, a, NextId(e, s)), pl,
                 Deposited(v, value))
<1> DEFINE id == NextId(e, s)
           s1 == Registered(s, a, value)
           tl1 == Mint(tl, a, id)
           v1 == Deposited(v, value)
<1> HIDE DEF id, s1, tl1, v1
<1>1. /\ Increment(s.tokenIds) = s.tokenIds + 1
      /\ id = e.eventNftId + s.tokenIds + 1
      /\ id \notin DOMAIN tl.owners \cup DOMAIN pl.owners
  BY NextNumber DEF id
<1>2. /\ s \in TicketStorage /\ v \in Vaults
      /\ s.tokenIds \in Nat /\ s.totalParticipants \in Nat
      /\ s.totalEthFromTicket \in Nat
      /\ e.eventNftId \in Nat /\ e.eventFee \in Nat
      /\ e.totalExpectedParticipants \in Uint
  BY MaxUintAssumption
  DEF StateOK, StateTypeOK, TicketStorage, EventDetails, Uint
<1>3. /\ s1.tokenIds = s.tokenIds + 1
      /\ s1.hasRegistered = s.hasRegistered \cup {a}
      /\ s1.totalParticipants = s.totalParticipants + 1
      /\ s1.totalEthFromTicket = s.totalEthFromTicket + value
      /\ s1.attendedEvent = s.attendedEvent /\ s1.hasClaimed = s.hasClaimed
      /\ s1.platformFee = s.platformFee
      /\ s1.OrganizersEthShare = s.OrganizersEthShare
  BY <1>1, <1>2 DEF s1, Registered, TicketStorage
<1>4. /\ Fits(id) /\ value = e.eventFee /\ a \notin s.hasRegistered
      /\ Fits(s.totalEthFromTicket + value)
      /\ e.totalExpectedParticipants # s.totalParticipants
  BY <1>2 DEF CanRegister, id
<1>5. /\ LedgerTypeOK(tl1)
      /\ DOMAIN tl1.owners = DOMAIN tl.owners \cup {id}
      /\ Cardinality(DOMAIN tl1.owners) = Cardinality(DOMAIN tl.owners) + 1
  <2>1. id \in Uint
    BY <1>1, <1>2, <1>4 DEF Uint, Fits
  <2>2. IsFiniteSet(DOMAIN tl.owners) /\ LedgerTypeOK(tl)
    BY FinitelyManyTokens DEF StateOK, StateTypeOK
  <2>3. QED
    BY <1>1, <2>1, <2>2, MintAddsToken DEF Exists, tl1
<1>6. s.totalParticipants + 1 <= e.totalExpectedParticipants
  BY <1>2, <1>4 DEF StateOK, HeadcountOK, Uint
<1>7. StateTypeOK(s1, tl1, pl, v1)
  <2>1. s1 \in TicketStorage
    <3>1. /\ s.tokenIds + 1 \in Uint
          /\ s.totalParticipants + 1 \in Uint
          /\ s.totalEthFromTicket + value \in Uint
      BY <1>1, <1>2, <1>4, <1>6, MaxUintAssumption DEF Uint, Fits
    <3>2. QED
      BY <1>1, <1>2, <3>1 DEF s1, Registered, TicketStorage
  <2>2. v1 \in Vaults
    BY <1>2 DEF v1, Deposited, Vaults
  <2>3. QED
    BY <1>5, <2>1, <2>2 DEF StateOK, StateTypeOK
<1>8. Fits(e.eventNftId + s1.tokenIds)
  BY <1>1, <1>2, <1>3, <1>4 DEF Fits
<1>9. NumberingOK(e, s1, tl1, pl)
  BY <1>1, <1>2, <1>3, <1>5 DEF StateOK, NumberingOK
<1>10. HeadcountOK(e, s1, tl1, pl)
  <2>1. IsFiniteSet(s.hasRegistered)
    BY <1>2, FS_Subset DEF TicketStorage
  <2>2. Cardinality(s.hasRegistered \cup {a}) = Cardinality(s.hasRegistered) + 1
    BY <1>4, <2>1, FS_AddElement
  <2>3. QED
    BY <1>3, <1>5, <1>6, <2>2 DEF StateOK, HeadcountOK
<1>11. MoneyOK(e, s1, v1)
  <2>1. e.eventFee * (s.totalParticipants + 1) =
          e.eventFee * s.totalParticipants + e.eventFee
    BY <1>2
  <2>2. s1.totalEthFromTicket = e.eventFee * s1.totalParticipants
    BY <1>2, <1>3, <1>4, <2>1 DEF StateOK, MoneyOK
  <2>3. /\ v1.balance = v.balance + value /\ v1.gifts = v.gifts
        /\ v1.organizer = v.organizer /\ v1.platform = v.platform
    BY <1>2 DEF v1, Deposited, Vaults
  <2>4. /\ v.balance \in Nat /\ v.gifts \in Nat
        /\ v.organizer \in Nat /\ v.platform \in Nat
    BY <1>2 DEF Vaults
  <2>5. v.balance + v.organizer + v.platform = s.totalEthFromTicket + v.gifts
    BY DEF StateOK, MoneyOK
  <2>6. v1.balance + v1.organizer + v1.platform = s1.totalEthFromTicket + v1.gifts
    BY <1>2, <1>3, <2>3, <2>4, <2>5
  <2>7. QED
    BY <2>2, <2>6 DEF MoneyOK
<1>12. QuotasInv(s1)
  <2>1. /\ FeeOf(s.totalEthFromTicket) \in Nat
        /\ FeeOf(s.totalEthFromTicket + value) \in Nat
        /\ FeeOf(s.totalEthFromTicket) <= FeeOf(s.totalEthFromTicket + value)
        /\ FeeOf(s.totalEthFromTicket + value) <= FeeOf(s.totalEthFromTicket) + value
    <3>1. s.totalEthFromTicket + value \in Nat
      BY <1>2
    <3>2. QED
      BY <1>2, <3>1, FeeBounds, FeeSlope
  <2>2. s.OrganizersEthShare \in Nat /\ s.platformFee \in Nat
    BY <1>2 DEF TicketStorage, Uint
  <2>3. QED
    BY <1>2, <1>3, <2>1, <2>2 DEF StateOK, QuotasInv
<1>13. QED
  BY <1>7, <1>8, <1>9, <1>10, <1>11, <1>12 DEF StateOK, id, s1, tl1, v1

(* _setTokenURI, when register goes on after the callback, or right after    *)
(* the mint when there is none.                                             *)
LEMMA TicketURISetOK ==
  ASSUME NEW e, NEW s, NEW tl, NEW pl, NEW v, NEW id,
         StateOK(e, s, tl, pl, v), Exists(tl, id)
  PROVE  StateOK(e, s, SetTokenURI(tl, id), pl, v)
BY DEF StateOK, StateTypeOK, LedgerTypeOK, NumberingOK, HeadcountOK, MoneyOK,
       SetTokenURI, Exists

(* _setTokenURI in Poap.safeMint.                                           *)
LEMMA PoapURISetOK ==
  ASSUME NEW e, NEW s, NEW tl, NEW pl, NEW v, NEW id,
         StateOK(e, s, tl, pl, v), Exists(pl, id)
  PROVE  StateOK(e, s, tl, SetTokenURI(pl, id), v)
BY DEF StateOK, StateTypeOK, LedgerTypeOK, NumberingOK, HeadcountOK, MoneyOK,
       SetTokenURI, Exists

(* transferFrom changes the owner of one token and no count.                *)
LEMMA TicketMovedOK ==
  ASSUME NEW e, NEW s, NEW tl, NEW pl, NEW v, NEW id, NEW to \in Accounts,
         StateOK(e, s, tl, pl, v), Exists(tl, id)
  PROVE  StateOK(e, s, Move(tl, to, id), pl, v)
<1>1. DOMAIN Move(tl, to, id).owners = DOMAIN tl.owners
  BY DEF Move, StateOK, StateTypeOK, LedgerTypeOK
<1>2. LedgerTypeOK(Move(tl, to, id))
  BY DEF Move, StateOK, StateTypeOK, LedgerTypeOK, Exists
<1>3. QED
  BY <1>1, <1>2 DEF StateOK, StateTypeOK, NumberingOK, HeadcountOK

(* The same of an attendance token.                                         *)
LEMMA PoapMovedOK ==
  ASSUME NEW e, NEW s, NEW tl, NEW pl, NEW v, NEW id, NEW to \in Accounts,
         StateOK(e, s, tl, pl, v), Exists(pl, id)
  PROVE  StateOK(e, s, tl, Move(pl, to, id), v)
<1>1. DOMAIN Move(pl, to, id).owners = DOMAIN pl.owners
  BY DEF Move, StateOK, StateTypeOK, LedgerTypeOK
<1>2. LedgerTypeOK(Move(pl, to, id))
  BY DEF Move, StateOK, StateTypeOK, LedgerTypeOK, Exists
<1>3. QED
  BY <1>1, <1>2 DEF StateOK, StateTypeOK, NumberingOK, HeadcountOK

(* setAttenders: whoever the loop lets through is registered, so attendance *)
(* stays within registration.                                               *)
LEMMA AttendedOK ==
  ASSUME NEW e, NEW s, NEW tl, NEW pl, NEW v, NEW a, NEW batch,
         StateOK(e, s, tl, pl, v), CanSetAttenders(e, s, a, batch)
  PROVE  StateOK(e, Attended(s, batch), tl, pl, v)
<1> DEFINE marked == {batch[i] : i \in DOMAIN batch}
           s1 == Attended(s, batch)
<1>1. marked \subseteq s.hasRegistered
  BY DEF CanSetAttenders
<1>2. s \in TicketStorage
  BY DEF StateOK, StateTypeOK
<1>3. s.hasRegistered \subseteq Accounts
  BY <1>2 DEF TicketStorage
<1> HIDE DEF marked
<1>4. s1 = [s EXCEPT !.attendedEvent = @ \cup marked]
  BY DEF Attended, marked
<1> HIDE DEF s1
<1>5. s1 \in TicketStorage
  BY <1>1, <1>2, <1>3, <1>4 DEF TicketStorage
<1>6. /\ s1.tokenIds = s.tokenIds
      /\ s1.hasRegistered = s.hasRegistered /\ s1.hasClaimed = s.hasClaimed
      /\ s1.attendedEvent = s.attendedEvent \cup marked
      /\ s1.totalParticipants = s.totalParticipants
      /\ s1.totalEthFromTicket = s.totalEthFromTicket
      /\ s1.platformFee = s.platformFee
      /\ s1.OrganizersEthShare = s.OrganizersEthShare
  BY <1>2, <1>4 DEF TicketStorage
<1>7. StateOK(e, s1, tl, pl, v)
  BY <1>1, <1>5, <1>6
  DEF StateOK, StateTypeOK, NumberingOK, HeadcountOK, MoneyOK, QuotasInv
<1>8. QED
  BY <1>7 DEF s1

(* claimAttendanceToken, up to the point where the receiver is called.      *)
LEMMA ClaimedOK ==
  ASSUME IsFiniteSet(Accounts),
         NEW e \in EventDetails, NEW s, NEW tl, NEW pl, NEW v,
         NEW a \in Accounts,
         StateOK(e, s, tl, pl, v), CanClaim(e, s, pl, a)
  PROVE  StateOK(e, Claimed(s, a), tl, Mint(pl, a, NextId(e, s)), v)
<1> DEFINE id == NextId(e, s)
           s1 == Claimed(s, a)
           pl1 == Mint(pl, a, id)
<1> HIDE DEF id, s1, pl1
<1>1. /\ Increment(s.tokenIds) = s.tokenIds + 1
      /\ id = e.eventNftId + s.tokenIds + 1
      /\ id \notin DOMAIN tl.owners \cup DOMAIN pl.owners
  BY NextNumber DEF id
<1>2. /\ s \in TicketStorage
      /\ s.tokenIds \in Nat /\ e.eventNftId \in Nat
  BY MaxUintAssumption
  DEF StateOK, StateTypeOK, TicketStorage, EventDetails, Uint
<1>3. /\ s1.tokenIds = s.tokenIds + 1
      /\ s1.hasClaimed = s.hasClaimed \cup {a}
      /\ s1.hasRegistered = s.hasRegistered
      /\ s1.attendedEvent = s.attendedEvent
      /\ s1.totalParticipants = s.totalParticipants
      /\ s1.totalEthFromTicket = s.totalEthFromTicket
      /\ s1.platformFee = s.platformFee
      /\ s1.OrganizersEthShare = s.OrganizersEthShare
  BY <1>1, <1>2 DEF s1, Claimed, TicketStorage
<1>4. Fits(id) /\ a \in s.attendedEvent /\ a \notin s.hasClaimed
  BY DEF CanClaim, id
<1>5. id \in Uint /\ s.tokenIds + 1 \in Uint
  BY <1>1, <1>2, <1>4, MaxUintAssumption DEF Uint, Fits
<1>6. /\ LedgerTypeOK(pl1)
      /\ DOMAIN pl1.owners = DOMAIN pl.owners \cup {id}
      /\ Cardinality(DOMAIN pl1.owners) = Cardinality(DOMAIN pl.owners) + 1
  <2>1. IsFiniteSet(DOMAIN pl.owners) /\ LedgerTypeOK(pl)
    BY FinitelyManyTokens DEF StateOK, StateTypeOK
  <2>2. QED
    BY <1>1, <1>5, <2>1, MintAddsToken DEF Exists, pl1
<1>7. StateTypeOK(s1, tl, pl1, v)
  <2>1. s1 \in TicketStorage
    BY <1>1, <1>2, <1>5 DEF s1, Claimed, TicketStorage
  <2>2. QED
    BY <1>6, <2>1 DEF StateOK, StateTypeOK
<1>8. Fits(e.eventNftId + s1.tokenIds)
  BY <1>1, <1>2, <1>3, <1>4 DEF Fits
<1>9. NumberingOK(e, s1, tl, pl1)
  BY <1>1, <1>2, <1>3, <1>6 DEF StateOK, NumberingOK
<1>10. HeadcountOK(e, s1, tl, pl1)
  <2>1. IsFiniteSet(s.hasClaimed)
    BY <1>2, FS_Subset DEF TicketStorage
  <2>2. Cardinality(s.hasClaimed \cup {a}) = Cardinality(s.hasClaimed) + 1
    BY <1>4, <2>1, FS_AddElement
  <2>3. QED
    BY <1>3, <1>4, <1>6, <2>2 DEF StateOK, HeadcountOK
<1>11. MoneyOK(e, s1, v) /\ QuotasInv(s1)
  BY <1>3 DEF StateOK, MoneyOK, QuotasInv
<1>12. QED
  BY <1>7, <1>8, <1>9, <1>10, <1>11 DEF StateOK, id, s1, pl1

(* openWithdrawal and pauseWithdrawal.                                      *)
LEMMA GateOK ==
  ASSUME NEW e, NEW s, NEW tl, NEW pl, NEW v, NEW open \in BOOLEAN,
         StateOK(e, s, tl, pl, v)
  PROVE  StateOK(e, [s EXCEPT !.withdrawIsOpen = open], tl, pl, v)
<1> DEFINE s1 == [s EXCEPT !.withdrawIsOpen = open]
<1>1. s \in TicketStorage
  BY DEF StateOK, StateTypeOK
<1>2. /\ s1 \in TicketStorage
      /\ s1.tokenIds = s.tokenIds
      /\ s1.hasRegistered = s.hasRegistered /\ s1.hasClaimed = s.hasClaimed
      /\ s1.attendedEvent = s.attendedEvent
      /\ s1.totalParticipants = s.totalParticipants
      /\ s1.totalEthFromTicket = s.totalEthFromTicket
      /\ s1.platformFee = s.platformFee
      /\ s1.OrganizersEthShare = s.OrganizersEthShare
  BY <1>1 DEF TicketStorage
<1> HIDE DEF s1
<1>3. StateOK(e, s1, tl, pl, v)
  BY <1>2
  DEF StateOK, StateTypeOK, NumberingOK, HeadcountOK, MoneyOK, QuotasInv
<1>4. QED
  BY <1>3 DEF s1

(* withdrawEthEventAdmin: the share recorded is what is left of the present *)
(* quota after this payment, and the payment is taken from the balance.     *)
LEMMA WithdrawnByEventAdminOK ==
  ASSUME NEW e, NEW s, NEW tl, NEW pl, NEW v, NEW a, NEW amount \in Nat,
         StateOK(e, s, tl, pl, v), CanWithdrawEventAdmin(e, s, v, a, amount)
  PROVE  StateOK(e, WithdrawnByEventAdmin(s, amount), tl, pl,
                 PaidToOrganizer(v, amount))
<1> DEFINE s1 == WithdrawnByEventAdmin(s, amount)
           v1 == PaidToOrganizer(v, amount)
           fee == FeeOf(s.totalEthFromTicket)
           share == s.totalEthFromTicket - fee - amount
<1> HIDE DEF s1, v1, fee, share
<1>1. /\ s \in TicketStorage /\ v \in Vaults
      /\ s.totalEthFromTicket \in Uint
  BY DEF StateOK, StateTypeOK, TicketStorage
<1>2. fee \in Nat /\ fee <= s.totalEthFromTicket
  BY <1>1, FeeBounds DEF fee, Uint
<1>3. amount <= s.totalEthFromTicket - fee /\ amount <= v.balance
  BY DEF CanWithdrawEventAdmin, fee
<1>4. fee \in Uint /\ share \in Uint /\ share + fee <= s.totalEthFromTicket
  BY <1>1, <1>2, <1>3, MaxUintAssumption DEF share, Uint
<1>5. s1 = [s EXCEPT !.platformFee = fee, !.OrganizersEthShare = share]
  BY DEF s1, WithdrawnByEventAdmin, fee, share
<1>6. /\ s1 \in TicketStorage
      /\ s1.tokenIds = s.tokenIds
      /\ s1.hasRegistered = s.hasRegistered /\ s1.hasClaimed = s.hasClaimed
      /\ s1.attendedEvent = s.attendedEvent
      /\ s1.totalParticipants = s.totalParticipants
      /\ s1.totalEthFromTicket = s.totalEthFromTicket
      /\ s1.platformFee = fee /\ s1.OrganizersEthShare = share
  BY <1>1, <1>4, <1>5 DEF TicketStorage
<1>7. /\ v1 \in Vaults
      /\ v1.balance + v1.organizer + v1.platform =
           v.balance + v.organizer + v.platform
      /\ v1.gifts = v.gifts
  <2>1. /\ v.balance \in Nat /\ v.gifts \in Nat
        /\ v.organizer \in Nat /\ v.platform \in Nat
    BY <1>1 DEF Vaults
  <2>2. v.balance - amount \in Nat /\ v.organizer + amount \in Nat
    BY <1>3, <2>1
  <2>3. /\ v1 \in Vaults
        /\ v1.balance = v.balance - amount /\ v1.gifts = v.gifts
        /\ v1.organizer = v.organizer + amount /\ v1.platform = v.platform
    BY <1>1, <2>2 DEF v1, PaidToOrganizer, Vaults
  <2>4. QED
    BY <2>1, <2>3
<1>8. StateTypeOK(s1, tl, pl, v1) /\ MoneyOK(e, s1, v1)
  BY <1>6, <1>7 DEF StateOK, StateTypeOK, MoneyOK
<1>9. QuotasInv(s1)
  BY <1>2, <1>4, <1>6 DEF QuotasInv, fee
<1>10. StateOK(e, s1, tl, pl, v1)
  BY <1>6, <1>8, <1>9 DEF StateOK, NumberingOK, HeadcountOK
<1>11. QED
  BY <1>10 DEF s1, v1

(* withdraw: the platform's fee of the present total goes to the factory.   *)
LEMMA WithdrawnOK ==
  ASSUME NEW e, NEW s, NEW tl, NEW pl, NEW v,
         StateOK(e, s, tl, pl, v), CanWithdraw(s, v)
  PROVE  StateOK(e, Withdrawn(s), tl, pl,
                 PaidToPlatform(v, FeeOf(s.totalEthFromTicket)))
<1> DEFINE s1 == Withdrawn(s)
           fee == FeeOf(s.totalEthFromTicket)
           v1 == PaidToPlatform(v, fee)
<1> HIDE DEF s1, v1, fee
<1>1. /\ s \in TicketStorage /\ v \in Vaults
      /\ s.totalEthFromTicket \in Uint
  BY DEF StateOK, StateTypeOK, TicketStorage
<1>2. fee \in Nat /\ fee <= s.totalEthFromTicket /\ fee \in Uint
  BY <1>1, FeeBounds, MaxUintAssumption DEF fee, Uint
<1>3. fee <= v.balance
  BY DEF CanWithdraw, fee
<1>4. s1 = [s EXCEPT !.platformFee = fee]
  BY DEF s1, Withdrawn, fee
<1>5. /\ s1 \in TicketStorage
      /\ s1.tokenIds = s.tokenIds
      /\ s1.hasRegistered = s.hasRegistered /\ s1.hasClaimed = s.hasClaimed
      /\ s1.attendedEvent = s.attendedEvent
      /\ s1.totalParticipants = s.totalParticipants
      /\ s1.totalEthFromTicket = s.totalEthFromTicket
      /\ s1.platformFee = fee
      /\ s1.OrganizersEthShare = s.OrganizersEthShare
  BY <1>1, <1>2, <1>4 DEF TicketStorage
<1>6. /\ v1 \in Vaults
      /\ v1.balance + v1.organizer + v1.platform =
           v.balance + v.organizer + v.platform
      /\ v1.gifts = v.gifts
  <2>1. /\ v.balance \in Nat /\ v.gifts \in Nat
        /\ v.organizer \in Nat /\ v.platform \in Nat
    BY <1>1 DEF Vaults
  <2>2. v.balance - fee \in Nat /\ v.platform + fee \in Nat
    BY <1>2, <1>3, <2>1
  <2>3. /\ v1 \in Vaults
        /\ v1.balance = v.balance - fee /\ v1.gifts = v.gifts
        /\ v1.organizer = v.organizer /\ v1.platform = v.platform + fee
    BY <1>1, <2>2 DEF v1, PaidToPlatform, Vaults
  <2>4. QED
    BY <1>2, <2>1, <2>3
<1>7. StateTypeOK(s1, tl, pl, v1) /\ MoneyOK(e, s1, v1)
  BY <1>5, <1>6 DEF StateOK, StateTypeOK, MoneyOK
<1>8. QuotasInv(s1)
  BY <1>2, <1>5 DEF StateOK, QuotasInv, fee
<1>9. StateOK(e, s1, tl, pl, v1)
  BY <1>5, <1>7, <1>8 DEF StateOK, NumberingOK, HeadcountOK
<1>10. QED
  BY <1>9 DEF s1, v1, fee

(* receive(): a gift raises the balance and no account of sales.            *)
LEMMA GiftedOK ==
  ASSUME NEW e, NEW s, NEW tl, NEW pl, NEW v, NEW value \in Nat,
         StateOK(e, s, tl, pl, v)
  PROVE  StateOK(e, s, tl, pl, Gifted(v, value))
<1>1. v \in Vaults /\ s \in TicketStorage
  BY DEF StateOK, StateTypeOK
<1>2. /\ Gifted(v, value) \in Vaults
      /\ Gifted(v, value).balance = v.balance + value
      /\ Gifted(v, value).gifts = v.gifts + value
      /\ Gifted(v, value).organizer = v.organizer
      /\ Gifted(v, value).platform = v.platform
  <2>1. v.balance \in Nat /\ v.gifts \in Nat
    BY <1>1 DEF Vaults
  <2>2. v.balance + value \in Nat /\ v.gifts + value \in Nat
    BY <2>1
  <2>3. QED
    BY <1>1, <2>2 DEF Gifted, Vaults
<1>3. s.totalEthFromTicket \in Nat
  BY <1>1 DEF TicketStorage, Uint
<1>4. v.balance + v.organizer + v.platform = s.totalEthFromTicket + v.gifts
  BY DEF StateOK, MoneyOK
<1>5. Gifted(v, value).balance + Gifted(v, value).organizer
        + Gifted(v, value).platform = s.totalEthFromTicket + Gifted(v, value).gifts
  <2>1. /\ v.balance \in Nat /\ v.organizer \in Nat
        /\ v.platform \in Nat /\ v.gifts \in Nat
    BY <1>1 DEF Vaults
  <2>2. QED
    BY <1>2, <1>3, <1>4, <2>1
<1>6. QED
  BY <1>2, <1>5 DEF StateOK, StateTypeOK, MoneyOK

(* The constructor leaves a consistent storage.                             *)
LEMMA NewStateOK ==
  ASSUME NEW e \in EventDetails
  PROVE  StateOK(e, NewStorage, NewLedger, NewLedger, NewVault)
<1>1. e.eventNftId \in Uint /\ e.eventFee \in Nat
      /\ e.totalExpectedParticipants \in Nat
  BY DEF EventDetails, Uint
<1>2. DOMAIN NewLedger.owners = {} /\ LedgerTypeOK(NewLedger)
  BY DEF NewLedger, LedgerTypeOK
<1>3. StateTypeOK(NewStorage, NewLedger, NewLedger, NewVault)
  BY <1>2, MaxUintAssumption
  DEF StateTypeOK, NewStorage, NewVault, TicketStorage, Vaults, Uint
<1>4. Fits(e.eventNftId + NewStorage.tokenIds)
  BY <1>1 DEF Fits, NewStorage, Uint
<1>5. NumberingOK(e, NewStorage, NewLedger, NewLedger)
  BY <1>1, <1>2 DEF NumberingOK, NewStorage, Uint
<1>6. HeadcountOK(e, NewStorage, NewLedger, NewLedger)
  BY <1>1, <1>2, FS_EmptySet DEF HeadcountOK, NewStorage
<1>7. MoneyOK(e, NewStorage, NewVault) /\ QuotasInv(NewStorage)
  BY <1>1 DEF MoneyOK, QuotasInv, NewStorage, NewVault, FeeOf
<1>8. QED
  BY <1>3, <1>4, <1>5, <1>6, <1>7 DEF StateOK

(* Consistency implies the sum of the recorded quotas stays within sales.   *)
LEMMA QuotasFollow ==
  ASSUME NEW e, NEW s, NEW tl, NEW pl, NEW v, StateOK(e, s, tl, pl, v)
  PROVE  QuotasOK(s)
<1>1. /\ s.totalEthFromTicket \in Nat
      /\ s.platformFee \in Nat /\ s.OrganizersEthShare \in Nat
  BY DEF StateOK, StateTypeOK, TicketStorage, Uint
<1>2. FeeOf(s.totalEthFromTicket) \in Nat
  BY <1>1, FeeBounds
<1>3. QED
  BY <1>1, <1>2 DEF StateOK, QuotasInv, QuotasOK

-----------------------------------------------------------------------------
(* Numbers do not run out before seats and claims do. *)

(* The shared counter counts the tickets and the attendance tokens, and so  *)
(* the participants and the claims.                                         *)
LEMMA CounterCounts ==
  ASSUME NEW e \in EventDetails, NEW s, NEW tl, NEW pl, NEW v,
         StateOK(e, s, tl, pl, v)
  PROVE  s.tokenIds = s.totalParticipants + Cardinality(s.hasClaimed)
<1> DEFINE lo == e.eventNftId + 1
           hi == e.eventNftId + s.tokenIds
           T == DOMAIN tl.owners
           P == DOMAIN pl.owners
<1>1. /\ lo \in Int /\ hi \in Int /\ s.tokenIds \in Nat
      /\ hi - lo + 1 = s.tokenIds
      /\ lo > hi => s.tokenIds = 0
  BY DEF StateOK, StateTypeOK, TicketStorage, EventDetails, Uint
<1>2. T \cup P = lo .. hi /\ T \cap P = {}
  BY DEF StateOK, NumberingOK
<1>3. IsFiniteSet(T) /\ IsFiniteSet(P)
  BY FinitelyManyTokens
<1>4. /\ Cardinality(T) = s.totalParticipants
      /\ Cardinality(P) = Cardinality(s.hasClaimed)
  BY DEF StateOK, HeadcountOK
<1> HIDE DEF lo, hi, T, P
<1>5. Cardinality(T \cup P) = s.tokenIds
  BY <1>1, <1>2, FS_Interval
<1>6. Cardinality(T \cup P) = Cardinality(T) + Cardinality(P) - Cardinality({})
  BY <1>2, <1>3, FS_Union
<1>7. Cardinality({}) = 0 /\ Cardinality(T) \in Nat /\ Cardinality(P) \in Nat
  BY <1>3, FS_EmptySet, FS_CardinalityType
<1>8. QED
  BY <1>4, <1>5, <1>6, <1>7

(* What a count of tokens has to do with the seats.                         *)
LEMMA ClaimsWithinSeats ==
  ASSUME IsFiniteSet(Accounts),
         NEW e \in EventDetails, NEW s, NEW tl, NEW pl, NEW v,
         StateOK(e, s, tl, pl, v)
  PROVE  /\ Cardinality(s.hasClaimed) \in Nat
         /\ Cardinality(s.hasClaimed) <= s.totalParticipants
         /\ s.hasClaimed # s.attendedEvent =>
              Cardinality(s.hasClaimed) < s.totalParticipants
<1>1. /\ s.hasClaimed \subseteq s.attendedEvent
      /\ s.attendedEvent \subseteq s.hasRegistered
      /\ s.hasRegistered \subseteq Accounts
      /\ Cardinality(s.hasRegistered) = s.totalParticipants
  BY DEF StateOK, StateTypeOK, TicketStorage, HeadcountOK
<1>2. /\ IsFiniteSet(s.hasRegistered) /\ IsFiniteSet(s.attendedEvent)
      /\ IsFiniteSet(s.hasClaimed)
  <2>1. IsFiniteSet(s.hasRegistered)
    BY <1>1, FS_Subset
  <2>2. IsFiniteSet(s.attendedEvent)
    BY <1>1, <2>1, FS_Subset
  <2>3. QED
    BY <1>1, <2>1, <2>2, FS_Subset
<1>3. /\ Cardinality(s.hasRegistered) \in Nat
      /\ Cardinality(s.attendedEvent) \in Nat
      /\ Cardinality(s.hasClaimed) \in Nat
  BY <1>2, FS_CardinalityType
<1>4. /\ Cardinality(s.attendedEvent) <= Cardinality(s.hasRegistered)
      /\ Cardinality(s.hasClaimed) <= Cardinality(s.attendedEvent)
      /\ s.hasClaimed # s.attendedEvent =>
           Cardinality(s.hasClaimed) # Cardinality(s.attendedEvent)
  BY <1>1, <1>2, FS_Subset
<1>5. QED
  BY <1>1, <1>3, <1>4

(* An event has numbers for two tokens per seat, if it has them at all.     *)
LEMMA NumbersLeft ==
  ASSUME IsFiniteSet(Accounts),
         NEW e \in EventDetails, NEW s, NEW tl, NEW pl, NEW v,
         StateOK(e, s, tl, pl, v),
         Fits(e.eventNftId + 2 * e.totalExpectedParticipants),
         \/ s.hasClaimed # s.attendedEvent
         \/ s.totalParticipants < e.totalExpectedParticipants
  PROVE  Fits(NextId(e, s))
<1>1. /\ s.tokenIds \in Nat /\ s.totalParticipants \in Nat
      /\ e.eventNftId \in Nat /\ e.totalExpectedParticipants \in Nat
      /\ s.totalParticipants <= e.totalExpectedParticipants
  BY DEF StateOK, StateTypeOK, TicketStorage, EventDetails, Uint, HeadcountOK
<1>2. s.tokenIds = s.totalParticipants + Cardinality(s.hasClaimed)
  BY CounterCounts
<1> DEFINE c == Cardinality(s.hasClaimed)
<1>3. /\ c \in Nat /\ c <= s.totalParticipants
      /\ s.hasClaimed # s.attendedEvent => c < s.totalParticipants
  BY ClaimsWithinSeats
<1>4. NextId(e, s) = e.eventNftId + s.tokenIds + 1
  BY NextNumber
<1> HIDE DEF c
<1>5. s.tokenIds + 1 <= 2 * e.totalExpectedParticipants
  BY <1>1, <1>2, <1>3 DEF c
<1>6. QED
  BY <1>1, <1>4, <1>5, MaxUintAssumption DEF Fits

=============================================================================
