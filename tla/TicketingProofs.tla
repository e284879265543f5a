--------------------------- MODULE TicketingProofs ---------------------------
(***************************************************************************)
(* Theorems about Ticketing, for every value of its constants.             *)
(***************************************************************************)
EXTENDS Ticketing, TicketOpsProofs, CallsProofs

-----------------------------------------------------------------------------
(* Calls keep the frames consistent *)

(* The parts of the inductive invariant that calls and callbacks touch.     *)
StackInv == CallsInv /\ FramesOK

(* A call that ends at once.                                                *)
LEMMA DoneKeepsStack ==
  ASSUME StackInv, NEW a, MayCall(a), Done, event' = event
  PROVE  StackInv'
BY DoneOK DEF StackInv, FramesOK

(* A call that waits for a callback saves the present state, which is       *)
(* consistent.                                                              *)
LEMMA AwaitKeepsStack ==
  ASSUME StackInv, StateOK(event, store, tickets, poaps, vault),
         NEW a, MayCall(a), NEW op \in Ops, NEW id \in Uint,
         Await(op, id), event' = event
  PROVE  StackInv'
<1> DEFINE frame == [op |-> op, id |-> id, saved |-> State]
<1> HIDE DEF frame
<1>1. Push(frame)
  BY DEF Await, frame
<1>2. /\ CallsInv'
      /\ DOMAIN stack' = DOMAIN stack \cup {Len(stack')}
      /\ \A i \in DOMAIN stack : stack'[i] = stack[i]
      /\ stack'[Len(stack')] = frame
  BY <1>1, PushOK DEF StackInv
<1>3. /\ frame.op \in Ops /\ frame.id \in Uint
      /\ frame.saved = [store |-> store, tickets |-> tickets,
                        poaps |-> poaps, vault |-> vault]
  BY DEF frame, State
<1>4. ASSUME NEW i \in DOMAIN stack'
      PROVE  /\ stack'[i].op \in Ops
             /\ stack'[i].id \in Uint
             /\ StateOK(event, stack'[i].saved.store, stack'[i].saved.tickets,
                        stack'[i].saved.poaps, stack'[i].saved.vault)
  <2>1. CASE i \in DOMAIN stack
    BY <1>2, <2>1 DEF StackInv, FramesOK
  <2>2. CASE i \notin DOMAIN stack
    <3>1. stack'[i] = frame
      BY <1>2, <1>4, <2>2
    <3>2. QED
      BY <1>3, <3>1
  <2>3. QED
    BY <2>1, <2>2
<1>5. QED
  BY <1>2, <1>4 DEF StackInv, FramesOK

(* The end of a function drops one frame.                                   *)
LEMMA LeaveKeepsStack ==
  ASSUME StackInv, stack # <<>>, Leave, event' = event
  PROVE  StackInv' /\ Len(stack) \in DOMAIN stack
BY LeaveOK DEF StackInv, FramesOK

-----------------------------------------------------------------------------
(* The inductive invariant *)

(* What an action has to leave behind for the invariant to hold again.      *)
LEMMA IInvParts ==
  IInv <=> /\ event \in Events
           /\ clock \in Nat
           /\ StateOK(event, store, tickets, poaps, vault)
           /\ StackInv
BY DEF IInv, StackInv

(* The same for the next state.                                             *)
LEMMA IInvNext ==
  ASSUME event' \in Events, clock' \in Nat, StackInv',
         StateOK(event, store, tickets, poaps, vault)'
  PROVE  IInv'
BY DEF IInv, StackInv

(* The number the next token gets fits, when the call gets through.         *)
LEMMA NextIdIsUint ==
  ASSUME NEW e \in EventDetails, NEW s \in TicketStorage, Fits(NextId(e, s))
  PROVE  NextId(e, s) \in Uint
<1>1. e.eventNftId \in Nat /\ Increment(s.tokenIds) \in Nat
  BY MaxUintAssumption DEF EventDetails, TicketStorage, Uint, Increment
<1>2. QED
  BY <1>1, MaxUintAssumption DEF NextId, Fits, Uint

(* A new event is consistent.                                               *)
LEMMA InitIInv == Init => IInv
<1> SUFFICES ASSUME Init PROVE IInv
  OBVIOUS
<1>1. StateOK(event, store, tickets, poaps, vault)
  BY NewStateOK, TicketingAssumption DEF Init
<1>2. CallsInv /\ DOMAIN stack = {}
  BY NoCallsOK DEF Init
<1>3. FramesOK
  BY <1>2 DEF FramesOK
<1>4. QED
  BY <1>1, <1>2, <1>3, IInvParts DEF Init, StackInv

(* register keeps the invariant.                                            *)
LEMMA RegisterKeepsIInv ==
  ASSUME IInv, NEW a \in Accounts, NEW value \in Values, Register(a, value)
  PROVE  IInv'
<1> DEFINE id == NextId(event, store)
<1>1. /\ event \in EventDetails /\ event \in Events /\ event' = event
      /\ clock \in Nat /\ clock' = clock
      /\ StateOK(event, store, tickets, poaps, vault) /\ StackInv
      /\ store \in TicketStorage /\ value \in Nat
  BY IInvParts, TicketingAssumption DEF Register, StateOK, StateTypeOK
<1>2. /\ CanRegister(event, store, tickets, a, value, clock)
      /\ store' = Registered(store, a, value)
      /\ vault' = Deposited(vault, value)
      /\ poaps' = poaps
      /\ MayCall(a)
  BY DEF Register
<1>3. id \in Uint
  BY <1>1, <1>2, NextIdIsUint DEF CanRegister
<1>4. StateOK(event, Registered(store, a, value), Mint(tickets, a, id), poaps,
              Deposited(vault, value))
  BY <1>1, <1>2, RegisteredOK, TicketingAssumption
<1>5. CASE a \in Wallets
  <2>1. tickets' = Mint(tickets, a, id) /\ Await("register", id)
    BY <1>5 DEF Register
  <2>2. StackInv'
    BY <1>1, <1>2, <1>3, <2>1, AwaitKeepsStack DEF Ops
  <2>3. StateOK(event, store, tickets, poaps, vault)'
    BY <1>1, <1>2, <1>4, <2>1
  <2>4. QED
    BY <1>1, <2>2, <2>3, IInvNext
<1>6. CASE a \notin Wallets
  <2>1. tickets' = SetTokenURI(Mint(tickets, a, id), id) /\ Done
    BY <1>6 DEF Register
  <2>2. StackInv'
    BY <1>1, <1>2, <2>1, DoneKeepsStack
  <2>3. Exists(Mint(tickets, a, id), id)
    BY DEF Exists, Mint
  <2>4. StateOK(event, store, tickets, poaps, vault)'
    BY <1>1, <1>2, <1>4, <2>1, <2>3, TicketURISetOK
  <2>5. QED
    BY <1>1, <2>2, <2>4, IInvNext
<1>7. QED
  BY <1>5, <1>6

(* claimAttendanceToken keeps the invariant.                                *)
LEMMA ClaimKeepsIInv ==
  ASSUME IInv, NEW a \in Accounts, ClaimAttendanceToken(a)
  PROVE  IInv'
<1> DEFINE id == NextId(event, store)
<1>1. /\ event \in EventDetails /\ event \in Events /\ event' = event
      /\ clock \in Nat /\ clock' = clock
      /\ StateOK(event, store, tickets, poaps, vault) /\ StackInv
      /\ store \in TicketStorage
  BY IInvParts, TicketingAssumption
  DEF ClaimAttendanceToken, StateOK, StateTypeOK
<1>2. /\ CanClaim(event, store, poaps, a)
      /\ store' = Claimed(store, a)
      /\ vault' = vault
      /\ tickets' = tickets
      /\ MayCall(a)
  BY DEF ClaimAttendanceToken
<1>3. id \in Uint
  BY <1>1, <1>2, NextIdIsUint DEF CanClaim
<1>4. StateOK(event, Claimed(store, a), tickets, Mint(poaps, a, id), vault)
  BY <1>1, <1>2, ClaimedOK, TicketingAssumption
<1>5. CASE a \in Wallets
  <2>1. poaps' = Mint(poaps, a, id) /\ Await("claim", id)
    BY <1>5 DEF ClaimAttendanceToken
  <2>2. StackInv'
    BY <1>1, <1>2, <1>3, <2>1, AwaitKeepsStack DEF Ops
  <2>3. StateOK(event, store, tickets, poaps, vault)'
    BY <1>1, <1>2, <1>4, <2>1
  <2>4. QED
    BY <1>1, <2>2, <2>3, IInvNext
<1>6. CASE a \notin Wallets
  <2>1. poaps' = SetTokenURI(Mint(poaps, a, id), id) /\ Done
    BY <1>6 DEF ClaimAttendanceToken
  <2>2. StackInv'
    BY <1>1, <1>2, <2>1, DoneKeepsStack
  <2>3. Exists(Mint(poaps, a, id), id)
    BY DEF Exists, Mint
  <2>4. StateOK(event, store, tickets, poaps, vault)'
    BY <1>1, <1>2, <1>4, <2>1, <2>3, PoapURISetOK
  <2>5. QED
    BY <1>1, <2>2, <2>4, IInvNext
<1>7. QED
  BY <1>5, <1>6

(* withdrawEthEventAdmin keeps the invariant.                               *)
LEMMA WithdrawEventAdminKeepsIInv ==
  ASSUME IInv, NEW a \in Accounts, NEW amount \in Amounts,
         WithdrawEthEventAdmin(a, amount)
  PROVE  IInv'
<1>1. /\ event \in Events /\ event' = event
      /\ clock \in Nat /\ clock' = clock
      /\ StateOK(event, store, tickets, poaps, vault) /\ StackInv
      /\ amount \in Nat /\ 0 \in Uint
  BY IInvParts, TicketingAssumption, MaxUintAssumption
  DEF WithdrawEthEventAdmin, Uint
<1>2. /\ MayCall(a)
      /\ CanWithdrawEventAdmin(event, store, vault, a, amount)
      /\ store' = WithdrawnByEventAdmin(store, amount)
      /\ vault' = PaidToOrganizer(vault, amount)
      /\ tickets' = tickets /\ poaps' = poaps
      /\ Await("pay", 0) \/ Done
  BY DEF WithdrawEthEventAdmin
<1>3. StateOK(event, store, tickets, poaps, vault)'
  BY <1>1, <1>2, WithdrawnByEventAdminOK
<1>4. StackInv'
  BY <1>1, <1>2, AwaitKeepsStack, DoneKeepsStack DEF Ops
<1>5. QED
  BY <1>1, <1>3, <1>4, IInvNext

(* transferFrom and safeTransferFrom keep the invariant, on either ledger.  *)
LEMMA TransferKeepsStack ==
  ASSUME IInv, NEW a \in Accounts, NEW ledger, NEW to, NEW id \in Uint,
         Transfer(a, ledger, to, id)
  PROVE  /\ StackInv' /\ event' = event /\ clock' = clock
         /\ store' = store /\ vault' = vault /\ Exists(ledger, id)
<1>1. StackInv /\ StateOK(event, store, tickets, poaps, vault)
  BY IInvParts
<1>2. MayCall(a) /\ event' = event /\ (Done \/ Await("transfer", id))
  BY DEF Transfer
<1>3. StackInv'
  BY <1>1, <1>2, AwaitKeepsStack, DoneKeepsStack DEF Ops
<1>4. QED
  BY <1>3 DEF Transfer

(* Transferring a ticket keeps the invariant.                               *)
LEMMA TransferTicketKeepsIInv ==
  ASSUME IInv, NEW a \in Accounts, NEW to \in Recipients,
         NEW id \in DOMAIN tickets.owners, TransferTicket(a, to, id)
  PROVE  IInv'
<1>1. /\ event \in Events /\ clock \in Nat /\ to \in Accounts
      /\ StateOK(event, store, tickets, poaps, vault) /\ id \in Uint
  BY IInvParts, TicketingAssumption DEF StateOK, StateTypeOK, LedgerTypeOK
<1>2. /\ Transfer(a, tickets, to, id)
      /\ tickets' = Move(tickets, to, id) /\ poaps' = poaps
  BY DEF TransferTicket
<1>3. /\ StackInv' /\ event' = event /\ clock' = clock
      /\ store' = store /\ vault' = vault /\ Exists(tickets, id)
  BY <1>1, <1>2, TransferKeepsStack
<1>4. StateOK(event, store, tickets, poaps, vault)'
  BY <1>1, <1>2, <1>3, TicketMovedOK
<1>5. QED
  BY <1>1, <1>3, <1>4, IInvNext

(* Transferring an attendance token keeps the invariant.                    *)
LEMMA TransferPoapKeepsIInv ==
  ASSUME IInv, NEW a \in Accounts, NEW to \in Recipients,
         NEW id \in DOMAIN poaps.owners, TransferPoap(a, to, id)
  PROVE  IInv'
<1>1. /\ event \in Events /\ clock \in Nat /\ to \in Accounts
      /\ StateOK(event, store, tickets, poaps, vault) /\ id \in Uint
  BY IInvParts, TicketingAssumption DEF StateOK, StateTypeOK, LedgerTypeOK
<1>2. /\ Transfer(a, poaps, to, id)
      /\ poaps' = Move(poaps, to, id) /\ tickets' = tickets
  BY DEF TransferPoap
<1>3. /\ StackInv' /\ event' = event /\ clock' = clock
      /\ store' = store /\ vault' = vault /\ Exists(poaps, id)
  BY <1>1, <1>2, TransferKeepsStack
<1>4. StateOK(event, store, tickets, poaps, vault)'
  BY <1>1, <1>2, <1>3, PoapMovedOK
<1>5. QED
  BY <1>1, <1>3, <1>4, IInvNext

(* After the callback: _setTokenURI, if the function was a mint.            *)
LEMMA UnwindKeepsIInv ==
  ASSUME IInv, Unwind
  PROVE  IInv'
<1>1. /\ event \in Events /\ event' = event
      /\ clock \in Nat /\ clock' = clock
      /\ StateOK(event, store, tickets, poaps, vault) /\ StackInv
  BY IInvParts DEF Unwind
<1>2. StackInv'
  BY <1>1, LeaveKeepsStack DEF Unwind
<1>3. /\ store' = store /\ vault' = vault
      /\ \/ tickets' = tickets
         \/ Exists(tickets, MintedId) /\ tickets' = SetTokenURI(tickets, MintedId)
      /\ \/ poaps' = poaps
         \/ Exists(poaps, MintedId) /\ poaps' = SetTokenURI(poaps, MintedId)
  BY DEF Unwind
<1>4. StateOK(event, store, tickets', poaps, vault)
  BY <1>1, <1>3, TicketURISetOK
<1>5. StateOK(event, store, tickets, poaps, vault)'
  BY <1>1, <1>3, <1>4, PoapURISetOK
<1>6. QED
  BY <1>1, <1>2, <1>5, IInvNext

(* A revert brings back a saved state, which is consistent.                 *)
LEMMA RevertKeepsIInv ==
  ASSUME IInv, Revert
  PROVE  IInv'
<1>1. /\ event \in Events /\ event' = event
      /\ clock \in Nat /\ clock' = clock
      /\ StackInv
  BY IInvParts DEF Revert
<1>2. StackInv' /\ Len(stack) \in DOMAIN stack
  BY <1>1, LeaveKeepsStack DEF Revert
<1>3. StateOK(event, Top.saved.store, Top.saved.tickets, Top.saved.poaps,
              Top.saved.vault)
  BY <1>1, <1>2 DEF StackInv, FramesOK, Top
<1>4. StateOK(event, store, tickets, poaps, vault)'
  BY <1>1, <1>3 DEF Revert
<1>5. QED
  BY <1>1, <1>2, <1>4, IInvNext

(* The actions that do not hand control to anyone.                          *)
LEMMA PlainCallKeepsIInv ==
  ASSUME IInv, NEW a, MayCall(a), Done, event' = event, clock' = clock,
         StateOK(event, store', tickets', poaps', vault')
  PROVE  IInv'
<1>1. event \in Events /\ clock \in Nat /\ StackInv
  BY IInvParts
<1>2. StackInv'
  BY <1>1, DoneKeepsStack
<1>3. QED
  BY <1>1, <1>2, IInvNext

(* Every step keeps the invariant.                                          *)
LEMMA StepIInv == IInv /\ [Next]_vars => IInv'
<1> SUFFICES ASSUME IInv, [Next]_vars PROVE IInv'
  OBVIOUS
<1>1. /\ event \in EventDetails /\ event \in Events /\ clock \in Nat
      /\ StateOK(event, store, tickets, poaps, vault) /\ StackInv
  BY IInvParts, TicketingAssumption
<1>2. ASSUME NEW a \in Accounts, NEW value \in Values, Register(a, value)
      PROVE  IInv'
  BY <1>2, RegisterKeepsIInv
<1>3. ASSUME NEW a \in Accounts, NEW batch \in Batches, SetAttenders(a, batch)
      PROVE  IInv'
  <2>1. StateOK(event, Attended(store, batch), tickets, poaps, vault)
    BY <1>1, <1>3, AttendedOK DEF SetAttenders
  <2>2. QED
    BY <1>3, <2>1, PlainCallKeepsIInv DEF SetAttenders
<1>4. ASSUME NEW a \in Accounts, ClaimAttendanceToken(a)
      PROVE  IInv'
  BY <1>4, ClaimKeepsIInv
<1>5. ASSUME NEW a \in Accounts, NEW amount \in Amounts,
             WithdrawEthEventAdmin(a, amount)
      PROVE  IInv'
  BY <1>5, WithdrawEventAdminKeepsIInv
<1>6. CASE OpenWithdrawal
  <2>1. StateOK(event, [store EXCEPT !.withdrawIsOpen = TRUE], tickets, poaps,
                vault)
    BY <1>1, GateOK
  <2>2. QED
    BY <1>6, <2>1, PlainCallKeepsIInv DEF OpenWithdrawal, FactoryMayCall
<1>7. CASE PauseWithdrawal
  <2>1. StateOK(event, [store EXCEPT !.withdrawIsOpen = FALSE], tickets, poaps,
                vault)
    BY <1>1, GateOK
  <2>2. QED
    BY <1>7, <2>1, PlainCallKeepsIInv DEF PauseWithdrawal, FactoryMayCall
<1>8. CASE Withdraw
  <2>1. StateOK(event, Withdrawn(store), tickets, poaps,
                PaidToPlatform(vault, FeeOf(store.totalEthFromTicket)))
    BY <1>1, <1>8, WithdrawnOK DEF Withdraw
  <2>2. QED
    BY <1>8, <2>1, PlainCallKeepsIInv DEF Withdraw, FactoryMayCall
<1>9. ASSUME NEW a \in Accounts, NEW value \in Values, Receive(a, value)
      PROVE  IInv'
  <2>1. StateOK(event, store, tickets, poaps, Gifted(vault, value))
    BY <1>1, TicketingAssumption, GiftedOK
  <2>2. QED
    BY <1>9, <2>1, PlainCallKeepsIInv DEF Receive
<1>10. ASSUME NEW a \in Accounts, NEW to \in Recipients,
              \/ \E id \in DOMAIN tickets.owners : TransferTicket(a, to, id)
              \/ \E id \in DOMAIN poaps.owners : TransferPoap(a, to, id)
       PROVE  IInv'
  BY <1>10, TransferTicketKeepsIInv, TransferPoapKeepsIInv
<1>11. CASE Unwind
  BY <1>11, UnwindKeepsIInv
<1>12. CASE Revert
  BY <1>12, RevertKeepsIInv
<1>13. CASE Tick
  <2>1. clock' \in Nat
    BY <1>1, <1>13 DEF Tick
  <2>2. StateOK(event, store, tickets, poaps, vault)'
    BY <1>1, <1>13 DEF Tick
  <2>3. StackInv'
    BY <1>1, <1>13 DEF Tick, StackInv, CallsInv, FramesOK
  <2>4. QED
    BY <1>1, <1>13, <2>1, <2>2, <2>3, IInvNext DEF Tick
<1>14. CASE UNCHANGED vars
  BY <1>14
  DEF vars, IInv, CallsInv, FramesOK
<1>15. QED
  BY <1>2, <1>3, <1>4, <1>5, <1>6, <1>7, <1>8, <1>9, <1>10, <1>11, <1>12,
     <1>13, <1>14
  DEF Next

-----------------------------------------------------------------------------
(* Theorems *)

(* The inductive invariant holds in every reachable state, for any number   *)
(* of accounts and seats, any fee, any depth of nested calls.               *)
THEOREM InductiveInvariant == Spec => []IInv
BY InitIInv, StepIInv, PTL DEF Spec

(* Every variable, and every state kept for a revert, has its type; calls   *)
(* never nest deeper than gas allows.                                       *)
THEOREM TypeCorrect == Spec => []TypeOK
<1>1. IInv => TypeOK
  <2> SUFFICES ASSUME IInv PROVE TypeOK
    OBVIOUS
  <2>1. QED
    BY DEF IInv, TypeOK, StateOK, FramesOK
<1>2. QED
  BY <1>1, InductiveInvariant, PTL

(* The numbers up to the shared counter are in use, each by one token, at   *)
(* every moment of every nesting of mints, callbacks and reverts.           *)
THEOREM NumbersAreUnique == Spec => []OneNumberOneToken
<1>1. IInv => OneNumberOneToken
  BY DEF IInv, StateOK, OneNumberOneToken
<1>2. QED
  BY <1>1, InductiveInvariant, PTL

(* Seats are never oversold, although the code compares for equality only,  *)
(* and tickets, participants and claims always agree.                       *)
THEOREM SeatsAreNotOversold == Spec => []Headcount
<1>1. IInv => Headcount
  BY DEF IInv, StateOK, Headcount
<1>2. QED
  BY <1>1, InductiveInvariant, PTL

(* No wei appears or disappears, whatever is reverted on the way.           *)
THEOREM MoneyIsConserved == Spec => []BooksBalance
<1>1. IInv => BooksBalance
  BY DEF IInv, StateOK, BooksBalance
<1>2. QED
  BY <1>1, InductiveInvariant, PTL

(* The recorded share and the recorded fee, taken at different times, never *)
(* add up to more than the sales.                                           *)
THEOREM QuotasStayWithinSales == Spec => []QuotasWithinSales
<1>1. IInv => QuotasWithinSales
  BY QuotasFollow DEF IInv, QuotasWithinSales
<1>2. QED
  BY <1>1, InductiveInvariant, PTL

(* Whoever attended can claim, and whoever comes in time and pays for a     *)
(* free seat gets it: numbering stands in nobody's way.                     *)
THEOREM NobodyIsTurnedAway == Spec => []NumbersNeverBlock
<1>1. IInv => NumbersNeverBlock
  <2> SUFFICES ASSUME IInv,
                      Fits(event.eventNftId + 2 * event.totalExpectedParticipants)
               PROVE  /\ \A a \in store.attendedEvent \ store.hasClaimed :
                           CanClaim(event, store, poaps, a)
                      /\ \A a \in Accounts \ store.hasRegistered :
                           /\ store.totalParticipants
                                < event.totalExpectedParticipants
                           /\ clock \in event.regStartDateAndTime
                                          .. event.regDeadline
                           /\ Fits(store.totalEthFromTicket + event.eventFee)
                           => CanRegister(event, store, tickets, a,
                                          event.eventFee, clock)
    BY DEF NumbersNeverBlock
  <2>1. /\ event \in EventDetails /\ clock \in Nat
        /\ StateOK(event, store, tickets, poaps, vault)
    BY IInvParts, TicketingAssumption
  <2>2. ~Exists(tickets, NextId(event, store)) /\ ~Exists(poaps, NextId(event, store))
    BY <2>1, NextNumber DEF Exists
  <2>3. ASSUME NEW a \in store.attendedEvent \ store.hasClaimed
        PROVE  CanClaim(event, store, poaps, a)
    <3>1. Fits(NextId(event, store))
      BY <2>1, <2>3, NumbersLeft, TicketingAssumption
    <3>2. QED
      BY <2>2, <2>3, <3>1 DEF CanClaim
  <2>4. ASSUME NEW a \in Accounts \ store.hasRegistered,
               store.totalParticipants < event.totalExpectedParticipants,
               clock \in event.regStartDateAndTime .. event.regDeadline,
               Fits(store.totalEthFromTicket + event.eventFee)
        PROVE  CanRegister(event, store, tickets, a, event.eventFee, clock)
    <3>1. Fits(NextId(event, store))
      BY <2>1, <2>4, NumbersLeft, TicketingAssumption
    <3>2. /\ event.eventFee \in Nat /\ event.totalExpectedParticipants \in Nat
          /\ event.regStartDateAndTime \in Nat /\ event.regDeadline \in Nat
          /\ store.totalParticipants \in Nat
      BY <2>1 DEF EventDetails, Uint, StateOK, StateTypeOK, TicketStorage
    <3>3. /\ event.totalExpectedParticipants # store.totalParticipants
          /\ event.regStartDateAndTime <= clock /\ clock <= event.regDeadline
          /\ event.eventFee = 0 \/ event.eventFee > 0
      BY <2>1, <2>4, <3>2
    <3>4. QED
      BY <2>2, <2>4, <3>1, <3>3 DEF CanRegister, RegistrationOpen
  <2>5. QED
    BY <2>3, <2>4
<1>2. QED
  BY <1>1, InductiveInvariant, PTL

-----------------------------------------------------------------------------
(* URIs.  _setTokenURI comes after the callback, so a token without URI is   *)
(* one whose mint is still on the stack.  A revert brings back a state and   *)
(* drops the frames above, so every saved state has to be explained by the   *)
(* frames below it.                                                          *)

\* Frame i of the stack st, below n, is the mint of id.
Waits(st, op, id, n) ==
  \E i \in DOMAIN st : i < n /\ st[i].op = op /\ st[i].id = id

\* Tokens without URI are waited for by frames below n.
ShownBut(tl, pl, st, n) ==
  /\ \A id \in DOMAIN tl.owners : id \in tl.uris \/ Waits(st, "register", id, n)
  /\ \A id \in DOMAIN pl.owners : id \in pl.uris \/ Waits(st, "claim", id, n)

URIsOK ==
  /\ ShownBut(tickets, poaps, stack, Len(stack) + 1)
  /\ \A k \in DOMAIN stack :
       ShownBut(stack[k].saved.tickets, stack[k].saved.poaps, stack, k)

(* The positions of the stack are numbers from 1.                           *)
LEMMA StackDomain ==
  ASSUME CallsInv
  PROVE  Len(stack) \in Nat /\ DOMAIN stack = 1 .. Len(stack)
<1> DEFINE S == {stack[i] : i \in DOMAIN stack}
<1>1. stack \in Seq(S)
  BY DEF CallsInv
<1> HIDE DEF S
<1>2. QED
  BY <1>1, LenProperties

(* Explanations by frames below n stay when those frames do.                *)
LEMMA SameFramesBelow ==
  ASSUME NEW tl, NEW pl, NEW st, NEW st1, NEW n, ShownBut(tl, pl, st, n),
         \A i \in DOMAIN st : i < n => i \in DOMAIN st1 /\ st1[i] = st[i]
  PROVE  ShownBut(tl, pl, st1, n)
BY DEF ShownBut, Waits

(* A call that ends at once, and leaves no token without URI.               *)
LEMMA DoneKeepsURIs ==
  ASSUME URIsOK, Done,
         \A k \in DOMAIN tickets'.owners :
           k \in tickets'.uris \/ (k \in DOMAIN tickets.owners /\ k \notin tickets.uris),
         \A k \in DOMAIN poaps'.owners :
           k \in poaps'.uris \/ (k \in DOMAIN poaps.owners /\ k \notin poaps.uris)
  PROVE  URIsOK'
<1>1. stack' = stack
  BY DEF Done
<1>2. ShownBut(tickets', poaps', stack, Len(stack) + 1)
  BY DEF URIsOK, ShownBut
<1>3. QED
  BY <1>1, <1>2 DEF URIsOK

(* A call that waits for a callback, perhaps with a token it minted that    *)
(* has no URI yet.                                                          *)
LEMMA AwaitKeepsURIs ==
  ASSUME URIsOK, CallsInv, NEW a, MayCall(a), NEW op, NEW id, Await(op, id),
         \A k \in DOMAIN tickets'.owners :
           \/ k \in tickets'.uris
           \/ k \in DOMAIN tickets.owners /\ k \notin tickets.uris
           \/ op = "register" /\ k = id,
         \A k \in DOMAIN poaps'.owners :
           \/ k \in poaps'.uris
           \/ k \in DOMAIN poaps.owners /\ k \notin poaps.uris
           \/ op = "claim" /\ k = id
  PROVE  URIsOK'
<1> DEFINE frame == [op |-> op, id |-> id, saved |-> State]
<1>1. /\ Push(frame) /\ frame.op = op /\ frame.id = id
      /\ frame.saved.tickets = tickets /\ frame.saved.poaps = poaps
  BY DEF Await, State
<1> HIDE DEF frame
<1>2. /\ CallsInv'
      /\ DOMAIN stack' = DOMAIN stack \cup {Len(stack')}
      /\ \A i \in DOMAIN stack : stack'[i] = stack[i]
      /\ stack'[Len(stack')] = frame
  BY <1>1, PushOK
<1>3. /\ Len(stack) \in Nat /\ DOMAIN stack = 1 .. Len(stack)
      /\ Len(stack') = Len(stack) + 1
  <2>1. Len(stack) \in Nat /\ DOMAIN stack = 1 .. Len(stack)
    BY StackDomain
  <2> DEFINE S == {stack[i] : i \in DOMAIN stack}
  <2>2. stack' = Append(stack, frame) /\ stack \in Seq(S)
    BY <1>1 DEF Push, CallsInv
  <2> HIDE DEF S
  <2>3. Len(stack') = Len(stack) + 1
    BY <2>2, Appended
  <2>4. QED
    BY <2>1, <2>3
<1> DEFINE n == Len(stack) + 1
<1>4. ShownBut(tickets, poaps, stack', n)
  BY <1>2, SameFramesBelow DEF URIsOK
<1>5. n \in DOMAIN stack' /\ stack'[n] = frame /\ n < n + 1
  BY <1>2, <1>3
<1>6. ShownBut(tickets', poaps', stack', n + 1)
  <2>1. ASSUME NEW k, NEW o, Waits(stack', o, k, n)
        PROVE  Waits(stack', o, k, n + 1)
    BY <1>2, <1>3, <2>1 DEF Waits
  <2>2. Waits(stack', op, id, n + 1)
    BY <1>1, <1>5 DEF Waits
  <2>3. QED
    BY <1>4, <2>1, <2>2 DEF ShownBut
<1>7. ASSUME NEW k \in DOMAIN stack'
      PROVE  ShownBut(stack'[k].saved.tickets, stack'[k].saved.poaps, stack', k)
  <2>1. CASE k \in DOMAIN stack
    <3>1. ShownBut(stack[k].saved.tickets, stack[k].saved.poaps, stack, k)
      BY <2>1 DEF URIsOK
    <3>2. ShownBut(stack[k].saved.tickets, stack[k].saved.poaps, stack', k)
      BY <1>2, <3>1, SameFramesBelow
    <3>3. QED
      BY <1>2, <2>1, <3>2
  <2>2. CASE k \notin DOMAIN stack
    <3>1. k = n
      BY <1>2, <1>3, <2>2
    <3>2. QED
      BY <1>1, <1>4, <1>5, <3>1
  <2>3. QED
    BY <2>1, <2>2
<1>8. QED
  BY <1>3, <1>6, <1>7 DEF URIsOK

(* The end of a function drops one frame; what the frame waited for has its *)
(* URI, or is undone.                                                       *)
LEMMA LeaveKeepsURIs ==
  ASSUME URIsOK, CallsInv, stack # <<>>, Leave,
         ShownBut(tickets', poaps', stack, Len(stack))
  PROVE  URIsOK'
<1>1. /\ CallsInv' /\ Len(stack) \in DOMAIN stack
      /\ DOMAIN stack' \subseteq DOMAIN stack
      /\ \A i \in DOMAIN stack' : stack'[i] = stack[i]
  BY LeaveOK
<1>2. /\ Len(stack) \in Nat /\ DOMAIN stack = 1 .. Len(stack)
      /\ DOMAIN stack' = 1 .. Len(stack')
  BY <1>1, StackDomain
<1>3. Len(stack') = Len(stack) - 1
  <2> DEFINE S == {stack[i] : i \in DOMAIN stack}
  <2>1. stack \in Seq(S) /\ stack' = SubSeq(stack, 1, Len(stack) - 1)
    BY DEF CallsInv, Leave
  <2> HIDE DEF S
  <2>2. QED
    BY <2>1, FrontOfSeq
<1>4. \A i \in DOMAIN stack : i < Len(stack) => i \in DOMAIN stack'
  BY <1>2, <1>3
<1>5. ShownBut(tickets', poaps', stack', Len(stack))
  BY <1>1, <1>4, SameFramesBelow
<1>6. ASSUME NEW k \in DOMAIN stack'
      PROVE  ShownBut(stack'[k].saved.tickets, stack'[k].saved.poaps, stack', k)
  <2>1. /\ ShownBut(stack[k].saved.tickets, stack[k].saved.poaps, stack, k)
        /\ \A i \in DOMAIN stack : i < k => i \in DOMAIN stack' /\ stack'[i] = stack[i]
    BY <1>1, <1>2, <1>3 DEF URIsOK
  <2>2. ShownBut(stack[k].saved.tickets, stack[k].saved.poaps, stack', k)
    BY <2>1, SameFramesBelow
  <2>3. QED
    BY <1>1, <2>2
<1>7. Len(stack') + 1 = Len(stack)
  BY <1>2, <1>3
<1>8. QED
  BY <1>5, <1>6, <1>7 DEF URIsOK

(* Calls.                                                                   *)
LEMMA RegisterKeepsURIs ==
  ASSUME IInv, URIsOK, NEW a, NEW value, Register(a, value)
  PROVE  URIsOK'
<1> DEFINE id == NextId(event, store)
<1>1. MayCall(a) /\ poaps' = poaps /\ CallsInv
  BY DEF Register, IInv
<1>2. CASE a \in Wallets
  <2>1. Await("register", id) /\ tickets' = Mint(tickets, a, id)
    BY <1>2 DEF Register
  <2> HIDE DEF id
  <2>2. \A k \in DOMAIN tickets'.owners :
           \/ k \in tickets'.uris
           \/ k \in DOMAIN tickets.owners /\ k \notin tickets.uris
           \/ k = id
    BY <2>1 DEF Mint
  <2>3. QED
    BY <1>1, <2>1, <2>2, AwaitKeepsURIs
<1>3. CASE a \notin Wallets
  <2>1. Done /\ tickets' = SetTokenURI(Mint(tickets, a, id), id)
    BY <1>3 DEF Register
  <2> HIDE DEF id
  <2>2. QED
    BY <1>1, <2>1, DoneKeepsURIs DEF Mint, SetTokenURI
<1>4. QED
  BY <1>2, <1>3

(* claimAttendanceToken leaves only the token it mints without URI.         *)
LEMMA ClaimKeepsURIs ==
  ASSUME IInv, URIsOK, NEW a, ClaimAttendanceToken(a)
  PROVE  URIsOK'
<1> DEFINE id == NextId(event, store)
<1>1. MayCall(a) /\ tickets' = tickets /\ CallsInv
  BY DEF ClaimAttendanceToken, IInv
<1>2. CASE a \in Wallets
  <2>1. Await("claim", id) /\ poaps' = Mint(poaps, a, id)
    BY <1>2 DEF ClaimAttendanceToken
  <2> HIDE DEF id
  <2>2. \A k \in DOMAIN poaps'.owners :
           \/ k \in poaps'.uris
           \/ k \in DOMAIN poaps.owners /\ k \notin poaps.uris
           \/ k = id
    BY <2>1 DEF Mint
  <2>3. QED
    BY <1>1, <2>1, <2>2, AwaitKeepsURIs
<1>3. CASE a \notin Wallets
  <2>1. Done /\ poaps' = SetTokenURI(Mint(poaps, a, id), id)
    BY <1>3 DEF ClaimAttendanceToken
  <2> HIDE DEF id
  <2>2. QED
    BY <1>1, <2>1, DoneKeepsURIs DEF Mint, SetTokenURI
<1>4. QED
  BY <1>2, <1>3

(* A call that gives no token another URI and makes no new token.           *)
LEMMA SameTokensKeepURIs ==
  ASSUME IInv, URIsOK, NEW a, MayCall(a), Done \/ \E op, id : Await(op, id),
         DOMAIN tickets'.owners = DOMAIN tickets.owners, tickets'.uris = tickets.uris,
         DOMAIN poaps'.owners = DOMAIN poaps.owners, poaps'.uris = poaps.uris
  PROVE  URIsOK'
<1>1. CallsInv
  BY DEF IInv
<1>2. CASE Done
  BY <1>2, DoneKeepsURIs
<1>3. ASSUME NEW op, NEW id, Await(op, id)
      PROVE  URIsOK'
  BY <1>1, <1>3, AwaitKeepsURIs
<1>4. QED
  BY <1>2, <1>3

(* After the callback the token that was waited for gets its URI.           *)
LEMMA UnwindKeepsURIs ==
  ASSUME IInv, URIsOK, Unwind
  PROVE  URIsOK'
<1> DEFINE n == Len(stack)
<1>1. /\ CallsInv /\ stack # <<>> /\ Leave
      /\ tickets' = IF Top.op = "register" THEN SetTokenURI(tickets, Top.id)
                                           ELSE tickets
      /\ poaps' = IF Top.op = "claim" THEN SetTokenURI(poaps, Top.id) ELSE poaps
  BY DEF IInv, Unwind, MintedId
<1>2. n \in Nat /\ DOMAIN stack = 1 .. n /\ ShownBut(tickets, poaps, stack, n + 1)
  BY <1>1, StackDomain DEF URIsOK
<1>3. ASSUME NEW op, NEW id, Waits(stack, op, id, n + 1)
      PROVE  Waits(stack, op, id, n) \/ (Top.op = op /\ Top.id = id)
  BY <1>2, <1>3 DEF Waits, Top
<1>4. \A id \in DOMAIN tickets'.owners :
        id \in tickets'.uris \/ Waits(stack, "register", id, n)
  <2>1. CASE Top.op = "register"
    BY <1>1, <1>2, <1>3, <2>1 DEF ShownBut, SetTokenURI
  <2>2. CASE Top.op # "register"
    BY <1>1, <1>2, <1>3, <2>2 DEF ShownBut
  <2>3. QED
    BY <2>1, <2>2
<1>5. \A id \in DOMAIN poaps'.owners :
        id \in poaps'.uris \/ Waits(stack, "claim", id, n)
  <2>1. CASE Top.op = "claim"
    BY <1>1, <1>2, <1>3, <2>1 DEF ShownBut, SetTokenURI
  <2>2. CASE Top.op # "claim"
    BY <1>1, <1>2, <1>3, <2>2 DEF ShownBut
  <2>3. QED
    BY <2>1, <2>2
<1>6. ShownBut(tickets', poaps', stack, n)
  BY <1>4, <1>5 DEF ShownBut
<1>7. QED
  BY <1>1, <1>6, LeaveKeepsURIs

(* A revert brings back URIs its own frame explained.                       *)
LEMMA RevertKeepsURIs ==
  ASSUME IInv, URIsOK, Revert
  PROVE  URIsOK'
<1>1. /\ CallsInv /\ stack # <<>> /\ Leave
      /\ tickets' = stack[Len(stack)].saved.tickets
      /\ poaps' = stack[Len(stack)].saved.poaps
  BY DEF IInv, Revert, Top
<1>2. Len(stack) \in DOMAIN stack
  BY <1>1, LeaveOK
<1>3. ShownBut(tickets', poaps', stack, Len(stack))
  BY <1>1, <1>2 DEF URIsOK
<1>4. QED
  BY <1>1, <1>3, LeaveKeepsURIs

(* Every step keeps the URIs explained.                                     *)
LEMMA StepURIs == IInv /\ URIsOK /\ [Next]_vars => URIsOK'
<1> SUFFICES ASSUME IInv, URIsOK, [Next]_vars PROVE URIsOK'
  OBVIOUS
<1>1. ASSUME NEW a \in Accounts, NEW value \in Values, Register(a, value)
      PROVE  URIsOK'
  BY <1>1, RegisterKeepsURIs
<1>2. ASSUME NEW a \in Accounts, ClaimAttendanceToken(a)
      PROVE  URIsOK'
  BY <1>2, ClaimKeepsURIs
<1>3. ASSUME NEW a \in Accounts,
             \/ \E batch \in Batches : SetAttenders(a, batch)
             \/ \E amount \in Amounts : WithdrawEthEventAdmin(a, amount)
             \/ \E value \in Values : Receive(a, value)
      PROVE  URIsOK'
  <2>1. MayCall(a) /\ (Done \/ \E op, id : Await(op, id))
    BY <1>3 DEF SetAttenders, WithdrawEthEventAdmin, Receive
  <2>2. tickets' = tickets /\ poaps' = poaps
    BY <1>3 DEF SetAttenders, WithdrawEthEventAdmin, Receive
  <2>3. QED
    BY <2>1, <2>2, SameTokensKeepURIs
<1>4. CASE OpenWithdrawal \/ PauseWithdrawal \/ Withdraw
  <2>1. PICK a : MayCall(a)
    BY <1>4 DEF OpenWithdrawal, PauseWithdrawal, Withdraw, FactoryMayCall
  <2>2. Done /\ tickets' = tickets /\ poaps' = poaps
    BY <1>4 DEF OpenWithdrawal, PauseWithdrawal, Withdraw
  <2>3. QED
    BY <2>1, <2>2, SameTokensKeepURIs
<1>5. ASSUME NEW a \in Accounts, NEW to \in Recipients,
             \/ \E id \in DOMAIN tickets.owners : TransferTicket(a, to, id)
             \/ \E id \in DOMAIN poaps.owners : TransferPoap(a, to, id)
      PROVE  URIsOK'
  <2>1. MayCall(a) /\ (Done \/ \E op, id : Await(op, id))
    BY <1>5 DEF TransferTicket, TransferPoap, Transfer
  <2>2. /\ DOMAIN tickets'.owners = DOMAIN tickets.owners
        /\ tickets'.uris = tickets.uris
        /\ DOMAIN poaps'.owners = DOMAIN poaps.owners
        /\ poaps'.uris = poaps.uris
    BY <1>5 DEF TransferTicket, TransferPoap, Move
  <2>3. QED
    BY <2>1, <2>2, SameTokensKeepURIs
<1>6. CASE Unwind
  BY <1>6, UnwindKeepsURIs
<1>7. CASE Revert
  BY <1>7, RevertKeepsURIs
<1>8. CASE Tick \/ UNCHANGED vars
  BY <1>8 DEF Tick, vars, URIsOK
<1>9. QED
  BY <1>1, <1>2, <1>3, <1>4, <1>5, <1>6, <1>7, <1>8 DEF Next

(* Every token has its URI, except in the middle of the call that mints it, *)
(* however mints nest and whatever is undone.                               *)
THEOREM TokensGetTheirURI == Spec => []TokensShowTheirURI
<1>1. Init => URIsOK
  BY NoCallsOK DEF Init, URIsOK, ShownBut, NewLedger
<1>2. Spec => []URIsOK
  BY <1>1, StepURIs, InductiveInvariant, PTL DEF Spec
<1>3. URIsOK => TokensShowTheirURI
  BY DEF URIsOK, ShownBut, Waits, TokensShowTheirURI, Minting, TicketURI
<1>4. QED
  BY <1>2, <1>3, PTL

-----------------------------------------------------------------------------
(* Ticketing implements Attendance: what is committed between transactions  *)
(* moves as Attendance says.  Each call only moves people forward, a revert *)
(* leads back to a state that is itself later than the start of the         *)
(* transaction, and the clock stands still within a transaction.            *)

\* From s to t people only moved forward, and seats were taken only if
\* registration is open now.
Later(e, now, s, t) ==
  /\ s.hasRegistered \subseteq t.hasRegistered
  /\ s.attendedEvent \subseteq t.attendedEvent
  /\ s.hasClaimed \subseteq t.hasClaimed
  /\ s.hasRegistered # t.hasRegistered =>
       now \in e.regStartDateAndTime .. e.regDeadline

\* The present storage and every saved one are later than the committed one.
HistoryOK ==
  /\ Later(event, clock, Committed.store, store)
  /\ \A i \in DOMAIN stack :
       Later(event, clock, Committed.store, stack[i].saved.store)

(* Nothing has moved between a storage and itself.                          *)
LEMMA LaterSame == ASSUME NEW e, NEW now, NEW s PROVE Later(e, now, s, s)
BY DEF Later

(* What is later than a later storage is later.                             *)
LEMMA LaterAddsUp ==
  ASSUME NEW e, NEW now, NEW s, NEW t, NEW u, Later(e, now, s, t), Later(e, now, t, u)
  PROVE  Later(e, now, s, u)
BY DEF Later

(* register, setAttenders, claimAttendanceToken and the rest only move      *)
(* people forward, and register only in the registration period.            *)
LEMMA CallLater ==
  ASSUME IInv, NEW a,
         \/ \E value \in Values : Register(a, value)
         \/ \E batch \in Batches : SetAttenders(a, batch)
         \/ ClaimAttendanceToken(a)
         \/ \E amount \in Amounts : WithdrawEthEventAdmin(a, amount)
         \/ OpenWithdrawal \/ PauseWithdrawal \/ Withdraw
  PROVE  Later(event, clock, store, store')
<1>1. store \in TicketStorage /\ event \in EventDetails /\ clock \in Nat
  BY TicketingAssumption DEF IInv, StateOK, StateTypeOK
<1>2. ASSUME NEW value, Register(a, value)
      PROVE  Later(event, clock, store, store')
  <2>1. /\ store'.hasRegistered = store.hasRegistered \cup {a}
        /\ store'.attendedEvent = store.attendedEvent
        /\ store'.hasClaimed = store.hasClaimed
    BY Zenon, <1>1, <1>2 DEF Register, Registered, TicketStorage
  <2>2. RegistrationOpen(event, clock)
    BY <1>2 DEF Register, CanRegister
  <2>3. clock \in event.regStartDateAndTime .. event.regDeadline
    BY <1>1, <2>2, MaxUintAssumption DEF RegistrationOpen, EventDetails, Uint
  <2>4. QED
    BY <2>1, <2>3 DEF Later
<1>3. ASSUME NEW batch, SetAttenders(a, batch)
      PROVE  Later(event, clock, store, store')
  BY <1>1, <1>3 DEF SetAttenders, Attended, TicketStorage, Later
<1>4. CASE ClaimAttendanceToken(a)
  BY <1>1, <1>4 DEF ClaimAttendanceToken, Claimed, TicketStorage, Later
<1>5. ASSUME NEW amount, WithdrawEthEventAdmin(a, amount)
      PROVE  Later(event, clock, store, store')
  BY Zenon, <1>1, <1>5
  DEF WithdrawEthEventAdmin, WithdrawnByEventAdmin, TicketStorage, Later
<1>6. CASE OpenWithdrawal \/ PauseWithdrawal \/ Withdraw
  BY <1>1, <1>6
  DEF OpenWithdrawal, PauseWithdrawal, Withdraw, Withdrawn, TicketStorage, Later
<1>7. QED
  BY <1>2, <1>3, <1>4, <1>5, <1>6

(* A call that ends at once is committed at once when it is a transaction   *)
(* of its own, and otherwise leaves what is committed as it was.            *)
LEMMA DoneKeepsHistory ==
  ASSUME IInv, HistoryOK, Done, event' = event, clock' = clock,
         Later(event, clock, store, store')
  PROVE  /\ HistoryOK'
         /\ Committed'.store = Committed.store \/ Committed'.store = store'
<1>1. stack' = stack /\ Later(event, clock, Committed.store, store')
  BY LaterAddsUp DEF HistoryOK, Done
<1>2. CASE stack = <<>>
  <2>1. Committed'.store = store' /\ DOMAIN stack' = {}
    BY <1>1, <1>2, FirstFrame DEF Committed, State, IInv, CallsInv
  <2>2. QED
    BY <2>1, LaterSame DEF HistoryOK
<1>3. CASE stack # <<>>
  <2>1. Committed'.store = Committed.store
    BY <1>1, <1>3 DEF Committed
  <2>2. QED
    BY <1>1, <2>1 DEF HistoryOK
<1>4. QED
  BY <1>2, <1>3

(* A call that waits for a callback commits nothing yet: the first frame    *)
(* saves what was committed.                                                *)
LEMMA AwaitKeepsHistory ==
  ASSUME IInv, HistoryOK, NEW a, MayCall(a), NEW op, NEW id, Await(op, id),
         event' = event, clock' = clock, Later(event, clock, store, store')
  PROVE  HistoryOK' /\ Committed'.store = Committed.store
<1> DEFINE frame == [op |-> op, id |-> id, saved |-> State]
<1>1. Push(frame) /\ frame.saved = State /\ State.store = store
  BY DEF Await, State
<1> HIDE DEF frame
<1>2. /\ CallsInv'
      /\ DOMAIN stack' = DOMAIN stack \cup {Len(stack')}
      /\ \A i \in DOMAIN stack : stack'[i] = stack[i]
      /\ stack'[Len(stack')] = frame
  BY Zenon, <1>1, PushOK DEF IInv
<1>3. stack' \in Seq({stack'[i] : i \in DOMAIN stack'})
  BY <1>2 DEF CallsInv
<1>4. stack' # <<>> /\ 1 \in DOMAIN stack'
  BY <1>2, <1>3, FirstFrame
<1>5. Committed' = stack'[1].saved
  BY <1>4 DEF Committed
<1>6. Committed'.store = Committed.store
  <2>1. CASE stack = <<>>
    <3>1. DOMAIN stack = {}
      BY <2>1, FirstFrame DEF IInv, CallsInv
    <3>2. stack'[1] = frame
      BY <1>2, <1>4, <3>1
    <3>3. QED
      BY <1>1, <1>5, <2>1, <3>2 DEF Committed
  <2>2. CASE stack # <<>>
    <3>1. 1 \in DOMAIN stack
      BY <2>2, FirstFrame DEF IInv, CallsInv
    <3>2. QED
      BY <1>2, <1>5, <2>2, <3>1 DEF Committed
  <2>3. QED
    BY <2>1, <2>2
<1>7. /\ Later(event, clock, Committed.store, store)
      /\ Later(event, clock, Committed.store, store')
  BY LaterAddsUp DEF HistoryOK
<1>8. ASSUME NEW i \in DOMAIN stack'
      PROVE  Later(event, clock, Committed.store, stack'[i].saved.store)
  <2>1. CASE i \in DOMAIN stack
    BY <1>2, <2>1 DEF HistoryOK
  <2>2. CASE i \notin DOMAIN stack
    BY <1>1, <1>2, <1>7, <2>2
  <2>3. QED
    BY <2>1, <2>2
<1>9. QED
  BY <1>6, <1>7, <1>8 DEF HistoryOK

(* With the last frame the transaction is committed.                        *)
LEMMA LeaveKeepsHistory ==
  ASSUME IInv, HistoryOK, stack # <<>>, Leave, event' = event, clock' = clock,
         Later(event, clock, Committed.store, store')
  PROVE  /\ HistoryOK'
         /\ Committed'.store = Committed.store \/ Committed'.store = store'
<1>1. /\ CallsInv'
      /\ DOMAIN stack' \subseteq DOMAIN stack
      /\ \A i \in DOMAIN stack' : stack'[i] = stack[i]
  BY LeaveOK DEF IInv
<1>2. stack' \in Seq({stack'[i] : i \in DOMAIN stack'})
  BY <1>1 DEF CallsInv
<1>3. CASE stack' = <<>>
  <2>1. Committed'.store = store' /\ DOMAIN stack' = {}
    BY <1>2, <1>3, FirstFrame DEF Committed, State
  <2>2. QED
    BY <2>1, LaterSame DEF HistoryOK
<1>4. CASE stack' # <<>>
  <2>1. 1 \in DOMAIN stack'
    BY <1>2, <1>4, FirstFrame
  <2>2. Committed'.store = Committed.store
    BY <1>1, <1>4, <2>1 DEF Committed
  <2>3. QED
    BY <1>1, <2>2 DEF HistoryOK
<1>5. QED
  BY <1>3, <1>4

(* How a call by an account uses the stack.                                 *)
LEMMA CallShape ==
  ASSUME NEW a \in Accounts,
         \/ \E value \in Values : Register(a, value) \/ Receive(a, value)
         \/ \E batch \in Batches : SetAttenders(a, batch)
         \/ ClaimAttendanceToken(a)
         \/ \E amount \in Amounts : WithdrawEthEventAdmin(a, amount)
         \/ \E to, id : TransferTicket(a, to, id) \/ TransferPoap(a, to, id)
  PROVE  /\ MayCall(a) /\ (Done \/ \E op, id : Await(op, id))
         /\ event' = event /\ clock' = clock
BY DEF Register, Receive, SetAttenders, ClaimAttendanceToken,
       WithdrawEthEventAdmin, TransferTicket, TransferPoap, Transfer

\* What a step may do to what is committed.
Moved ==
  /\ HistoryOK'
  /\ Later(event, clock, Committed.store, Committed'.store)

(* A call of anyone moves what is committed forward, if at all.             *)
LEMMA CallMoves ==
  ASSUME IInv, HistoryOK, NEW a, MayCall(a), Done \/ \E op, id : Await(op, id),
         event' = event, clock' = clock, Later(event, clock, store, store')
  PROVE  Moved
<1>1. Later(event, clock, Committed.store, store')
  BY LaterAddsUp DEF HistoryOK
<1>2. /\ HistoryOK'
      /\ Committed'.store = Committed.store \/ Committed'.store = store'
  BY DoneKeepsHistory, AwaitKeepsHistory
<1>3. QED
  BY <1>1, <1>2, LaterSame DEF Moved

(* The end of a function, or its revert, moves what is committed forward.   *)
LEMMA LeaveMoves == ASSUME IInv, HistoryOK, Unwind \/ Revert PROVE Moved
<1>1. stack # <<>> /\ Leave /\ event' = event /\ clock' = clock
  BY DEF Unwind, Revert
<1>2. Len(stack) \in DOMAIN stack
  BY <1>1, LeaveOK DEF IInv
<1>3. store' = store \/ store' = stack[Len(stack)].saved.store
  BY DEF Unwind, Revert, Top
<1>4. Later(event, clock, Committed.store, store')
  BY <1>2, <1>3 DEF HistoryOK
<1>5. /\ HistoryOK'
      /\ Committed'.store = Committed.store \/ Committed'.store = store'
  BY <1>1, <1>4, LeaveKeepsHistory
<1>6. QED
  BY <1>4, <1>5, LaterSame DEF Moved

(* Time passes between transactions only, when nothing is pending.          *)
LEMMA TickKeepsHistory ==
  ASSUME IInv, Tick PROVE HistoryOK' /\ Committed'.store = Committed.store
<1>1. stack = <<>> /\ stack' = stack /\ store' = store
  BY DEF Tick
<1>2. DOMAIN stack' = {}
  BY <1>1, FirstFrame DEF IInv, CallsInv
<1>3. Committed.store = store /\ Committed'.store = store'
  BY <1>1 DEF Committed, State
<1>4. QED
  BY <1>1, <1>2, <1>3, LaterSame DEF HistoryOK

(* Every step keeps the history in order, and moves what is committed       *)
(* forward within one block, or lets time pass.                             *)
LEMMA StepHistory ==
  ASSUME IInv, HistoryOK, [Next]_vars
  PROVE  \/ Moved /\ event' = event /\ clock' = clock
         \/ Tick /\ HistoryOK' /\ Committed'.store = Committed.store
<1>1. ASSUME NEW a \in Accounts,
             \/ \E value \in Values : Register(a, value)
             \/ \E batch \in Batches : SetAttenders(a, batch)
             \/ ClaimAttendanceToken(a)
             \/ \E amount \in Amounts : WithdrawEthEventAdmin(a, amount)
      PROVE  Moved /\ event' = event /\ clock' = clock
  <2>1. /\ MayCall(a) /\ (Done \/ \E op, id : Await(op, id))
        /\ event' = event /\ clock' = clock
    BY <1>1, CallShape
  <2>2. Later(event, clock, store, store')
    BY <1>1, CallLater
  <2>3. QED
    BY <2>1, <2>2, CallMoves
<1>2. ASSUME NEW a \in Accounts,
             \/ \E value \in Values : Receive(a, value)
             \/ \E to, id : TransferTicket(a, to, id) \/ TransferPoap(a, to, id)
      PROVE  Moved /\ event' = event /\ clock' = clock
  <2>1. /\ MayCall(a) /\ (Done \/ \E op, id : Await(op, id))
        /\ event' = event /\ clock' = clock
    BY <1>2, CallShape
  <2>2. store' = store
    BY <1>2 DEF Receive, TransferTicket, TransferPoap, Transfer
  <2>3. QED
    BY <2>1, <2>2, LaterSame, CallMoves
<1>3. CASE OpenWithdrawal \/ PauseWithdrawal \/ Withdraw
  <2>1. PICK a : MayCall(a)
    BY <1>3 DEF OpenWithdrawal, PauseWithdrawal, Withdraw, FactoryMayCall
  <2>2. Done /\ event' = event /\ clock' = clock
    BY <1>3 DEF OpenWithdrawal, PauseWithdrawal, Withdraw
  <2>3. Later(event, clock, store, store')
    BY <1>3, CallLater
  <2>4. QED
    BY <2>1, <2>2, <2>3, CallMoves
<1>4. CASE Unwind \/ Revert
  BY <1>4, LeaveMoves DEF Unwind, Revert
<1>5. CASE Tick
  BY <1>5, TickKeepsHistory
<1>6. CASE UNCHANGED vars
  <2>1. stack' = stack /\ store' = store /\ event' = event /\ clock' = clock
    BY <1>6 DEF vars
  <2>2. Committed'.store = Committed.store
    BY <2>1 DEF Committed, State
  <2>3. QED
    BY <2>1, <2>2, LaterSame DEF HistoryOK, Moved
<1>7. QED
  BY <1>1, <1>2, <1>3, <1>4, <1>5, <1>6 DEF Next

-----------------------------------------------------------------------------
(* The refinement *)

\* Who claimed has attended, who attended is registered, on no more than the
\* seats there are.
PeopleOK(e, s) ==
  /\ s.hasClaimed \subseteq s.attendedEvent
  /\ s.attendedEvent \subseteq s.hasRegistered
  /\ s.hasRegistered \subseteq Accounts
  /\ Cardinality(s.hasRegistered) <= e.totalExpectedParticipants

(* A consistent storage keeps its people in order.                          *)
LEMMA ConsistentPeople ==
  ASSUME NEW e, NEW s, NEW tl, NEW pl, NEW v, StateOK(e, s, tl, pl, v)
  PROVE  PeopleOK(e, s)
BY DEF StateOK, StateTypeOK, HeadcountOK, TicketStorage, PeopleOK

(* What is committed is the present storage or a saved one.                 *)
LEMMA CommittedPeople == IInv => PeopleOK(event, Committed.store)
<1> SUFFICES ASSUME IInv PROVE PeopleOK(event, Committed.store)
  OBVIOUS
<1>1. CASE stack = <<>>
  <2>1. Committed.store = store
    BY <1>1 DEF Committed, State
  <2>2. QED
    BY <2>1, ConsistentPeople DEF IInv
<1>2. CASE stack # <<>>
  <2>1. 1 \in DOMAIN stack
    BY <1>2, FirstFrame DEF IInv, CallsInv
  <2>2. QED
    BY <1>2, <2>1, ConsistentPeople DEF IInv, FramesOK, Committed
<1>3. QED
  BY <1>1, <1>2

(* Moving forward is what Attendance allows to each account.                *)
LEMMA StagesAdvance ==
  ASSUME NEW e, NEW now, NEW s, NEW t, NEW a \in Accounts,
         PeopleOK(e, s), PeopleOK(e, t), Later(e, now, s, t)
  PROVE  /\ StageOf(t, a) \in Abstract!Stages
         /\ StageOf(t, a) \in Abstract!From(StageOf(s, a))
<1>1. CASE a \in s.hasClaimed
  <2>1. StageOf(s, a) = "claimed" /\ StageOf(t, a) = "claimed"
    BY <1>1 DEF StageOf, Later
  <2>2. QED
    BY <2>1 DEF Abstract!From, Abstract!Stages
<1>2. CASE a \notin s.hasClaimed /\ a \in s.attendedEvent
  <2>1. StageOf(s, a) = "attended" /\ StageOf(t, a) \in {"attended", "claimed"}
    BY <1>2 DEF StageOf, Later
  <2>2. QED
    BY <2>1 DEF Abstract!From, Abstract!Stages
<1>3. CASE a \notin s.attendedEvent /\ a \in s.hasRegistered
  <2>1. /\ StageOf(s, a) = "registered"
        /\ StageOf(t, a) \in {"registered", "attended", "claimed"}
    BY <1>3 DEF StageOf, Later, PeopleOK
  <2>2. QED
    BY <2>1 DEF Abstract!From, Abstract!Stages
<1>4. CASE a \notin s.hasRegistered
  <2>1. StageOf(s, a) = "none" /\ StageOf(t, a) \in Abstract!Stages
    BY <1>4 DEF StageOf, PeopleOK, Abstract!Stages
  <2>2. QED
    BY <2>1 DEF Abstract!From
<1>5. QED
  BY <1>1, <1>2, <1>3, <1>4

(* Seats are taken by those who registered.                                 *)
LEMMA SeatedRegistered ==
  ASSUME NEW e, NEW s, PeopleOK(e, s)
  PROVE  Abstract!Seated([a \in Accounts |-> StageOf(s, a)]) = s.hasRegistered
BY DEF Abstract!Seated, StageOf, PeopleOK

(* A new event has nobody's promise to keep.                                *)
LEMMA InitRefines == Init => Abstract!Init /\ HistoryOK
<1> SUFFICES ASSUME Init PROVE Abstract!Init /\ HistoryOK
  OBVIOUS
<1>1. Committed.store = store /\ store = NewStorage /\ DOMAIN stack = {}
  BY NoCallsOK DEF Init, NoCalls, Committed, State
<1>2. HistoryOK
  BY <1>1, LaterSame DEF HistoryOK
<1>3. \A a \in Accounts : StageOf(Committed.store, a) = "none"
  BY <1>1 DEF NewStorage, StageOf
<1>4. Plan \in [seats : Nat, opens : Nat, closes : Nat]
  BY TicketingAssumption, MaxUintAssumption DEF Init, Plan, EventDetails, Uint
<1>5. QED
  BY <1>2, <1>3, <1>4 DEF Abstract!Init, Init

(* What becomes committed is a transaction of Attendance.                   *)
LEMMA CommitRefines ==
  ASSUME PeopleOK(event, Committed.store), PeopleOK(event, Committed'.store),
         Later(event, clock, Committed.store, Committed'.store),
         event' = event, clock' = clock
  PROVE  Abstract!Transaction
<1> DEFINE stage == [a \in Accounts |-> StageOf(Committed.store, a)]
           stage1 == [a \in Accounts |-> StageOf(Committed'.store, a)]
<1>1. \A a \in Accounts : /\ stage1[a] \in Abstract!Stages
                          /\ stage1[a] \in Abstract!From(stage[a])
  BY StagesAdvance
<1>2. stage1 \in [Accounts -> Abstract!Stages]
  BY <1>1
<1>3. /\ Abstract!Seated(stage) = Committed.store.hasRegistered
      /\ Abstract!Seated(stage1) = Committed'.store.hasRegistered
  BY SeatedRegistered
<1>4. Abstract!Seated(stage1) # Abstract!Seated(stage) =>
        clock \in Plan.opens .. Plan.closes
  BY <1>3 DEF Later, Plan
<1>5. Abstract!Cardinality(Abstract!Seated(stage1)) <= Plan.seats
  <2>1. Cardinality(Abstract!Seated(stage1)) <= Plan.seats
    BY <1>3 DEF PeopleOK, Plan
  <2>2. \A S : Abstract!Cardinality(S) = Cardinality(S)
    BY Zenon DEF Abstract!Cardinality, Cardinality
  <2>3. QED
    BY <2>1, <2>2
<1>6. Plan' = Plan
  BY DEF Plan
<1>7. QED
  BY <1>1, <1>2, <1>4, <1>5, <1>6 DEF Abstract!Transaction

(* Every step is a transaction or a tick of Attendance.                     *)
LEMMA StepRefines ==
  /\ IInv /\ HistoryOK /\ [Next]_vars
  /\ PeopleOK(event, Committed.store) /\ PeopleOK(event, Committed.store)'
  => Abstract!Next
<1> SUFFICES ASSUME IInv, HistoryOK, [Next]_vars,
                    PeopleOK(event, Committed.store),
                    PeopleOK(event, Committed.store)'
             PROVE  Abstract!Next
  OBVIOUS
<1>1. CASE Moved /\ event' = event /\ clock' = clock
  <2>1. PeopleOK(event, Committed'.store)
    BY <1>1
  <2>2. QED
    BY <1>1, <2>1, CommitRefines DEF Moved, Abstract!Next
<1>2. CASE Tick /\ HistoryOK' /\ Committed'.store = Committed.store
  BY <1>2 DEF Tick, Plan, Abstract!Next, Abstract!Tick
<1>3. QED
  BY <1>1, <1>2, StepHistory

(* Whatever nests and is undone, between transactions people only move      *)
(* forward, one seat each, and take seats only while registration is open:  *)
(* register, setAttenders and claimAttendanceToken keep what Attendance     *)
(* promises.                                                                *)
THEOREM TicketingImplementsAttendance == Spec => ImplementsAttendance
<1>1. IInv /\ HistoryOK /\ [Next]_vars => HistoryOK'
  BY StepHistory DEF Moved
<1>2. Spec => []HistoryOK
  BY <1>1, InitRefines, InductiveInvariant, PTL DEF Spec
<1>3. QED
  BY <1>2, InitRefines, StepRefines, CommittedPeople, InductiveInvariant, PTL
  DEF Spec, ImplementsAttendance, Abstract!Spec

=============================================================================
