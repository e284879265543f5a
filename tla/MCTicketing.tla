---------------------------- MODULE MCTicketing ----------------------------
(* Instances of Ticketing for TLC *)
EXTENDS Ticketing

CONSTANTS u, w, org  \* a user, a contract, and the organizer

Event(id, fee, seats, opens, closes) ==
  [eventNftId |-> id, eventFee |-> fee, totalExpectedParticipants |-> seats,
   regStartDateAndTime |-> opens, regDeadline |-> closes,
   eventAdmin |-> org, Controller |-> org]

\* 20 wei is the least fee of which the platform's 5% is not rounded away.
PaidEvent == {Event(7, 20, 2, 1, 2)}

\* One seat; a free event; numbers for two tokens only; a fee that overflows
\* the sum of two sales, and five times which overflows at once.
SmallEvents == {Event(7, 20, 1, 1, 2), Event(7, 0, 2, 2, 3),
                Event(MaxUint - 2, 20, 2, 1, 2), Event(7, 130, 2, 1, 2)}

FreeEvent == {Event(7, 0, 2, 1, 2)}

=============================================================================
