------------------------------- MODULE Calls -------------------------------
(***************************************************************************)
(* Transactions and callbacks.                                             *)
(*                                                                         *)
(* A call from outside starts a transaction.  Where a function hands       *)
(* control to a contract (onERC721Received after a mint or a safe          *)
(* transfer, the receive function of whoever is paid) it stays on the      *)
(* stack as a frame, together with the state a revert would bring back,    *)
(* and until the callback is answered contracts may call in again.         *)
(***************************************************************************)
EXTENDS Integers, Sequences

CONSTANTS
  Wallets,   \* the accounts that are contracts and answer callbacks
  MaxCalls   \* calls the gas of one transaction pays for within callbacks

ASSUME MaxCallsAssumption == MaxCalls \in Nat

VARIABLES
  stack,     \* the functions waiting for a callback's answer, innermost last
  gas        \* calls the running transaction can still pay for

Top == stack[Len(stack)]

NoCalls == stack = <<>> /\ gas = MaxCalls

\* Within a transaction only contracts run, and only on the gas left.
MayCall(a) == stack = <<>> \/ (a \in Wallets /\ gas > 0)

SpendGas == gas' = IF stack = <<>> THEN gas ELSE gas - 1

\* The call ends here.
Done == SpendGas /\ UNCHANGED stack

\* The call waits for the answer of the contract it hands control to.
Push(frame) == SpendGas /\ stack' = Append(stack, frame)

\* The innermost function ends; with the outermost the transaction does.
Leave ==
  /\ stack' = SubSeq(stack, 1, Len(stack) - 1)
  /\ gas' = IF Len(stack) = 1 THEN MaxCalls ELSE gas

\* The stack is a sequence, and gas bounds how deep calls nest.
CallsInv ==
  /\ stack \in Seq({stack[i] : i \in DOMAIN stack})
  /\ gas \in 0 .. MaxCalls
  /\ stack = <<>> => gas = MaxCalls
  /\ Len(stack) + gas <= MaxCalls + 1

=============================================================================
