---------------------------- MODULE Attendance ----------------------------
(***************************************************************************)
(* What an event promises its public, with transactions as single steps:   *)
(* each account goes from having no seat to registered, attended and       *)
(* claimed, never back, and seats are taken only in the registration       *)
(* period and as long as there are any.                                    *)
(***************************************************************************)
EXTENDS Integers, FiniteSets

CONSTANT Accounts

VARIABLES
  plan,   \* the number of seats and the registration period
  stage,  \* how far each account has come
  clock   \* block.timestamp

vars == <<plan, stage, clock>>

Stages == {"none", "registered", "attended", "claimed"}

\* The stages an account at stage s may be found at later.
From(s) ==
  CASE s = "none"       -> Stages
    [] s = "registered" -> {"registered", "attended", "claimed"}
    [] s = "attended"   -> {"attended", "claimed"}
    [] s = "claimed"    -> {"claimed"}

Seated(st) == {a \in Accounts : st[a] # "none"}

Init ==
  /\ plan \in [seats : Nat, opens : Nat, closes : Nat]
  /\ stage = [a \in Accounts |-> "none"]
  /\ clock = 1

\* One transaction may move several accounts: contracts call one another.
Transaction ==
  /\ stage' \in [Accounts -> Stages]
  /\ \A a \in Accounts : stage'[a] \in From(stage[a])
  /\ Seated(stage') # Seated(stage) => clock \in plan.opens .. plan.closes
  /\ Cardinality(Seated(stage')) <= plan.seats
  /\ UNCHANGED <<plan, clock>>

Tick ==
  /\ clock' = clock + 1
  /\ UNCHANGED <<plan, stage>>

Next == Transaction \/ Tick

Spec == Init /\ [][Next]_vars

=============================================================================
