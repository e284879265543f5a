----------------------------- MODULE MCPlatform -----------------------------
(* Instances of Platform for TLC *)
EXTENDS Platform, TLC

CONSTANTS ctl, org, c1, c2, zero  \* accounts, two event addresses, no address

Symmetry == Permutations({c1, c2})

Plan(fee, seats, opens, closes) ==
  [fee |-> fee, seats |-> seats, opens |-> opens, closes |-> closes]

OneSeat == {Plan(20, 1, 1, 2)}

\* The last one has its deadline before its start.
FreeOrInvalid == {Plan(0, 1, 1, 2), Plan(0, 1, 2, 1)}

=============================================================================
