---------------------------- MODULE MCLibraries ----------------------------
(***************************************************************************)
(* The vendored libraries for TLC, in one run: the generated sets, maps,   *)
(* checkpoints and casts, and the ERC721 ledger. They share no state, so   *)
(* a behaviour takes one of them through all it can do and leaves the      *)
(* others at a state they start from: TLC visits the sum of their states,  *)
(* not the product.                                                        *)
(***************************************************************************)
EXTENDS EnumerableSetMock, EnumerableMapMock, CheckpointsMock, SafeCast,
        ERC721

VARIABLE library   \* the one that moves

\* The largest number whose square is not larger.
FloorSqrt ==
  [n \in 1 .. MaxKey + 1 |->
     CHOOSE r \in 1 .. n : r * r <= n /\ n < (r + 1) * (r + 1)]

Libraries == {"sets", "maps", "checkpoints", "casts", "ledger"}

\* A library that stays where it starts does so at one state.
Init ==
  /\ library \in Libraries
  /\ SetInit
  /\ library # "sets" => setType = "bytes32"
  /\ MapInit
  /\ library # "maps" => mapType = [keyType |-> "bytes32", valueType |-> "bytes32"]
  /\ CheckpointsInit
  /\ library # "checkpoints" => kind = "Trace"
  /\ CastInit
  /\ library # "casts" => signedness = "uint" /\ integer = 0
  /\ LedgerInit

Next ==
  /\ UNCHANGED library
  /\ \/ /\ library = "sets" /\ SetNext
        /\ UNCHANGED <<mapVars, checkpointsVars, castVars, ledgerVars>>
     \/ /\ library = "maps" /\ MapNext
        /\ UNCHANGED <<setVars, checkpointsVars, castVars, ledgerVars>>
     \/ /\ library = "checkpoints" /\ CheckpointsNext
        /\ UNCHANGED <<setVars, mapVars, castVars, ledgerVars>>
     \/ /\ library = "casts" /\ CastNext
        /\ UNCHANGED <<setVars, mapVars, checkpointsVars, ledgerVars>>
     \/ /\ library = "ledger" /\ LedgerNext
        /\ UNCHANGED <<setVars, mapVars, checkpointsVars, castVars>>

vars == <<library, setVars, mapVars, checkpointsVars, castVars, ledgerVars>>

Spec == Init /\ [][Next]_vars

\* A lookup that was started is executed to its end: it is one call.
OthersStay == UNCHANGED <<library, setVars, mapVars, castVars, ledgerVars>>

FairSpec ==
  /\ Spec
  /\ WF_vars(Round /\ OthersStay)
  /\ WF_vars(Return /\ OthersStay)

=============================================================================
