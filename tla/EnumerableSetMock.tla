-------------------------- MODULE EnumerableSetMock --------------------------
(***************************************************************************)
(* The contracts that EnumerableSetMock.js generates: one set of each      *)
(* type, and the functions through which anyone changes it.                *)
(*                                                                         *)
(* Next to them somebody enumerates the set with one call of at for each   *)
(* position, from the last that length answered down to the first, while   *)
(* values are added and removed between the calls.                         *)
(***************************************************************************)
EXTENDS Enumerable

VARIABLES
  setType,    \* which of the contracts this is
  _set,
  setCall,    \* the arguments of the last change, and what add stores with them
  setResult,  \* of its OperationResult
  place,      \* the position the enumeration reads next, 0 when it is over
  seen,       \* what it read
  stayed      \* the values that have been in the set since it began

setVars == <<setType, _set, setCall, setResult, place, seen, stayed>>

SetTypes == {"bytes32", "address", "uint256"}

SetElements == Typed(setType)

Members == {v \in SetElements : SetContains(_set, setType, v)}

SetInit ==
  /\ setType \in SetTypes
  /\ _set = EmptySet
  /\ setCall = <<>>
  /\ setResult = FALSE
  /\ place = 0 /\ seen = {} /\ stayed = {}

AddValue(value) ==
  /\ _set' = SetAdded(_set, setType, value)
  /\ setCall' = <<value, 0>>
  /\ setResult' = ~SetContains(_set, setType, value)
  /\ UNCHANGED <<setType, place, seen, stayed>>

RemoveValue(value) ==
  /\ _set' = SetRemoved(_set, setType, value)
  /\ setCall' = <<value>>
  /\ setResult' = SetContains(_set, setType, value)
  /\ stayed' = stayed \ {value}
  /\ UNCHANGED <<setType, place, seen>>

\* length()
StartReading ==
  /\ place = 0
  /\ place' = Len(_set.values)
  /\ seen' = {}
  /\ stayed' = Members
  /\ UNCHANGED <<setType, _set, setCall, setResult>>

\* at(place - 1), which reverts where the array no longer has that position
ReadNext ==
  /\ place > 0
  /\ place' = place - 1
  /\ seen' = IF place <= Len(_set.values)
               THEN seen \cup {SetAt(_set, setType, place)}
               ELSE seen
  /\ UNCHANGED <<setType, _set, setCall, setResult, stayed>>

SetNext ==
  \/ \E value \in SetElements : AddValue(value) \/ RemoveValue(value)
  \/ StartReading
  \/ ReadNext

SetSpec == SetInit /\ [][SetNext]_setVars

-----------------------------------------------------------------------------
(* Properties *)

(* values() lists exactly the values contains() answers for, and as many as *)
(* length() says: none is listed twice.                                     *)
ListedOnce ==
  /\ SetValues(_set, setType) = Members
  /\ \A i, j \in 1 .. Len(_set.values) :
       SetAt(_set, setType, i) = SetAt(_set, setType, j) => i = j

(* Whoever reads the positions downwards misses no value that was in the    *)
(* set all the time: remove moves only the last value, to a place before    *)
(* it, and add only adds at the end. What is not read yet is before the     *)
(* place to read next.                                                      *)
NothingMissed == place = 0 => stayed \subseteq seen

(* What makes it so: the array and the positions stored for its values      *)
(* agree, and every value that stayed is seen or still ahead.               *)
Ahead ==
  \A v \in stayed :
    /\ v \in Members
    /\ v \in seen \/ _set.indexes[toBytes32(setType, v)] <= place

SetIInv ==
  /\ setType \in SetTypes
  /\ SetOK(_set)
  /\ \A w \in Words : Contains(_set, w) => w \in SetElements
  /\ place \in Nat
  /\ Ahead

AbstractSet == INSTANCE Dictionary
  WITH Keys <- Words, Values <- {0}, entries <- [v \in Members |-> 0],
       call <- setCall, result <- setResult

(* A set of any type behaves as a set of its values, whatever moves about   *)
(* in its array.                                                            *)
ImplementsSet == AbstractSet!Spec

=============================================================================
