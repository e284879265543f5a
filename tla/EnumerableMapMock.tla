-------------------------- MODULE EnumerableMapMock --------------------------
(***************************************************************************)
(* The contracts that EnumerableMapMock.js generates: one map of each      *)
(* type, and the functions through which anyone changes it. Each emits     *)
(* what the library's function returned, as OperationResult.               *)
(***************************************************************************)
EXTENDS Enumerable

VARIABLES
  mapType,    \* which of the contracts this is
  _map,
  mapCall,    \* the arguments of the last change
  mapResult   \* of its OperationResult

mapVars == <<mapType, _map, mapCall, mapResult>>

MapTypes ==
  {[keyType |-> "uint256", valueType |-> "address"],
   [keyType |-> "address", valueType |-> "uint256"],
   [keyType |-> "bytes32", valueType |-> "bytes32"],
   [keyType |-> "uint256", valueType |-> "uint256"],
   [keyType |-> "bytes32", valueType |-> "uint256"]}

MapKeys == Typed(mapType.keyType)
MapElements == Typed(mapType.valueType)

MapInit ==
  /\ mapType \in MapTypes
  /\ _map = EmptyMap
  /\ mapCall = <<>>
  /\ mapResult = FALSE

SetEntry(key, value) ==
  /\ _map' = TypedSet(_map, mapType, key, value)
  /\ mapCall' = <<key, value>>
  /\ mapResult' = ~TypedContains(_map, mapType, key)
  /\ UNCHANGED mapType

RemoveKey(key) ==
  /\ _map' = TypedRemoved(_map, mapType, key)
  /\ mapCall' = <<key>>
  /\ mapResult' = TypedContains(_map, mapType, key)
  /\ UNCHANGED mapType

MapNext ==
  \E key \in MapKeys :
    RemoveKey(key) \/ \E value \in MapElements : SetEntry(key, value)

MapSpec == MapInit /\ [][MapNext]_mapVars

-----------------------------------------------------------------------------
(* Properties *)

\* The keys the contract says it contains, with what is stored for them.
Entries ==
  [key \in {k \in MapKeys : TypedContains(_map, mapType, k)} |->
     TypedGot(_map, mapType, key)]

(* The array of keys, their positions and the values are consistent: every  *)
(* key is enumerated once, at the position stored for it, and a key that    *)
(* was removed left no value behind.                                        *)
MapConsistent == MapOK(_map)

(* All ways to read the map agree: tryGet and get, which take a value other *)
(* than zero for a proof that the key is there, never answer for a key that *)
(* was removed, always answer for one whose value is zero, and at           *)
(* enumerates exactly the entries.                                          *)
ReadsAgree ==
  /\ \A key \in MapKeys :
       /\ TypedTryGet(_map, mapType, key) = IF key \in DOMAIN Entries
                                              THEN <<TRUE, Entries[key]>>
                                              ELSE <<FALSE, 0>>
       /\ TypedCanGet(_map, mapType, key) <=> key \in DOMAIN Entries
  /\ {TypedAt(_map, mapType, i) : i \in 1 .. Len(_map.keys.values)}
       = {<<key, Entries[key]>> : key \in DOMAIN Entries}

AbstractMap == INSTANCE Dictionary
  WITH Keys <- Words, Values <- Words, entries <- Entries,
       call <- mapCall, result <- mapResult

(* A map of any type behaves as a dictionary of its keys and values: what   *)
(* one operation does to a key leaves all others as they were, however the  *)
(* keys were moved about, and the result says whether the key was new or    *)
(* was there.                                                               *)
ImplementsDictionary == AbstractMap!Spec

=============================================================================
