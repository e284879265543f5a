----------------------------- MODULE Enumerable -----------------------------
(***************************************************************************)
(* The containers whose code OpenZeppelin's generator writes               *)
(* (scripts/generate/templates/EnumerableSet.js, EnumerableMap.js and      *)
(* conversion.js), as operators over their storage.                        *)
(*                                                                         *)
(*   s  a Set: the array _values and the mapping _indexes                  *)
(*   m  a Map: a Set of keys and the mapping _values                       *)
(*                                                                         *)
(* Storage holds words of 32 bytes; keys and values of the other types go  *)
(* through toBytes32 and fromBytes32. Positions count from 1, where the    *)
(* code counts from 0 and stores positions plus 1.                         *)
(* Faulty variants of a definition precede it; no specification uses them. *)
(***************************************************************************)
EXTENDS Integers, Sequences

CONSTANTS MaxWord,      \* a word is a number up to MaxWord (2^256 - 1)
          MaxAddress    \* an address is one up to MaxAddress (2^160 - 1)

ASSUME EnumerableAssumption ==
  /\ MaxWord \in Nat /\ MaxAddress \in Nat
  /\ MaxAddress <= MaxWord

Words == 0 .. MaxWord

\* The values of a Solidity type.
Typed(type) == IF type = "address" THEN 0 .. MaxAddress ELSE Words

-----------------------------------------------------------------------------
(* Conversions: a number is the same word of 32 bytes, an address is cut to *)
(* 20 bytes and extended by zeros                                           *)

toBytes32Shifted(type, value) ==
  IF type = "address" THEN (value * (MaxAddress + 1)) % (MaxWord + 1) ELSE value

toBytes32(type, value) ==
  IF type = "address" THEN value % (MaxAddress + 1) ELSE value

fromBytes32(type, value) ==
  IF type = "address" THEN value % (MaxAddress + 1) ELSE value

-----------------------------------------------------------------------------
(* EnumerableSet *)

Sets == [values : Seq(Words), indexes : [Words -> Nat]]

EmptySet == [values |-> <<>>, indexes |-> [w \in Words |-> 0]]

Contains(s, w) == s.indexes[w] # 0

AddedUnchecked(s, w) ==
  [values |-> Append(s.values, w),
   indexes |-> [s.indexes EXCEPT ![w] = Len(s.values) + 1]]

Added(s, w) ==
  IF Contains(s, w) THEN s
  ELSE [values |-> Append(s.values, w),
        indexes |-> [s.indexes EXCEPT ![w] = Len(s.values) + 1]]

Popped(s, w) ==
  [values |-> SubSeq(s.values, 1, Len(s.values) - 1),
   indexes |-> [s.indexes EXCEPT ![w] = 0]]

\* The value at the end of the array takes position p.
LastMovedTo(s, p) ==
  LET lastValue == s.values[Len(s.values)] IN
  [values |-> [s.values EXCEPT ![p] = lastValue],
   indexes |-> [s.indexes EXCEPT ![lastValue] = p]]

RemovedUnmoved(s, w) == IF Contains(s, w) THEN Popped(s, w) ELSE s

RemovedDeletingFirst(s, w) ==
  IF ~Contains(s, w) THEN s
  ELSE [values |-> Popped(LastMovedTo(s, s.indexes[w]), w).values,
        indexes |-> [s.indexes EXCEPT ![w] = 0,
                                      ![s.values[Len(s.values)]] = s.indexes[w]]]

\* Swap and pop.
Removed(s, w) ==
  LET valueIndex == s.indexes[w] IN
  IF ~Contains(s, w) THEN s
  ELSE IF valueIndex = Len(s.values) THEN Popped(s, w)
  ELSE Popped(LastMovedTo(s, valueIndex), w)

\* Of a typed set.
SetContains(s, type, value) == Contains(s, toBytes32(type, value))
SetAdded(s, type, value) == Added(s, toBytes32(type, value))
SetRemoved(s, type, value) == Removed(s, toBytes32(type, value))
SetAt(s, type, i) == fromBytes32(type, s.values[i])
SetValues(s, type) == {SetAt(s, type, i) : i \in 1 .. Len(s.values)}

\* The array and the mapping say the same.
SetOK(s) ==
  /\ s \in Sets
  /\ \A i \in 1 .. Len(s.values) : s.indexes[s.values[i]] = i
  /\ \A w \in Words : Contains(s, w) => /\ s.indexes[w] \in 1 .. Len(s.values)
                                        /\ s.values[s.indexes[w]] = w

-----------------------------------------------------------------------------
(* EnumerableMap *)

Maps == [keys : Sets, values : [Words -> Words]]

EmptyMap == [keys |-> EmptySet, values |-> [w \in Words |-> 0]]

MapSet(m, key, value) ==
  [keys |-> Added(m.keys, key), values |-> [m.values EXCEPT ![key] = value]]

MapRemovedKeepingValue(m, key) == [m EXCEPT !.keys = Removed(m.keys, key)]

MapRemoved(m, key) ==
  [keys |-> Removed(m.keys, key), values |-> [m.values EXCEPT ![key] = 0]]

\* A value other than zero is taken for the proof that the key is there.
TryGet(m, key) ==
  LET value == m.values[key] IN
  IF value = 0 THEN <<Contains(m.keys, key), 0>> ELSE <<TRUE, value>>

CanGet(m, key) == m.values[key] # 0 \/ Contains(m.keys, key)
Got(m, key) == m.values[key]

At(m, i) == <<m.keys.values[i], m.values[m.keys.values[i]]>>

\* Of a typed map; t has the types of its keys and of its values.
TypedSet(m, t, key, value) ==
  MapSet(m, toBytes32(t.keyType, key), toBytes32(t.valueType, value))

TypedRemoved(m, t, key) == MapRemoved(m, toBytes32(t.keyType, key))

TypedContains(m, t, key) == Contains(m.keys, toBytes32(t.keyType, key))

TypedAt(m, t, i) ==
  LET inner == At(m, i) IN
  <<fromBytes32(t.keyType, inner[1]), fromBytes32(t.valueType, inner[2])>>

TypedTryGet(m, t, key) ==
  LET inner == TryGet(m, toBytes32(t.keyType, key)) IN
  <<inner[1], fromBytes32(t.valueType, inner[2])>>

TypedCanGet(m, t, key) == CanGet(m, toBytes32(t.keyType, key))

TypedGot(m, t, key) ==
  fromBytes32(t.valueType, Got(m, toBytes32(t.keyType, key)))

\* The value of an absent key is zero.
MapOK(m) ==
  /\ m \in Maps
  /\ SetOK(m.keys)
  /\ \A w \in Words : ~Contains(m.keys, w) => m.values[w] = 0

=============================================================================
