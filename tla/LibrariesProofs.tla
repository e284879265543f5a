-------------------------- MODULE LibrariesProofs ---------------------------
(***************************************************************************)
(* Theorems about EnumerableSet, EnumerableMap, the ERC721 ledger and      *)
(* SafeCast, for every number of words, accounts and bits: what the        *)
(* operations do to a set or a map that is consistent; the generated sets  *)
(* are sets, and reading one downwards misses nothing; the generated maps  *)
(* are dictionaries; a balance is the number of tokens owned, and who      *)
(* trusts nobody loses no token to another; casts keep numbers.            *)
(***************************************************************************)
EXTENDS EnumerableSetMock, EnumerableMapMock, ERC721, SafeCast, CallsProofs,
        SequenceTheorems, FiniteSetTheorems, TLAPS

-----------------------------------------------------------------------------
(* Conversions *)

(* A value that is stored and read again is the same.                       *)
LEMMA RoundTrip ==
  ASSUME NEW type, NEW v \in Typed(type)
  PROVE  /\ toBytes32(type, v) \in Words
         /\ fromBytes32(type, toBytes32(type, v)) = v
         /\ toBytes32(type, v) = v
         /\ v \in Words
<1>1. CASE type = "address"
  <2>1. v \in 0 .. MaxAddress
    BY <1>1 DEF Typed
  <2>2. v % (MaxAddress + 1) = v
    BY <2>1, EnumerableAssumption
  <2>3. v \in Words
    BY <2>1, EnumerableAssumption DEF Words
  <2>4. QED
    BY <1>1, <2>2, <2>3 DEF toBytes32, fromBytes32
<1>2. CASE type # "address"
  BY <1>2 DEF Typed, toBytes32, fromBytes32
<1>3. QED
  BY <1>1, <1>2

-----------------------------------------------------------------------------
(* Sets *)

(* The parts of a consistent set.                                           *)
LEMMA SetFacts ==
  ASSUME NEW s, SetOK(s)
  PROVE  /\ s.values \in Seq(Words)
         /\ s.indexes \in [Words -> Nat]
         /\ Len(s.values) \in Nat
         /\ \A i \in 1 .. Len(s.values) : /\ s.values[i] \in Words
                                          /\ s.indexes[s.values[i]] = i
         /\ \A w \in Words : s.indexes[w] # 0 =>
              /\ s.indexes[w] \in 1 .. Len(s.values)
              /\ s.values[s.indexes[w]] = w
<1>1. s.values \in Seq(Words) /\ s.indexes \in [Words -> Nat]
  BY DEF SetOK, Sets
<1>2. /\ Len(s.values) \in Nat
      /\ \A i \in 1 .. Len(s.values) : s.values[i] \in Words
  BY <1>1, LenProperties
<1>3. QED
  BY <1>1, <1>2 DEF SetOK, Contains

(* A set that was never used is consistent and empty.                       *)
LEMMA EmptySetOK ==
  /\ SetOK(EmptySet)
  /\ \A w \in Words : ~Contains(EmptySet, w)
<1>1. EmptySet.values \in Seq(Words) /\ Len(EmptySet.values) = 0
  BY DEF EmptySet
<1>2. EmptySet \in Sets
  BY <1>1 DEF Sets, EmptySet
<1>3. \A w \in Words : EmptySet.indexes[w] = 0
  BY DEF EmptySet
<1>4. QED
  BY <1>1, <1>2, <1>3 DEF SetOK, Contains

(* Adding makes one value a member and moves none.                          *)
LEMMA AddedOK ==
  ASSUME NEW s, SetOK(s), NEW w \in Words
  PROVE  /\ SetOK(Added(s, w))
         /\ \A x \in Words : Contains(Added(s, w), x) <=> Contains(s, x) \/ x = w
         /\ \A x \in Words : Contains(s, x) =>
              Added(s, w).indexes[x] = s.indexes[x]
<1>1. CASE Contains(s, w)
  BY <1>1 DEF Added
<1>2. CASE ~Contains(s, w)
  <2> DEFINE n == Len(s.values)
             vs == Append(s.values, w)
             ix == [s.indexes EXCEPT ![w] = n + 1]
  <2>1. Added(s, w) = [values |-> vs, indexes |-> ix]
    BY <1>2 DEF Added
  <2>2. /\ s.values \in Seq(Words)
        /\ s.indexes \in [Words -> Nat]
        /\ n \in Nat
        /\ \A i \in 1 .. n : s.values[i] \in Words /\ s.indexes[s.values[i]] = i
        /\ \A x \in Words : s.indexes[x] # 0 =>
             s.indexes[x] \in 1 .. n /\ s.values[s.indexes[x]] = x
    BY SetFacts
  <2>3. /\ vs \in Seq(Words) /\ Len(vs) = n + 1
        /\ \A i \in 1 .. n : vs[i] = s.values[i]
        /\ vs[n + 1] = w
    BY <2>2, AppendProperties
  <2>4. /\ ix \in [Words -> Nat] /\ ix[w] = n + 1
        /\ \A x \in Words \ {w} : ix[x] = s.indexes[x]
    BY <2>2
  <2>5. s.indexes[w] = 0
    BY <1>2 DEF Contains
  <2> HIDE DEF vs, ix
  <2>6. ASSUME NEW i \in 1 .. n + 1 PROVE ix[vs[i]] = i
    <3>1. CASE i = n + 1
      BY <2>3, <2>4, <3>1
    <3>2. CASE i # n + 1
      <4>1. i \in 1 .. n
        BY <2>2, <3>2
      <4>2. vs[i] = s.values[i] /\ s.values[i] \in Words /\ s.indexes[s.values[i]] = i
        BY <2>2, <2>3, <4>1
      <4>3. s.values[i] # w
        BY <2>5, <4>1, <4>2
      <4>4. QED
        BY <2>4, <4>2, <4>3
    <3>3. QED
      BY <3>1, <3>2
  <2>7. ASSUME NEW x \in Words, ix[x] # 0
        PROVE  ix[x] \in 1 .. n + 1 /\ vs[ix[x]] = x
    <3>1. CASE x = w
      BY <2>2, <2>3, <2>4, <3>1
    <3>2. CASE x # w
      <4>1. ix[x] = s.indexes[x] /\ s.indexes[x] \in 1 .. n /\ s.values[ix[x]] = x
        BY <2>2, <2>4, <2>7, <3>2
      <4>2. QED
        BY <2>2, <2>3, <4>1
    <3>3. QED
      BY <3>1, <3>2
  <2>8. SetOK(Added(s, w))
    BY <2>1, <2>3, <2>4, <2>6, <2>7 DEF SetOK, Sets, Contains
  <2>9. \A x \in Words : ix[x] # 0 <=> s.indexes[x] # 0 \/ x = w
    BY <2>2, <2>4
  <2>10. QED
    BY <2>1, <2>4, <2>5, <2>8, <2>9 DEF Contains
<1>3. QED
  BY <1>1, <1>2

(* Removing the value at the end, or any other once the last one has taken  *)
(* its position: the others stay members, and the one that moves moves      *)
(* forward.                                                                 *)
LEMMA RemovedOK ==
  ASSUME NEW s, SetOK(s), NEW w \in Words
  PROVE  /\ SetOK(Removed(s, w))
         /\ \A x \in Words : Contains(Removed(s, w), x) <=> Contains(s, x) /\ x # w
         /\ \A x \in Words : Contains(s, x) /\ x # w =>
              Removed(s, w).indexes[x] <= s.indexes[x]
<1> DEFINE n == Len(s.values)
           p == s.indexes[w]
<1>1. /\ s.values \in Seq(Words)
      /\ s.indexes \in [Words -> Nat]
      /\ n \in Nat
      /\ \A i \in 1 .. n : s.values[i] \in Words /\ s.indexes[s.values[i]] = i
      /\ \A x \in Words : s.indexes[x] # 0 =>
           s.indexes[x] \in 1 .. n /\ s.values[s.indexes[x]] = x
  BY SetFacts
<1>2. CASE ~Contains(s, w)
  <2>1. Removed(s, w) = s /\ s.indexes[w] = 0
    BY <1>2 DEF Removed, Contains
  <2>2. \A x \in Words : Contains(s, x) => x # w
    BY <2>1 DEF Contains
  <2>3. QED
    BY <1>1, <2>1, <2>2
<1>3. CASE Contains(s, w)
  <2> DEFINE last == s.values[n]
             vs == IF p = n THEN s.values ELSE [s.values EXCEPT ![p] = last]
             ix == IF p = n THEN s.indexes ELSE [s.indexes EXCEPT ![last] = p]
             vs1 == SubSeq(vs, 1, n - 1)
             ix1 == [ix EXCEPT ![w] = 0]
  <2>1. p \in 1 .. n /\ s.values[p] = w /\ n \in 1 .. n /\ last \in Words
    <3>1. p \in 1 .. n /\ s.values[p] = w
      BY <1>1, <1>3 DEF Contains
    <3>2. n \in 1 .. n
      BY <1>1, <3>1
    <3>3. QED
      BY <1>1, <3>1, <3>2
  <2>2. /\ vs \in Seq(Words) /\ Len(vs) = n
        /\ \A i \in 1 .. n : vs[i] = IF i = p THEN last ELSE s.values[i]
    <3>1. CASE p = n
      BY <1>1, <3>1
    <3>2. CASE p # n
      <4>1. vs = [s.values EXCEPT ![p] = last] /\ s.values \in [1 .. n -> Words]
        BY <1>1, <3>2, LenProperties
      <4>2. vs \in [1 .. n -> Words]
        BY <2>1, <4>1
      <4>3. vs \in Seq(Words) /\ Len(vs) = n
        BY <1>1, <4>2, IsASeq, LenProperties
      <4>4. QED
        BY <1>1, <4>1, <4>3
    <3>3. QED
      BY <3>1, <3>2
  <2>3. /\ ix \in [Words -> Nat]
        /\ \A x \in Words : ix[x] = IF x = last THEN p ELSE s.indexes[x]
    <3>1. s.indexes[last] = n
      BY <1>1, <2>1
    <3>2. CASE p = n
      BY <1>1, <3>1, <3>2
    <3>3. CASE p # n
      BY <1>1, <2>1, <3>3
    <3>4. QED
      BY <3>2, <3>3
  <2>4. Removed(s, w) = [values |-> vs1, indexes |-> ix1]
    <3>1. CASE p = n
      BY <1>3, <3>1 DEF Removed, Popped
    <3>2. CASE p # n
      <4>1. LastMovedTo(s, p) = [values |-> vs, indexes |-> ix]
        BY <3>2 DEF LastMovedTo
      <4>2. Removed(s, w) = Popped([values |-> vs, indexes |-> ix], w)
        BY <1>3, <3>2, <4>1 DEF Removed
      <4> HIDE DEF vs, ix
      <4>3. QED
        BY <2>2, <4>2 DEF Popped
    <3>3. QED
      BY <3>1, <3>2
  <2> HIDE DEF vs, ix
  <2>5. /\ vs1 \in Seq(Words) /\ Len(vs1) = n - 1
        /\ \A i \in 1 .. n - 1 : vs1[i] = vs[i]
    BY <1>1, <2>1, <2>2, SubSeqProperties
  <2>6. /\ ix1 \in [Words -> Nat] /\ ix1[w] = 0
        /\ \A x \in Words \ {w} : ix1[x] = ix[x]
    BY <2>3
  <2> HIDE DEF vs1, ix1
  <2>7. s.indexes[last] = n /\ (w = last <=> p = n)
    BY <1>1, <2>1
  <2>8. ASSUME NEW i \in 1 .. n - 1 PROVE ix1[vs1[i]] = i
    <3>1. i \in 1 .. n /\ i # n
      BY <1>1
    <3>2. CASE i = p
      <4>1. vs1[i] = last /\ last # w
        BY <2>2, <2>5, <2>7, <3>1, <3>2
      <4>2. QED
        BY <2>1, <2>3, <2>6, <3>2, <4>1
    <3>3. CASE i # p
      <4>1. vs1[i] = s.values[i] /\ s.values[i] \in Words /\ s.indexes[s.values[i]] = i
        BY <1>1, <2>2, <2>5, <3>1, <3>3
      <4>2. s.values[i] # w /\ s.values[i] # last
        BY <2>7, <3>1, <3>3, <4>1
      <4>3. QED
        BY <2>3, <2>6, <4>1, <4>2
    <3>4. QED
      BY <3>2, <3>3
  <2>9. ASSUME NEW x \in Words, ix1[x] # 0
        PROVE  ix1[x] \in 1 .. n - 1 /\ vs1[ix1[x]] = x
    <3>1. x # w /\ ix1[x] = ix[x]
      BY <2>6, <2>9
    <3>2. CASE x = last
      <4>1. ix1[x] = p /\ p # n
        BY <2>3, <2>7, <3>1, <3>2
      <4>2. p \in 1 .. n - 1
        BY <1>1, <2>1, <4>1
      <4>3. QED
        BY <2>1, <2>2, <2>5, <3>2, <4>1, <4>2
    <3>3. CASE x # last
      <4>1. ix1[x] = s.indexes[x] /\ s.indexes[x] \in 1 .. n /\ s.values[s.indexes[x]] = x
        BY <1>1, <2>3, <2>9, <3>1, <3>3
      <4>2. s.indexes[x] # n /\ s.indexes[x] # p
        BY <2>1, <3>1, <3>3, <4>1
      <4>3. s.indexes[x] \in 1 .. n - 1
        BY <1>1, <4>1, <4>2
      <4>4. QED
        BY <2>2, <2>5, <4>1, <4>2, <4>3
    <3>4. QED
      BY <3>2, <3>3
  <2>10. SetOK(Removed(s, w))
    BY <2>4, <2>5, <2>6, <2>8, <2>9 DEF SetOK, Sets, Contains
  <2>11. ASSUME NEW x \in Words, x # w
         PROVE  /\ ix1[x] # 0 <=> s.indexes[x] # 0
                /\ s.indexes[x] # 0 => ix1[x] <= s.indexes[x]
    <3>1. p \in Nat /\ p # 0 /\ p <= n
      BY <1>1, <2>1
    <3>2. CASE x = last
      BY <1>1, <2>3, <2>6, <2>7, <2>11, <3>1, <3>2
    <3>3. CASE x # last
      BY <1>1, <2>3, <2>6, <2>11, <3>3
    <3>4. QED
      BY <3>2, <3>3
  <2>12. QED
    BY <2>4, <2>6, <2>10, <2>11 DEF Contains
<1>4. QED
  BY <1>2, <1>3

-----------------------------------------------------------------------------
(* Maps *)

(* A map that was never used is consistent and empty.                       *)
LEMMA EmptyMapOK ==
  /\ MapOK(EmptyMap)
  /\ \A w \in Words : ~Contains(EmptyMap.keys, w)
<1>1. 0 \in Words
  BY EnumerableAssumption DEF Words
<1>2. EmptyMap \in Maps
  BY <1>1, EmptySetOK DEF EmptyMap, Maps, SetOK
<1>3. QED
  BY <1>2, EmptySetOK DEF EmptyMap, MapOK

(* Setting a key makes it a key, with this value, and changes no other.     *)
LEMMA MapSetOK ==
  ASSUME NEW m, MapOK(m), NEW k \in Words, NEW v \in Words
  PROVE  /\ MapOK(MapSet(m, k, v))
         /\ \A x \in Words : Contains(MapSet(m, k, v).keys, x)
                              <=> Contains(m.keys, x) \/ x = k
         /\ \A x \in Words : MapSet(m, k, v).values[x]
                              = IF x = k THEN v ELSE m.values[x]
<1> DEFINE m1 == MapSet(m, k, v)
<1>1. m.values \in [Words -> Words] /\ SetOK(m.keys)
  BY DEF MapOK, Maps
<1>2. m1.keys = Added(m.keys, k) /\ m1.values = [m.values EXCEPT ![k] = v]
  BY DEF MapSet
<1>3. m1 = [keys |-> m1.keys, values |-> m1.values]
  BY DEF MapSet
<1> HIDE DEF m1
<1>4. /\ SetOK(m1.keys)
      /\ \A x \in Words : Contains(m1.keys, x) <=> Contains(m.keys, x) \/ x = k
  BY <1>1, <1>2, AddedOK
<1>5. /\ m1.values \in [Words -> Words]
      /\ \A x \in Words : m1.values[x] = IF x = k THEN v ELSE m.values[x]
  BY <1>1, <1>2
<1>6. m1 \in Maps
  BY <1>3, <1>4, <1>5 DEF Maps, SetOK
<1>7. MapOK(m1)
  BY <1>4, <1>5, <1>6 DEF MapOK
<1>8. QED
  BY <1>4, <1>5, <1>7 DEF m1

(* Removing a key makes it no key, with no value, and changes no other.     *)
LEMMA MapRemovedOK ==
  ASSUME NEW m, MapOK(m), NEW k \in Words
  PROVE  /\ MapOK(MapRemoved(m, k))
         /\ \A x \in Words : Contains(MapRemoved(m, k).keys, x)
                              <=> Contains(m.keys, x) /\ x # k
         /\ \A x \in Words : MapRemoved(m, k).values[x]
                              = IF x = k THEN 0 ELSE m.values[x]
<1> DEFINE m1 == MapRemoved(m, k)
<1>1. m.values \in [Words -> Words] /\ SetOK(m.keys) /\ 0 \in Words
  BY EnumerableAssumption DEF MapOK, Maps, Words
<1>2. m1.keys = Removed(m.keys, k) /\ m1.values = [m.values EXCEPT ![k] = 0]
  BY DEF MapRemoved
<1>3. m1 = [keys |-> m1.keys, values |-> m1.values]
  BY DEF MapRemoved
<1> HIDE DEF m1
<1>4. /\ SetOK(m1.keys)
      /\ \A x \in Words : Contains(m1.keys, x) <=> Contains(m.keys, x) /\ x # k
  BY <1>1, <1>2, RemovedOK
<1>5. /\ m1.values \in [Words -> Words]
      /\ \A x \in Words : m1.values[x] = IF x = k THEN 0 ELSE m.values[x]
  BY <1>1, <1>2
<1>6. m1 \in Maps
  BY <1>3, <1>4, <1>5 DEF Maps, SetOK
<1>7. MapOK(m1)
  BY <1>4, <1>5, <1>6 DEF MapOK
<1>8. QED
  BY <1>4, <1>5, <1>7 DEF m1

-----------------------------------------------------------------------------
(* The generated sets *)

(* The invariant holds at the start.                                        *)
LEMMA InitSetIInv == SetInit => SetIInv
BY EmptySetOK DEF SetInit, SetIInv, Ahead

(* add() keeps the invariant: it adds at the end and moves nothing.         *)
LEMMA AddIInv ==
  ASSUME SetIInv, NEW v \in SetElements, AddValue(v) PROVE SetIInv'
<1> DEFINE w == toBytes32(setType, v)
<1>1. SetOK(_set) /\ w \in Words /\ _set' = Added(_set, w) /\ setType' = setType
  BY RoundTrip DEF SetIInv, AddValue, SetAdded, SetElements
<1> HIDE DEF w
<1>2. /\ SetOK(_set')
      /\ \A x \in Words : Contains(_set', x) <=> Contains(_set, x) \/ x = w
      /\ \A x \in Words : Contains(_set, x) => _set'.indexes[x] = _set.indexes[x]
  BY <1>1, AddedOK
<1>3. ASSUME NEW u \in stayed
      PROVE  /\ u \in Members'
             /\ u \in seen \/ _set'.indexes[toBytes32(setType, u)] <= place
  <2>1. /\ u \in SetElements /\ Contains(_set, toBytes32(setType, u))
        /\ u \in seen \/ _set.indexes[toBytes32(setType, u)] <= place
    BY DEF SetIInv, Ahead, Members, SetContains
  <2>2. toBytes32(setType, u) \in Words
    BY <2>1, RoundTrip DEF SetElements
  <2>3. QED
    BY <1>1, <1>2, <2>1, <2>2 DEF Members, SetContains, SetElements
<1>4. w = v
  BY RoundTrip DEF SetElements, w
<1>5. \A x \in Words : Contains(_set', x) => x \in SetElements'
  BY <1>1, <1>2, <1>4 DEF SetIInv, SetElements
<1>6. QED
  BY <1>1, <1>2, <1>3, <1>5 DEF SetIInv, Ahead, AddValue

(* remove() keeps the invariant: the value that moves, moves forward.       *)
LEMMA RemoveIInv ==
  ASSUME SetIInv, NEW v \in SetElements, RemoveValue(v) PROVE SetIInv'
<1> DEFINE w == toBytes32(setType, v)
<1>1. SetOK(_set) /\ w \in Words /\ _set' = Removed(_set, w) /\ setType' = setType
  BY RoundTrip DEF SetIInv, RemoveValue, SetRemoved, SetElements
<1>2. w = v
  BY RoundTrip DEF SetElements
<1> HIDE DEF w
<1>3. /\ SetOK(_set')
      /\ \A x \in Words : Contains(_set', x) <=> Contains(_set, x) /\ x # w
      /\ \A x \in Words : Contains(_set, x) /\ x # w =>
           _set'.indexes[x] <= _set.indexes[x]
  BY <1>1, RemovedOK
<1>4. ASSUME NEW u \in stayed'
      PROVE  /\ u \in Members'
             /\ u \in seen' \/ _set'.indexes[toBytes32(setType, u)] <= place'
  <2>1. u \in stayed /\ u # v /\ seen' = seen /\ place' = place
    BY DEF RemoveValue
  <2>2. /\ u \in SetElements /\ Contains(_set, toBytes32(setType, u))
        /\ u \in seen \/ _set.indexes[toBytes32(setType, u)] <= place
    BY <2>1 DEF SetIInv, Ahead, Members, SetContains
  <2>3. toBytes32(setType, u) \in Words /\ toBytes32(setType, u) # w
    BY <1>2, <2>1, <2>2, RoundTrip DEF SetElements
  <2>4. /\ _set'.indexes[toBytes32(setType, u)] \in Nat
        /\ _set.indexes[toBytes32(setType, u)] \in Nat
        /\ place \in Nat
    BY <1>1, <1>3, <2>3 DEF SetOK, Sets, SetIInv
  <2>5. QED
    BY <1>1, <1>3, <2>1, <2>2, <2>3, <2>4 DEF Members, SetContains, SetElements
<1>5. \A x \in Words : Contains(_set', x) => x \in SetElements'
  BY <1>1, <1>3 DEF SetIInv, SetElements
<1>6. QED
  BY <1>1, <1>3, <1>4, <1>5 DEF SetIInv, Ahead, RemoveValue

(* length() shows how many positions there are to read.                     *)
LEMMA StartReadingIInv == ASSUME SetIInv, StartReading PROVE SetIInv'
<1>1. /\ SetOK(_set) /\ _set' = _set /\ setType' = setType
      /\ place' = Len(_set.values) /\ stayed' = Members
  BY DEF SetIInv, StartReading
<1>2. Members' = Members
  BY <1>1 DEF Members, SetElements
<1>3. ASSUME NEW u \in Members
      PROVE  _set.indexes[toBytes32(setType, u)] <= Len(_set.values)
  <2>1. toBytes32(setType, u) \in Words /\ Contains(_set, toBytes32(setType, u))
    BY RoundTrip DEF Members, SetElements, SetContains
  <2>2. QED
    BY <1>1, <2>1, SetFacts DEF Contains
<1>4. SetElements' = SetElements
  BY <1>1 DEF SetElements
<1>5. QED
  BY <1>1, <1>2, <1>3, <1>4, SetFacts DEF SetIInv, Ahead

(* at() shows the one value that was next to be read.                       *)
LEMMA ReadNextIInv == ASSUME SetIInv, ReadNext PROVE SetIInv'
<1>1. /\ SetOK(_set) /\ _set' = _set /\ setType' = setType /\ stayed' = stayed
      /\ place \in Nat /\ place > 0 /\ place' = place - 1
  BY DEF SetIInv, ReadNext
<1>2. Members' = Members
  BY <1>1 DEF Members, SetElements
<1>3. ASSUME NEW u \in stayed
      PROVE  u \in seen' \/ _set.indexes[toBytes32(setType, u)] <= place - 1
  <2> DEFINE w == toBytes32(setType, u)
  <2>1. /\ u \in SetElements /\ Contains(_set, w)
        /\ u \in seen \/ _set.indexes[w] <= place
    BY DEF SetIInv, Ahead, Members, SetContains
  <2>2. w \in Words /\ fromBytes32(setType, w) = u
    BY <2>1, RoundTrip DEF SetElements
  <2> HIDE DEF w
  <2>3. _set.indexes[w] \in 1 .. Len(_set.values) /\ _set.values[_set.indexes[w]] = w
    BY <1>1, <2>1, <2>2, SetFacts DEF Contains
  <2>4. CASE _set.indexes[w] = place
    BY <2>2, <2>3, <2>4, SetFacts, <1>1 DEF ReadNext, SetAt
  <2>5. CASE _set.indexes[w] # place
    <3>1. seen \subseteq seen'
      BY DEF ReadNext
    <3>2. QED
      BY <1>1, <2>1, <2>3, <2>5, <3>1 DEF w
  <2>6. QED
    BY <2>4, <2>5 DEF w
<1>4. SetElements' = SetElements
  BY <1>1 DEF SetElements
<1>5. QED
  BY <1>1, <1>2, <1>3, <1>4 DEF SetIInv, Ahead

(* The invariant is kept by every step.                                     *)
LEMMA NextSetIInv == SetIInv /\ [SetNext]_setVars => SetIInv'
<1> SUFFICES ASSUME SetIInv, [SetNext]_setVars PROVE SetIInv'
  OBVIOUS
<1>1. CASE UNCHANGED setVars
  BY <1>1 DEF setVars, SetIInv, Ahead, Members, SetElements
<1>2. ASSUME NEW v \in SetElements, AddValue(v) \/ RemoveValue(v) PROVE SetIInv'
  BY <1>2, AddIInv, RemoveIInv
<1>3. QED
  BY <1>1, <1>2, StartReadingIInv, ReadNextIInv DEF SetNext

(* The array, the positions and whoever reads them stay consistent.         *)
THEOREM SetInvariant == SetSpec => []SetIInv
BY InitSetIInv, NextSetIInv, PTL DEF SetSpec

(* Reading the positions downwards, in calls between which values are added *)
(* and removed, shows every value that was there all the time.              *)
THEOREM SetReadingMissesNothing == SetSpec => []NothingMissed
<1>1. SetIInv => NothingMissed
  <2> SUFFICES ASSUME SetIInv, place = 0, NEW u \in stayed PROVE u \in seen
    BY DEF NothingMissed
  <2>1. /\ u \in SetElements /\ Contains(_set, toBytes32(setType, u))
        /\ u \in seen \/ _set.indexes[toBytes32(setType, u)] <= 0
    BY DEF SetIInv, Ahead, Members, SetContains
  <2>2. toBytes32(setType, u) \in Words
    BY <2>1, RoundTrip DEF SetElements
  <2>3. _set.indexes[toBytes32(setType, u)] \in 1 .. Len(_set.values)
    BY <2>1, <2>2, SetFacts DEF SetIInv, Contains
  <2>4. QED
    BY <2>1, <2>3, SetFacts DEF SetIInv
<1>2. QED
  BY <1>1, SetInvariant, PTL

(* values() lists what contains() answers for, each once.                   *)
THEOREM SetListsMembersOnce == SetSpec => []ListedOnce
<1>1. SetIInv => ListedOnce
  <2> SUFFICES ASSUME SetIInv PROVE ListedOnce
    OBVIOUS
  <2>1. SetOK(_set) /\ setType \in SetTypes
    BY DEF SetIInv
  <2>2. ASSUME NEW i \in 1 .. Len(_set.values)
        PROVE  /\ SetAt(_set, setType, i) \in Members
               /\ \A j \in 1 .. Len(_set.values) :
                    SetAt(_set, setType, i) = SetAt(_set, setType, j) => i = j
    <3> DEFINE w == _set.values[i]
    <3>1. w \in Words /\ _set.indexes[w] = i
      BY <2>1, SetFacts
    <3>2. Contains(_set, w)
      BY <3>1 DEF Contains
    <3>3. w \in SetElements
      BY <3>1, <3>2 DEF SetIInv
    <3>4. toBytes32(setType, w) = w /\ SetAt(_set, setType, i) = w
      BY <3>3, RoundTrip DEF SetAt, SetElements
    <3>5. w \in Members
      BY <3>2, <3>3, <3>4 DEF Members, SetContains
    <3>6. ASSUME NEW j \in 1 .. Len(_set.values), SetAt(_set, setType, j) = w
          PROVE  j = i
      <4> DEFINE x == _set.values[j]
      <4>1. x \in Words /\ _set.indexes[x] = j
        BY <2>1, SetFacts
      <4>2. Contains(_set, x)
        BY <4>1 DEF Contains
      <4>3. x \in SetElements
        BY <4>1, <4>2 DEF SetIInv
      <4>4. SetAt(_set, setType, j) = x
        BY <4>3, RoundTrip DEF SetAt, SetElements
      <4>5. QED
        BY <3>1, <3>6, <4>1, <4>4
    <3>7. QED
      BY <3>4, <3>5, <3>6
  <2>3. ASSUME NEW v \in Members
        PROVE  \E i \in 1 .. Len(_set.values) : v = SetAt(_set, setType, i)
    <3> DEFINE w == toBytes32(setType, v)
    <3>1. v \in SetElements /\ Contains(_set, w)
      BY DEF Members, SetContains
    <3>2. w \in Words /\ fromBytes32(setType, w) = v
      BY <3>1, RoundTrip DEF SetElements
    <3> HIDE DEF w
    <3>3. /\ _set.indexes[w] \in 1 .. Len(_set.values)
          /\ _set.values[_set.indexes[w]] = w
      BY <2>1, <3>1, <3>2, SetFacts DEF Contains
    <3>4. SetAt(_set, setType, _set.indexes[w]) = v
      BY <3>2, <3>3 DEF SetAt
    <3>5. QED
      BY <3>3, <3>4
  <2>4. QED
    BY <2>2, <2>3 DEF ListedOnce, SetValues
<1>2. QED
  BY <1>1, SetInvariant, PTL

-----------------------------------------------------------------------------
(* The refinement *)

(* What add() and remove() do to the members.                               *)
LEMMA MembersChange ==
  ASSUME SetIInv, NEW v \in SetElements
  PROVE  /\ AddValue(v) => Members' = Members \cup {v}
         /\ RemoveValue(v) => Members' = Members \ {v}
<1> DEFINE w == toBytes32(setType, v)
<1>1. SetOK(_set) /\ w \in Words /\ w = v
  BY RoundTrip DEF SetIInv, SetElements
<1>2. ASSUME AddValue(v) PROVE Members' = Members \cup {v}
  <2>1. _set' = Added(_set, w) /\ SetElements' = SetElements /\ setType' = setType
    BY <1>2 DEF AddValue, SetAdded, SetElements
  <2> HIDE DEF w
  <2>2. \A x \in Words : Contains(_set', x) <=> Contains(_set, x) \/ x = w
    BY <1>1, <2>1, AddedOK
  <2>3. \A x \in SetElements : toBytes32(setType, x) = x /\ x \in Words
    BY RoundTrip DEF SetElements
  <2>4. QED
    BY <1>1, <2>1, <2>2, <2>3 DEF Members, SetContains
<1>3. ASSUME RemoveValue(v) PROVE Members' = Members \ {v}
  <2>1. _set' = Removed(_set, w) /\ SetElements' = SetElements /\ setType' = setType
    BY <1>3 DEF RemoveValue, SetRemoved, SetElements
  <2> HIDE DEF w
  <2>2. \A x \in Words : Contains(_set', x) <=> Contains(_set, x) /\ x # w
    BY <1>1, <2>1, RemovedOK
  <2>3. \A x \in SetElements : toBytes32(setType, x) = x /\ x \in Words
    BY RoundTrip DEF SetElements
  <2>4. QED
    BY <1>1, <2>1, <2>2, <2>3 DEF Members, SetContains
<1>4. QED
  BY <1>2, <1>3

(* add() puts, remove() drops, and reading does nothing to the set.         *)
LEMMA SetStepRefines ==
  SetIInv /\ [SetNext]_setVars => [AbstractSet!Next]_(AbstractSet!vars)
<1> SUFFICES ASSUME SetIInv, [SetNext]_setVars
             PROVE  [AbstractSet!Next]_(AbstractSet!vars)
  OBVIOUS
<1> DEFINE entries == [v \in Members |-> 0]
<1>1. ASSUME NEW v \in SetElements, AddValue(v) PROVE AbstractSet!Next
  <2>1. Members' = Members \cup {v} /\ v \in Words
    BY <1>1, MembersChange, RoundTrip DEF SetElements
  <2>2. setResult' = (v \notin Members) /\ setCall' = <<v, 0>>
    BY <1>1 DEF AddValue, Members
  <2>3. AbstractSet!Put(v, 0)
    BY <2>1, <2>2 DEF AbstractSet!Put
  <2>4. QED
    BY <2>1, <2>3 DEF AbstractSet!Next
<1>2. ASSUME NEW v \in SetElements, RemoveValue(v) PROVE AbstractSet!Next
  <2>1. Members' = Members \ {v} /\ v \in Words
    BY <1>2, MembersChange, RoundTrip DEF SetElements
  <2>2. setResult' = (v \in Members)
    <3>1. setResult' = SetContains(_set, setType, v)
      BY <1>2 DEF RemoveValue
    <3>2. CASE SetContains(_set, setType, v)
      BY <3>1, <3>2 DEF Members, SetContains, Contains
    <3>3. CASE ~SetContains(_set, setType, v)
      BY <3>1, <3>3 DEF Members, SetContains, Contains
    <3>4. QED
      BY <3>2, <3>3
  <2>3. AbstractSet!Drop(v)
    BY <1>2, <2>1, <2>2 DEF AbstractSet!Drop, RemoveValue
  <2>4. QED
    BY <2>1, <2>3 DEF AbstractSet!Next
<1>3. CASE StartReading \/ ReadNext \/ UNCHANGED setVars
  <2>1. _set' = _set /\ setType' = setType /\ setCall' = setCall /\ setResult' = setResult
    BY <1>3 DEF StartReading, ReadNext, setVars
  <2>2. Members' = Members
    BY <2>1 DEF Members, SetElements
  <2>3. QED
    BY <2>1, <2>2 DEF AbstractSet!vars
<1>4. QED
  BY <1>1, <1>2, <1>3 DEF SetNext

(* It starts empty.                                                         *)
LEMMA SetInitRefines == SetInit => AbstractSet!Init
<1> SUFFICES ASSUME SetInit PROVE AbstractSet!Init
  OBVIOUS
<1>1. \A v \in SetElements : toBytes32(setType, v) \in Words
  BY RoundTrip DEF SetElements
<1>2. Members = {}
  BY <1>1, EmptySetOK DEF SetInit, Members, SetContains
<1>3. QED
  BY <1>2 DEF SetInit, AbstractSet!Init

(* The generated contracts are sets of the values added and not removed.    *)
THEOREM SetImplementsSet == SetSpec => ImplementsSet
BY SetInitRefines, SetStepRefines, SetInvariant, PTL
DEF SetSpec, ImplementsSet, AbstractSet!Spec

-----------------------------------------------------------------------------
(* The generated maps *)

\* What is stored fits the types of the map.
Fits ==
  /\ \A w \in Words : Contains(_map.keys, w) => w \in MapKeys
  /\ \A w \in Words : _map.values[w] \in MapElements

MapIInv ==
  /\ mapType \in MapTypes
  /\ MapOK(_map)
  /\ Fits

(* The invariant holds at the start.                                        *)
LEMMA InitMapIInv == MapInit => MapIInv
<1> SUFFICES ASSUME MapInit PROVE MapIInv
  OBVIOUS
<1>1. 0 \in MapElements
  BY EnumerableAssumption DEF MapElements, Typed, Words
<1>2. \A w \in Words : _map.values[w] = 0
  BY DEF MapInit, EmptyMap
<1>3. QED
  BY <1>1, <1>2, EmptyMapOK DEF MapInit, MapIInv, Fits

(* What set() and remove() store, in terms of what anyone gave them.        *)
LEMMA Stored ==
  ASSUME MapIInv, NEW k \in MapKeys
  PROVE  /\ k \in Words
         /\ TypedContains(_map, mapType, k) <=> Contains(_map.keys, k)
         /\ TypedRemoved(_map, mapType, k) = MapRemoved(_map, k)
         /\ \A v \in MapElements : /\ v \in Words
                              /\ TypedSet(_map, mapType, k, v) = MapSet(_map, k, v)
<1>1. k \in Words /\ toBytes32(mapType.keyType, k) = k
  BY RoundTrip DEF MapKeys
<1>2. \A v \in MapElements : v \in Words /\ toBytes32(mapType.valueType, v) = v
  BY RoundTrip DEF MapElements
<1>3. QED
  BY <1>1, <1>2 DEF TypedContains, TypedRemoved, TypedSet

(* set() keeps the invariant.                                               *)
LEMMA SetEntryIInv ==
  ASSUME MapIInv, NEW k \in MapKeys, NEW v \in MapElements, SetEntry(k, v)
  PROVE  MapIInv'
<1>1. /\ _map' = MapSet(_map, k, v) /\ mapType' = mapType
      /\ k \in Words /\ v \in Words
  BY Stored DEF SetEntry
<1>2. /\ MapOK(_map')
      /\ \A x \in Words : Contains(_map'.keys, x) <=> Contains(_map.keys, x) \/ x = k
      /\ \A x \in Words : _map'.values[x] = IF x = k THEN v ELSE _map.values[x]
  <2>1. MapOK(_map)
    BY DEF MapIInv
  <2> DEFINE m1 == MapSet(_map, k, v)
  <2>2. /\ MapOK(m1)
        /\ \A x \in Words : Contains(m1.keys, x) <=> Contains(_map.keys, x) \/ x = k
        /\ \A x \in Words : m1.values[x] = IF x = k THEN v ELSE _map.values[x]
    <3>1. k \in Words /\ v \in Words
      BY <1>1
    <3>2. QED
      BY <2>1, <3>1, MapSetOK
  <2>3. _map' = m1
    BY <1>1
  <2> HIDE DEF m1
  <2>4. QED
    BY <2>2, <2>3
<1>3. MapKeys' = MapKeys /\ MapElements' = MapElements
  BY <1>1 DEF MapKeys, MapElements
<1>4. QED
  BY <1>1, <1>2, <1>3 DEF MapIInv, Fits

(* remove() keeps the invariant.                                            *)
LEMMA RemoveKeyIInv ==
  ASSUME MapIInv, NEW k \in MapKeys, RemoveKey(k) PROVE MapIInv'
<1>1. _map' = MapRemoved(_map, k) /\ mapType' = mapType /\ k \in Words
  BY Stored DEF RemoveKey
<1>2. /\ MapOK(_map')
      /\ \A x \in Words : Contains(_map'.keys, x) <=> Contains(_map.keys, x) /\ x # k
      /\ \A x \in Words : _map'.values[x] = IF x = k THEN 0 ELSE _map.values[x]
  BY <1>1, MapRemovedOK DEF MapIInv
<1>3. MapKeys' = MapKeys /\ MapElements' = MapElements /\ 0 \in MapElements
  BY <1>1, EnumerableAssumption DEF MapKeys, MapElements, Typed, Words
<1>4. QED
  BY <1>1, <1>2, <1>3 DEF MapIInv, Fits

(* The invariant is kept by every step.                                     *)
LEMMA NextMapIInv == MapIInv /\ [MapNext]_mapVars => MapIInv'
<1> SUFFICES ASSUME MapIInv, [MapNext]_mapVars PROVE MapIInv'
  OBVIOUS
<1>1. CASE UNCHANGED mapVars
  BY <1>1 DEF mapVars, MapIInv, Fits, MapKeys, MapElements
<1>2. ASSUME NEW k \in MapKeys, RemoveKey(k) \/ \E v \in MapElements : SetEntry(k, v)
      PROVE  MapIInv'
  BY <1>2, SetEntryIInv, RemoveKeyIInv
<1>3. QED
  BY <1>1, <1>2 DEF MapNext

(* The keys, their positions and the values stay consistent.                *)
THEOREM MapInvariant == MapSpec => [](MapIInv /\ MapConsistent)
<1>1. MapIInv => MapConsistent
  BY DEF MapIInv, MapConsistent
<1>2. QED
  BY <1>1, InitMapIInv, NextMapIInv, PTL DEF MapSpec

-----------------------------------------------------------------------------
(* Reading *)

(* The entries are what is stored.                                          *)
LEMMA EntriesStored ==
  ASSUME MapIInv
  PROVE  /\ DOMAIN Entries = {k \in Words : Contains(_map.keys, k)}
         /\ \A k \in DOMAIN Entries : Entries[k] = _map.values[k]
<1>1. \A k \in MapKeys : k \in Words /\ toBytes32(mapType.keyType, k) = k
  BY RoundTrip DEF MapKeys
<1>2. DOMAIN Entries = {k \in MapKeys : Contains(_map.keys, k)}
  BY <1>1 DEF Entries, TypedContains
<1>3. \A w \in Words : fromBytes32(mapType.valueType, _map.values[w]) = _map.values[w]
  <2>1. ASSUME NEW v \in MapElements PROVE fromBytes32(mapType.valueType, v) = v
    BY RoundTrip DEF MapElements
  <2>2. QED
    BY <2>1 DEF MapIInv, Fits
<1>4. \A k \in DOMAIN Entries : Entries[k] = _map.values[k]
  BY <1>1, <1>2, <1>3 DEF Entries, TypedGot, Got
<1>5. QED
  BY <1>1, <1>2, <1>4 DEF MapIInv, Fits

(* tryGet, get and at answer as the entries say.                            *)
LEMMA ReadsStored == MapIInv => ReadsAgree
<1> SUFFICES ASSUME MapIInv PROVE ReadsAgree
  OBVIOUS
<1> DEFINE n == Len(_map.keys.values)
           es == DOMAIN Entries
<1>1. /\ es = {k \in Words : Contains(_map.keys, k)}
      /\ \A k \in es : Entries[k] = _map.values[k]
  BY EntriesStored
<1>2. \A k \in MapKeys : /\ k \in Words
                      /\ toBytes32(mapType.keyType, k) = k
                      /\ fromBytes32(mapType.keyType, k) = k
  <2>1. ASSUME NEW k \in MapKeys
        PROVE  /\ k \in Words
               /\ toBytes32(mapType.keyType, k) = k
               /\ fromBytes32(mapType.keyType, k) = k
    BY RoundTrip DEF MapKeys
  <2>2. QED
    BY <2>1
<1>3. /\ \A w \in Words : fromBytes32(mapType.valueType, _map.values[w]) = _map.values[w]
      /\ fromBytes32(mapType.valueType, 0) = 0
  <2>1. ASSUME NEW v \in MapElements PROVE fromBytes32(mapType.valueType, v) = v
    BY RoundTrip DEF MapElements
  <2>2. 0 \in MapElements
    BY EnumerableAssumption DEF MapElements, Typed, Words
  <2>3. QED
    BY <2>1, <2>2 DEF MapIInv, Fits
<1>4. \A w \in Words : ~Contains(_map.keys, w) => _map.values[w] = 0
  BY DEF MapIInv, MapOK
<1>5. ASSUME NEW k \in MapKeys
      PROVE  /\ TypedTryGet(_map, mapType, k) = IF k \in es
                                               THEN <<TRUE, Entries[k]>>
                                               ELSE <<FALSE, 0>>
             /\ TypedCanGet(_map, mapType, k) <=> k \in es
  <2>1. k \in Words /\ (k \in es <=> Contains(_map.keys, k))
    BY <1>1, <1>2
  <2>2. TypedCanGet(_map, mapType, k) <=> k \in es
    BY <1>2, <1>4, <2>1 DEF TypedCanGet, CanGet
  <2>3. CASE _map.values[k] = 0
    <3>1. TryGet(_map, k) = <<Contains(_map.keys, k), 0>>
      BY <2>3 DEF TryGet
    <3>2. TypedTryGet(_map, mapType, k) = <<Contains(_map.keys, k), 0>>
      BY <1>2, <1>3, <3>1 DEF TypedTryGet
    <3>3. CASE Contains(_map.keys, k)
      <4>1. Contains(_map.keys, k) = TRUE
        BY <3>3 DEF Contains
      <4>2. k \in es /\ Entries[k] = 0
        BY <1>1, <2>1, <2>3, <3>3
      <4>3. TypedTryGet(_map, mapType, k) = <<TRUE, Entries[k]>>
        BY <3>2, <4>1, <4>2
      <4>4. QED
        BY <2>2, <4>2, <4>3
    <3>4. CASE ~Contains(_map.keys, k)
      <4>1. Contains(_map.keys, k) = FALSE
        BY <3>4 DEF Contains
      <4>2. TypedTryGet(_map, mapType, k) = <<FALSE, 0>>
        BY <3>2, <4>1
      <4>3. QED
        BY <2>1, <2>2, <3>4, <4>2
    <3>5. QED
      BY <3>3, <3>4
  <2>4. CASE _map.values[k] # 0
    <3>1. TryGet(_map, k) = <<TRUE, _map.values[k]>>
      BY <2>4 DEF TryGet
    <3>2. TypedTryGet(_map, mapType, k) = <<TRUE, _map.values[k]>>
      <4>1. /\ toBytes32(mapType.keyType, k) = k
            /\ fromBytes32(mapType.valueType, _map.values[k]) = _map.values[k]
        BY <1>2, <1>3, <2>1
      <4>2. /\ TryGet(_map, k)[1] = TRUE
            /\ TryGet(_map, k)[2] = _map.values[k]
        BY <3>1
      <4>3. QED
        BY <4>1, <4>2 DEF TypedTryGet
    <3>3. k \in es /\ Entries[k] = _map.values[k]
      BY <1>1, <1>4, <2>1, <2>4
    <3>4. QED
      BY <2>2, <3>2, <3>3
  <2>5. QED
    BY <2>3, <2>4
<1>6. ASSUME NEW i \in 1 .. n
      PROVE  LET w == _map.keys.values[i] IN
             w \in es /\ TypedAt(_map, mapType, i) = <<w, Entries[w]>>
  <2> DEFINE w == _map.keys.values[i]
  <2>1. w \in Words /\ _map.keys.indexes[w] = i
    BY SetFacts DEF MapIInv, MapOK
  <2>2. Contains(_map.keys, w) /\ w \in MapKeys
    BY <2>1 DEF Contains, MapIInv, Fits
  <2>3. w \in es
    BY <1>1, <2>1, <2>2
  <2>4. TypedAt(_map, mapType, i) = <<w, Entries[w]>>
    BY <1>1, <1>2, <1>3, <2>1, <2>2, <2>3 DEF TypedAt, At
  <2>5. QED
    BY <2>3, <2>4
<1>7. ASSUME NEW w \in es
      PROVE  \E i \in 1 .. n : w = _map.keys.values[i]
  <2>1. _map.keys.indexes[w] \in 1 .. n /\ _map.keys.values[_map.keys.indexes[w]] = w
    BY <1>1, SetFacts DEF MapIInv, MapOK, Contains
  <2>2. QED
    BY <2>1
<1>8. {TypedAt(_map, mapType, i) : i \in 1 .. n} = {<<w, Entries[w]>> : w \in es}
  <2> HIDE DEF n, es
  <2>1. ASSUME NEW i \in 1 .. n
        PROVE  \E w \in es : TypedAt(_map, mapType, i) = <<w, Entries[w]>>
    BY <1>6
  <2>2. ASSUME NEW w \in es
        PROVE  \E i \in 1 .. n : <<w, Entries[w]>> = TypedAt(_map, mapType, i)
    <3>1. PICK i \in 1 .. n : w = _map.keys.values[i]
      BY <1>7
    <3>2. QED
      BY <1>6, <3>1
  <2>3. QED
    BY <2>1, <2>2
<1>9. QED
  BY <1>5, <1>8 DEF ReadsAgree

(* Whatever was set and removed before, tryGet and get answer for the keys  *)
(* that are there and only for them, and at shows each entry.               *)
THEOREM MapReadsAgree == MapSpec => []ReadsAgree
BY MapInvariant, ReadsStored, PTL

-----------------------------------------------------------------------------
(* The refinement *)

\* The entries as stored.
StoredEntries ==
  [k \in {w \in Words : Contains(_map.keys, w)} |-> _map.values[k]]

EntriesOK == Entries = StoredEntries

(* They are the entries.                                                    *)
LEMMA EntriesAreStored == MapIInv => EntriesOK
<1> SUFFICES ASSUME MapIInv PROVE Entries = StoredEntries
  BY DEF EntriesOK
<1> DEFINE es == {k \in Words : Contains(_map.keys, k)}
<1>1. DOMAIN Entries = es /\ \A k \in es : Entries[k] = _map.values[k]
  BY EntriesStored
<1>2. Entries = [k \in DOMAIN Entries |-> Entries[k]]
  BY DEF Entries
<1> HIDE DEF es
<1>3. Entries = [k \in es |-> _map.values[k]]
  BY <1>1, <1>2
<1>4. QED
  BY <1>3 DEF StoredEntries, es

(* set() puts an entry, remove() drops one.                                 *)
LEMMA MapStepRefines ==
  MapIInv /\ EntriesOK /\ EntriesOK' /\ [MapNext]_mapVars
    => [AbstractMap!Next]_(AbstractMap!vars)
<1> SUFFICES ASSUME MapIInv, EntriesOK, EntriesOK', [MapNext]_mapVars
             PROVE  [AbstractMap!Next]_(AbstractMap!vars)
  OBVIOUS
<1> DEFINE es == {k \in Words : Contains(_map.keys, k)}
           vs == _map.values
           es1 == {k \in Words : Contains(_map'.keys, k)}
           vs1 == _map'.values
<1>1. /\ Entries = [k \in es |-> vs[k]]
      /\ Entries' = [k \in es1 |-> vs1[k]]
  BY DEF StoredEntries, EntriesOK
<1>2. ASSUME NEW k \in MapKeys, NEW v \in MapElements, SetEntry(k, v)
      PROVE  AbstractMap!Next
  <2>1. /\ _map' = MapSet(_map, k, v) /\ k \in Words /\ v \in Words
        /\ mapResult' = ~Contains(_map.keys, k)
    BY <1>2, Stored DEF SetEntry, TypedContains, Contains
  <2>2. /\ es1 = es \cup {k}
        /\ \A x \in Words : vs1[x] = IF x = k THEN v ELSE vs[x]
    BY <2>1, MapSetOK DEF MapIInv
  <2>3. mapResult' = (k \notin es)
    BY <2>1 DEF Contains
  <2>4. es \subseteq Words
    OBVIOUS
  <2> HIDE DEF es, es1, vs, vs1
  <2>5. Entries' = [x \in DOMAIN Entries \cup {k} |->
                     IF x = k THEN v ELSE Entries[x]]
    BY <1>1, <2>1, <2>2, <2>4
  <2>6. DOMAIN Entries = es
    BY <1>1
  <2>7. AbstractMap!Put(k, v)
    BY <1>2, <2>3, <2>5, <2>6 DEF AbstractMap!Put, SetEntry
  <2>8. QED
    BY <2>1, <2>7 DEF AbstractMap!Next
<1>3. ASSUME NEW k \in MapKeys, RemoveKey(k)
      PROVE  AbstractMap!Next
  <2>1. /\ _map' = MapRemoved(_map, k) /\ k \in Words
        /\ mapResult' = TypedContains(_map, mapType, k) /\ mapCall' = <<k>>
        /\ TypedContains(_map, mapType, k) <=> Contains(_map.keys, k)
    BY <1>3, Stored DEF RemoveKey
  <2>2. /\ es1 = es \ {k}
        /\ \A x \in Words : vs1[x] = IF x = k THEN 0 ELSE vs[x]
    BY <2>1, MapRemovedOK DEF MapIInv
  <2>3. mapResult' = (k \in es)
    <3>1. CASE TypedContains(_map, mapType, k)
      BY <2>1, <3>1 DEF TypedContains, Contains
    <3>2. CASE ~TypedContains(_map, mapType, k)
      BY <2>1, <3>2 DEF TypedContains, Contains
    <3>3. QED
      BY <3>1, <3>2
  <2>4. es \subseteq Words
    OBVIOUS
  <2> HIDE DEF es, es1, vs, vs1
  <2>5. Entries' = [x \in DOMAIN Entries \ {k} |-> Entries[x]]
    BY <1>1, <2>1, <2>2, <2>4
  <2>6. DOMAIN Entries = es
    BY <1>1
  <2>7. AbstractMap!Drop(k)
    BY <2>1, <2>3, <2>5, <2>6 DEF AbstractMap!Drop
  <2>8. QED
    BY <2>1, <2>7 DEF AbstractMap!Next
<1>4. CASE UNCHANGED mapVars
  <2>1. _map' = _map /\ mapCall' = mapCall /\ mapResult' = mapResult /\ mapType' = mapType
    BY <1>4 DEF mapVars
  <2>2. Entries' = Entries
    BY <1>1, <2>1
  <2>3. QED
    BY <2>1, <2>2 DEF AbstractMap!vars
<1>5. QED
  BY <1>2, <1>3, <1>4 DEF MapNext

(* It starts empty.                                                         *)
LEMMA MapInitRefines == MapInit => AbstractMap!Init
<1> SUFFICES ASSUME MapInit PROVE AbstractMap!Init
  OBVIOUS
<1>1. DOMAIN Entries = {}
  BY InitMapIInv, EntriesStored, EmptyMapOK DEF MapInit
<1>2. Entries = [k \in DOMAIN Entries |-> Entries[k]]
  BY DEF Entries
<1>3. QED
  BY <1>1, <1>2 DEF MapInit, AbstractMap!Init

(* The generated contracts are dictionaries of the entries set and not      *)
(* removed, whatever the types of their keys and values.                    *)
THEOREM MapImplementsDictionary == MapSpec => ImplementsDictionary
BY MapInitRefines, MapStepRefines, EntriesAreStored, MapInvariant, PTL
DEF MapSpec, ImplementsDictionary, AbstractMap!Spec

-----------------------------------------------------------------------------
(* The ledger: counting tokens *)

(* An account's tokens can be counted; who has one has a balance.           *)
LEMMA Countable ==
  ASSUME NEW own, NEW a
  PROVE  /\ IsFiniteSet(TokensOf(own, a))
         /\ Cardinality(TokensOf(own, a)) \in Nat
         /\ \A id \in Tokens :
              own[id] = a => Cardinality(TokensOf(own, a)) > 0
<1>1. TokensOf(own, a) \subseteq Tokens
  BY DEF TokensOf
<1>2. IsFiniteSet(TokensOf(own, a))
  BY <1>1, LedgerAssumption, FS_Subset
<1>3. Cardinality(TokensOf(own, a)) \in Nat
  BY <1>2, FS_CardinalityType
<1>4. ASSUME NEW id \in Tokens, own[id] = a
      PROVE  Cardinality(TokensOf(own, a)) > 0
  <2>1. TokensOf(own, a) # {}
    BY <1>4 DEF TokensOf
  <2>2. Cardinality(TokensOf(own, a)) # 0
    BY <1>2, <2>1, FS_EmptySet
  <2>3. QED
    BY <1>3, <2>2
<1>5. QED
  BY <1>2, <1>3, <1>4

\* What moving token id to an account does to the number of a's tokens.
CountMoves(own, own1, id, to, a) ==
  LET count == Cardinality(TokensOf(own, a))
      count1 == Cardinality(TokensOf(own1, a)) IN
  /\ a # own[id] /\ a # to => count1 = count
  /\ a = own[id] /\ a = to => count1 = count
  /\ a = own[id] /\ a # to => count1 = count - 1
  /\ a # own[id] /\ a = to => count1 = count + 1

(* A token that moves leaves one account's tokens and joins another's; it   *)
(* may come from nobody, when it is minted.                                 *)
LEMMA TokensMove ==
  ASSUME NEW own \in [Tokens -> Accounts \cup {NoOne}], NEW own1,
         NEW id \in Tokens, NEW to \in Accounts, NEW a \in Accounts,
         own1 = [own EXCEPT ![id] = to]
  PROVE  CountMoves(own, own1, id, to, a)
<1>1. /\ own1[id] = to
      /\ \A k \in Tokens \ {id} : own1[k] = own[k]
  OBVIOUS
<1>2. (a # own[id] /\ a # to) \/ (a = own[id] /\ a = to) =>
        TokensOf(own1, a) = TokensOf(own, a)
  BY <1>1 DEF TokensOf
<1>3. ASSUME a = own[id], a # to
      PROVE  Cardinality(TokensOf(own1, a)) = Cardinality(TokensOf(own, a)) - 1
  <2>1. TokensOf(own1, a) = TokensOf(own, a) \ {id} /\ id \in TokensOf(own, a)
    BY <1>1, <1>3 DEF TokensOf
  <2>2. QED
    BY <2>1, Countable, FS_RemoveElement
<1>4. ASSUME a # own[id], a = to
      PROVE  Cardinality(TokensOf(own1, a)) = Cardinality(TokensOf(own, a)) + 1
  <2>1. /\ TokensOf(own1, a) = TokensOf(own, a) \cup {id}
        /\ id \notin TokensOf(own, a)
    BY <1>1, <1>4 DEF TokensOf
  <2>2. QED
    BY <2>1, Countable, FS_AddElement
<1>5. QED
  BY <1>2, <1>3, <1>4 DEF CountMoves

(* _mint adds one to the balance of the new owner, unchecked.               *)
LEMMA MintedBalances ==
  ASSUME NEW own \in [Tokens -> Accounts \cup {NoOne}], NEW bal,
         BalancesOK(own, bal),
         NEW id \in Tokens, own[id] = NoOne, NEW to \in Accounts
  PROVE  BalancesOK([own EXCEPT ![id] = to], [bal EXCEPT ![to] = @ + 1])
<1> DEFINE own1 == [own EXCEPT ![id] = to]
           bal1 == [bal EXCEPT ![to] = @ + 1]
<1>1. /\ bal \in [Accounts -> Nat]
      /\ \A a \in Accounts : bal[a] = Cardinality(TokensOf(own, a))
  BY DEF BalancesOK
<1>2. /\ bal1 \in [Accounts -> Nat]
      /\ bal1[to] = bal[to] + 1
      /\ \A a \in Accounts \ {to} : bal1[a] = bal[a]
  BY <1>1
<1>3. \A a \in Accounts : a # own[id]
  BY LedgerAssumption
<1>4. own1 = [own EXCEPT ![id] = to]
  OBVIOUS
<1> HIDE DEF bal1, own1
<1>5. ASSUME NEW a \in Accounts
      PROVE  bal1[a] = Cardinality(TokensOf(own1, a))
  <2>1. CountMoves(own, own1, id, to, a)
    BY <1>4, TokensMove
  <2>2. QED
    BY <1>1, <1>2, <1>3, <2>1 DEF CountMoves
<1>6. QED
  BY <1>2, <1>5 DEF BalancesOK, bal1, own1

(* _transfer takes one from the balance of the owner and adds one to that   *)
(* of the receiver, one after the other: the subtraction cannot underflow,  *)
(* and who sends a token to itself keeps its balance.                       *)
LEMMA ShiftedBalances ==
  ASSUME NEW own \in [Tokens -> Accounts \cup {NoOne}], BalancesOK(own, balances),
         NEW id \in Tokens, own[id] # NoOne, NEW to \in Accounts
  PROVE  BalancesOK([own EXCEPT ![id] = to], Shifted(own[id], to))
<1> DEFINE own1 == [own EXCEPT ![id] = to]
           from == own[id]
           less == [balances EXCEPT ![from] = @ - 1]
           bal1 == [less EXCEPT ![to] = @ + 1]
<1>1. /\ balances \in [Accounts -> Nat]
      /\ \A a \in Accounts : balances[a] = Cardinality(TokensOf(own, a))
  BY DEF BalancesOK
<1>2. from \in Accounts
  OBVIOUS
<1>3. balances[from] > 0
  BY <1>1, <1>2, Countable
<1>4. /\ less \in [Accounts -> Nat]
      /\ less[from] = balances[from] - 1
      /\ \A a \in Accounts \ {from} : less[a] = balances[a]
  BY <1>1, <1>2, <1>3
<1> HIDE DEF less
<1>5. /\ bal1 \in [Accounts -> Nat]
      /\ bal1[to] = less[to] + 1
      /\ \A a \in Accounts \ {to} : bal1[a] = less[a]
  BY <1>4
<1>6. own1 = [own EXCEPT ![id] = to] /\ from = own[id]
  OBVIOUS
<1> HIDE DEF bal1, own1, from
<1>7. ASSUME NEW a \in Accounts
      PROVE  bal1[a] = Cardinality(TokensOf(own1, a))
  <2>1. balances[a] = Cardinality(TokensOf(own, a)) /\ balances[a] \in Nat
    BY <1>1
  <2>2. CountMoves(own, own1, id, to, a)
    BY <1>2, <1>6, TokensMove
  <2>3. CASE a = to
    BY <1>2, <1>4, <1>5, <1>6, <2>1, <2>2, <2>3 DEF CountMoves
  <2>4. CASE a # to
    BY <1>2, <1>4, <1>5, <1>6, <2>1, <2>2, <2>4 DEF CountMoves
  <2>5. QED
    BY <2>3, <2>4
<1>8. QED
  BY <1>5, <1>7 DEF BalancesOK, bal1, less, own1, from, Shifted

-----------------------------------------------------------------------------
(* The ledger: its steps *)

(* What a call has to leave behind if it ends at once or waits for the      *)
(* receiver: the frame it leaves on the stack is the present ledger.        *)
LEMMA CallKeepsIInv ==
  ASSUME LedgerIInv, NEW a, MayCall(a), Done \/ Push(ledger),
         LedgerOK(owners', balances', tokenApprovals', operatorApprovals',
                  trusting')
  PROVE  LedgerIInv'
<1>1. CASE Done
  BY <1>1, DoneOK DEF LedgerIInv
<1>2. CASE Push(ledger)
  <2>1. /\ CallsInv'
        /\ DOMAIN stack' = DOMAIN stack \cup {Len(stack')}
        /\ \A i \in DOMAIN stack : stack'[i] = stack[i]
        /\ stack'[Len(stack')] = ledger
    BY <1>2, PushOK DEF LedgerIInv
  <2>2. LedgerOK(ledger[1], ledger[2], ledger[3], ledger[4], ledger[5])
    BY DEF LedgerIInv, ledger
  <2>3. ASSUME NEW i \in DOMAIN stack'
        PROVE  LedgerOK(stack'[i][1], stack'[i][2], stack'[i][3], stack'[i][4],
                        stack'[i][5])
    <3>1. CASE i \in DOMAIN stack
      BY <2>1, <3>1 DEF LedgerIInv
    <3>2. CASE i \notin DOMAIN stack
      <4>1. stack'[i] = ledger
        BY <2>1, <2>3, <3>2
      <4>2. QED
        BY <2>2, <4>1
    <3>3. QED
      BY <3>1, <3>2
  <2>4. QED
    BY <2>1, <2>3 DEF LedgerIInv
<1>3. QED
  BY <1>1, <1>2

(* No token exists and nobody trusts anyone at the start.                   *)
LEMMA InitLedger == LedgerInit => LedgerIInv
<1> SUFFICES ASSUME LedgerInit PROVE LedgerIInv
  OBVIOUS
<1>1. \A a \in Accounts : TokensOf(owners, a) = {}
  BY LedgerAssumption DEF LedgerInit, TokensOf
<1>2. BalancesOK(owners, balances)
  BY <1>1, FS_EmptySet DEF LedgerInit, BalancesOK
<1>3. ApprovalsOK(owners, tokenApprovals, operatorApprovals, trusting)
  BY DEF LedgerInit, ApprovalsOK
<1>4. CallsInv /\ DOMAIN stack = {}
  BY NoCallsOK DEF LedgerInit
<1>5. QED
  BY <1>2, <1>3, <1>4 DEF LedgerInit, LedgerOK, LedgerIInv

(* _safeMint keeps the invariant: a token that does not exist has no        *)
(* approval that its first owner would not have made.                       *)
LEMMA SafeMintKeeps ==
  ASSUME LedgerIInv, NEW a \in Accounts, NEW to \in Accounts, NEW id \in Tokens,
         SafeMint(a, to, id)
  PROVE  LedgerIInv'
<1>1. /\ owners \in [Tokens -> Accounts \cup {NoOne}]
      /\ BalancesOK(owners, balances)
      /\ ApprovalsOK(owners, tokenApprovals, operatorApprovals, trusting)
  BY DEF LedgerIInv, LedgerOK
<1>2. /\ owners' = [owners EXCEPT ![id] = to]
      /\ balances' = [balances EXCEPT ![to] = @ + 1]
      /\ tokenApprovals' = tokenApprovals
      /\ operatorApprovals' = operatorApprovals /\ trusting' = trusting
      /\ owners[id] = NoOne
      /\ MayCall(a) /\ (Done \/ Push(ledger))
  BY DEF SafeMint, Call, Exists, CheckOnERC721Received
<1>3. owners' \in [Tokens -> Accounts \cup {NoOne}]
  BY <1>1, <1>2
<1>4. BalancesOK(owners', balances')
  BY <1>1, <1>2, MintedBalances
<1>5. ApprovalsOK(owners', tokenApprovals', operatorApprovals', trusting')
  <2>1. tokenApprovals[id] = NoOne
    BY <1>1, <1>2, LedgerAssumption DEF ApprovalsOK
  <2>2. \A k \in Tokens : k # id => owners'[k] = owners[k]
    BY <1>1, <1>2
  <2>3. QED
    BY <1>1, <1>2, <2>1, <2>2 DEF ApprovalsOK
<1>6. QED
  BY <1>2, <1>3, <1>4, <1>5, CallKeepsIInv DEF LedgerOK

(* approve keeps the invariant: the owner of the token has now trusted.     *)
LEMMA ApproveKeeps ==
  ASSUME LedgerIInv, NEW a \in Accounts, NEW to \in Accounts \cup {NoOne},
         NEW id \in Tokens, Approve(a, to, id)
  PROVE  LedgerIInv'
<1>1. /\ owners \in [Tokens -> Accounts \cup {NoOne}]
      /\ ApprovalsOK(owners, tokenApprovals, operatorApprovals, trusting)
      /\ BalancesOK(owners, balances)
  BY DEF LedgerIInv, LedgerOK
<1>2. /\ owners' = owners /\ balances' = balances
      /\ tokenApprovals' = [tokenApprovals EXCEPT ![id] = to]
      /\ trusting' = trusting \cup {owners[id]}
      /\ operatorApprovals' = operatorApprovals
      /\ owners[id] # NoOne
      /\ MayCall(a) /\ Done
  BY DEF Approve, Call, Exists
<1>3. ApprovalsOK(owners', tokenApprovals', operatorApprovals', trusting')
  BY <1>1, <1>2 DEF ApprovalsOK
<1>4. LedgerOK(owners', balances', tokenApprovals', operatorApprovals', trusting')
  BY <1>1, <1>2, <1>3 DEF LedgerOK
<1>5. QED
  BY <1>2, <1>4, CallKeepsIInv

(* setApprovalForAll keeps the invariant.                                   *)
LEMMA SetApprovalForAllKeeps ==
  ASSUME LedgerIInv, NEW a \in Accounts, NEW operator \in Accounts,
         NEW approved \in BOOLEAN, SetApprovalForAll(a, operator, approved)
  PROVE  LedgerIInv'
<1>1. LedgerOK(owners, balances, tokenApprovals, operatorApprovals, trusting)
  BY DEF LedgerIInv
<1>2. /\ owners' = owners /\ balances' = balances
      /\ tokenApprovals' = tokenApprovals
      /\ operatorApprovals' \subseteq operatorApprovals \cup {<<a, operator>>}
      /\ trusting' = trusting \cup {a}
      /\ MayCall(a) /\ Done
  BY DEF SetApprovalForAll, Call
<1>3. ApprovalsOK(owners', tokenApprovals', operatorApprovals', trusting')
  BY <1>1, <1>2 DEF LedgerOK, ApprovalsOK
<1>4. LedgerOK(owners', balances', tokenApprovals', operatorApprovals', trusting')
  BY <1>1, <1>2, <1>3 DEF LedgerOK
<1>5. QED
  BY <1>2, <1>4, CallKeepsIInv

(* A transfer keeps the invariant: the approval of the token is over.       *)
LEMMA TransferKeeps ==
  ASSUME LedgerIInv, NEW a \in Accounts, NEW to \in Accounts, NEW id \in Tokens,
         Transfer(a, to, id), Done \/ Push(ledger)
  PROVE  LedgerIInv'
<1>1. /\ owners \in [Tokens -> Accounts \cup {NoOne}]
      /\ BalancesOK(owners, balances)
      /\ ApprovalsOK(owners, tokenApprovals, operatorApprovals, trusting)
  BY DEF LedgerIInv, LedgerOK
<1>2. /\ owners' = [owners EXCEPT ![id] = to]
      /\ balances' = Shifted(owners[id], to)
      /\ tokenApprovals' = [tokenApprovals EXCEPT ![id] = NoOne]
      /\ operatorApprovals' = operatorApprovals /\ trusting' = trusting
      /\ owners[id] # NoOne
      /\ MayCall(a)
  BY DEF Transfer, Call, Exists, Cleared
<1>3. owners' \in [Tokens -> Accounts \cup {NoOne}]
  BY <1>1, <1>2
<1>4. BalancesOK(owners', balances')
  BY <1>1, <1>2, ShiftedBalances
<1>5. ApprovalsOK(owners', tokenApprovals', operatorApprovals', trusting')
  <2>1. /\ tokenApprovals' \in [Tokens -> Accounts \cup {NoOne}]
        /\ tokenApprovals'[id] = NoOne
        /\ \A k \in Tokens : k # id =>
             owners'[k] = owners[k] /\ tokenApprovals'[k] = tokenApprovals[k]
    BY <1>1, <1>2 DEF ApprovalsOK
  <2>2. QED
    BY <1>1, <1>2, <2>1 DEF ApprovalsOK
<1>6. QED
  BY <1>2, <1>3, <1>4, <1>5, CallKeepsIInv DEF LedgerOK

(* The answer of a receiver keeps the invariant: what it refused brings a   *)
(* ledger back that was in order.                                           *)
LEMMA AnswerKeeps ==
  ASSUME LedgerIInv, Accepted \/ Refused PROVE LedgerIInv'
<1>1. /\ CallsInv'
      /\ Len(stack) \in DOMAIN stack
      /\ DOMAIN stack' \subseteq DOMAIN stack
      /\ \A i \in DOMAIN stack' : stack'[i] = stack[i]
  BY LeaveOK DEF LedgerIInv, Accepted, Refused
<1>2. LedgerOK(owners', balances', tokenApprovals', operatorApprovals', trusting')
  <2>1. CASE Accepted
    <3>1. /\ owners' = owners /\ balances' = balances
          /\ tokenApprovals' = tokenApprovals
          /\ operatorApprovals' = operatorApprovals /\ trusting' = trusting
      BY <2>1 DEF Accepted, ledger
    <3>2. QED
      BY <3>1 DEF LedgerIInv
  <2>2. CASE Refused
    <3>1. LedgerOK(Top[1], Top[2], Top[3], Top[4], Top[5])
      BY <1>1 DEF LedgerIInv, Top
    <3>2. QED
      BY <2>2, <3>1 DEF Refused
  <2>3. QED
    BY <2>1, <2>2
<1>3. QED
  BY <1>1, <1>2 DEF LedgerIInv

(* Every step keeps the invariant.                                          *)
LEMMA NextLedger == LedgerIInv /\ [LedgerNext]_ledgerVars => LedgerIInv'
<1> SUFFICES ASSUME LedgerIInv, [LedgerNext]_ledgerVars PROVE LedgerIInv'
  OBVIOUS
<1>1. ASSUME NEW a \in Accounts, NEW to \in Accounts, NEW id \in Tokens,
             TransferFrom(a, to, id) \/ SafeTransferFrom(a, to, id)
      PROVE  LedgerIInv'
  BY <1>1, TransferKeeps
  DEF TransferFrom, SafeTransferFrom, CheckOnERC721Received
<1>2. CASE UNCHANGED ledgerVars
  BY <1>2 DEF ledgerVars, LedgerIInv, CallsInv
<1>3. QED
  BY <1>1, <1>2, SafeMintKeeps, ApproveKeeps, SetApprovalForAllKeeps, AnswerKeeps
  DEF LedgerNext

-----------------------------------------------------------------------------
(* The ledger: theorems *)

(* Balances, owners and approvals are in order in every reachable state,    *)
(* and in every state a refusal would bring back.                           *)
THEOREM LedgerInvariant == LedgerSpec => []LedgerIInv
BY InitLedger, NextLedger, PTL DEF LedgerSpec

(* The unchecked additions and subtractions of _mint and _transfer leave    *)
(* every account with as many as it has tokens.                             *)
THEOREM BalancesAlwaysCount == LedgerSpec => []BalancesCount
<1>1. LedgerIInv => BalancesCount
  BY DEF LedgerIInv, LedgerOK, BalancesOK, BalancesCount
<1>2. QED
  BY <1>1, LedgerInvariant, PTL

(* A token moves away only by a call of its owner, or of someone approved   *)
(* by an owner that has trusted.                                            *)
LEMMA StepTrusted ==
  LedgerIInv /\ [LedgerNext]_ledgerVars =>
    [caller' # "callback" =>
       \A id \in Tokens : Exists(id) /\ owners'[id] # owners[id] =>
         caller' = owners[id] \/ owners[id] \in trusting]_ledgerVars
<1> SUFFICES ASSUME LedgerIInv, LedgerNext, caller' # "callback",
                    NEW id \in Tokens, Exists(id), owners'[id] # owners[id]
             PROVE  caller' = owners[id] \/ owners[id] \in trusting
  BY DEF ledgerVars
<1>1. /\ owners \in [Tokens -> Accounts \cup {NoOne}]
      /\ ApprovalsOK(owners, tokenApprovals, operatorApprovals, trusting)
  BY DEF LedgerIInv, LedgerOK
<1>2. ~Accepted /\ ~Refused
  BY DEF Accepted, Refused
<1>3. PICK a \in Accounts, to \in Accounts, k \in Tokens :
        SafeMint(a, to, k) \/ Transfer(a, to, k)
  BY <1>2 DEF LedgerNext, Approve, SetApprovalForAll, TransferFrom,
              SafeTransferFrom
<1>4. owners' = [owners EXCEPT ![k] = to] /\ caller' = a
  BY <1>3 DEF SafeMint, Transfer, Call
<1>5. k = id
  BY <1>1, <1>4
<1>6. IsApprovedOrOwner(a, id)
  BY <1>3, <1>5 DEF SafeMint, Transfer
<1>7. owners[id] \in Accounts
  BY <1>1 DEF Exists
<1>8. QED
  BY <1>1, <1>4, <1>6, <1>7, LedgerAssumption
  DEF IsApprovedOrOwner, MayActFor, ApprovalsOK

(* Who never approved anyone loses no token but by its own call, whatever   *)
(* earlier owners approved and whatever receivers call back or refuse.      *)
THEOREM NobodyTrustedNothingLost == LedgerSpec => TrustingNobodyKeepsTokens
BY StepTrusted, LedgerInvariant, PTL DEF LedgerSpec, TrustingNobodyKeepsTokens

-----------------------------------------------------------------------------
(* Casts *)

(* What is used of an integer and of the length of its type.               *)
CastsIInv ==
  /\ signedness \in {"uint", "int"}
  /\ bitLength \in 1 .. Word
  /\ integer \in Int
  /\ CastsKeepValue

(* A number is its own remainder exactly when it is smaller than what it is  *)
(* divided by and not negative.                                              *)
LEMMA OwnRemainder ==
  ASSUME NEW a \in Int, NEW b \in Nat \ {0}
  PROVE  /\ a % b \in 0 .. b - 1
         /\ a % b = a <=> a \in 0 .. b - 1
<1>1. a % b \in 0 .. b - 1
  OBVIOUS
<1>2. ASSUME a \in 0 .. b - 1  PROVE a % b = a
  BY <1>2
<1> QED BY <1>1, <1>2

(* The powers of two a type of so many bits is described with.              *)
LEMMA Powers ==
  ASSUME NEW bits \in 1 .. Word
  PROVE  /\ 2 ^ (bits - 1) \in Nat \ {0}
         /\ 2 ^ bits \in Nat \ {0}
         /\ 2 ^ bits = 2 * 2 ^ (bits - 1)
         /\ 2 ^ bits <= 2 ^ Word
         /\ 2 ^ (bits - 1) <= 2 ^ (Word - 1)
<1>1. /\ bits \in 0 .. Word /\ bits - 1 \in 0 .. Word
      /\ Word \in 0 .. Word /\ Word - 1 \in 0 .. Word
      /\ bits \in 0 .. Word /\ bits - 1 \in 0 .. Word - 1
  BY CastAssumption
<1>2. \A n \in 0 .. Word : 2 ^ n \in Nat \ {0}
  BY CastAssumption
<1>3. \A n \in 0 .. Word : \A m \in 0 .. n : 2 ^ m <= 2 ^ n
  BY CastAssumption
<1>4. 2 ^ bits = 2 * 2 ^ (bits - 1)
  BY CastAssumption
<1> QED BY <1>1, <1>2, <1>3, <1>4

(* A signed number keeps its value on conversion exactly when it is a value  *)
(* of the type.                                                              *)
LEMMA SignedConversion ==
  ASSUME NEW bits \in 1 .. Word, NEW v \in Int
  PROVE  /\ AsInt(bits, v) \in Int_(bits)
         /\ AsInt(bits, v) = v <=> v \in Int_(bits)
<1> DEFINE h == 2 ^ (bits - 1)
<1> DEFINE r == (v + h) % (2 * h)
<1>1. h \in Nat \ {0} /\ 2 ^ bits = 2 * h
  BY Powers
<1>2. AsInt(bits, v) = r - h
  BY <1>1 DEF AsInt
<1>3. v \in Int_(bits) <=> v \in -h .. h - 1
  BY <1>1 DEF Int_
<1>4. AsInt(bits, v) \in Int_(bits) <=> AsInt(bits, v) \in -h .. h - 1
  BY <1>1 DEF Int_
<1>5. v + h \in Int /\ 2 * h \in Nat \ {0}
  BY <1>1
<1>6. r \in 0 .. 2 * h - 1 /\ (r = v + h <=> v + h \in 0 .. 2 * h - 1)
  BY <1>5, OwnRemainder
<1> HIDE DEF h, r
<1> QED BY <1>1, <1>2, <1>3, <1>4, <1>6

(* An unsigned number keeps its value on conversion exactly when it is a     *)
(* value of the type.                                                        *)
LEMMA UnsignedConversion ==
  ASSUME NEW bits \in 1 .. Word, NEW v \in Int
  PROVE  /\ AsUint(bits, v) \in Uint(bits)
         /\ AsUint(bits, v) = v <=> v \in Uint(bits)
BY Powers, OwnRemainder DEF AsUint, Uint

(* Values of the integer types are integers.                                *)
LEMMA TypesHoldIntegers ==
  ASSUME NEW bits \in 1 .. Word
  PROVE  Uint(bits) \subseteq Int /\ Int_(bits) \subseteq Int
BY Powers DEF Uint, Int_

(* Numbers start as values of their types.                                  *)
LEMMA CastsStart == CastInit => CastsIInv
<1> SUFFICES ASSUME CastInit PROVE CastsIInv
  OBVIOUS
<1>1. Word \in 1 .. Word
  BY CastAssumption
<1>2. integer \in Int
  BY <1>1, TypesHoldIntegers DEF CastInit
<1> QED BY <1>1, <1>2 DEF CastInit, CastsIInv, CastsKeepValue

(* Every cast keeps a number, and makes it a value of the type it casts to. *)
LEMMA CastsGoOn == CastsIInv /\ [CastNext]_castVars => CastsIInv'
<1> SUFFICES ASSUME CastsIInv, [CastNext]_castVars PROVE CastsIInv'
  OBVIOUS
<1> USE DEF CastsIInv, CastsKeepValue
<1>1. Word \in 1 .. Word /\ LENGTHS \subseteq 1 .. Word
  BY CastAssumption
<1>2. ASSUME NEW bits \in LENGTHS, toUintDownCast(bits) PROVE CastsIInv'
  <2>1. bits \in 1 .. Word
    BY <1>1
  <2>2. integer \in Uint(bits)
    <3>1. integer \in 0 .. 2 ^ bitLength - 1
      BY <1>2 DEF toUintDownCast, Uint
    <3> QED BY <1>2, <2>1, <3>1, Powers DEF toUintDownCast, FitsUint, Uint
  <2>3. AsUint(bits, integer) = integer
    BY <2>1, <2>2, UnsignedConversion
  <2> QED BY <1>2, <2>1, <2>2, <2>3 DEF toUintDownCast
<1>3. ASSUME NEW bits \in LENGTHS, toIntDownCast(bits) PROVE CastsIInv'
  <2>1. bits \in 1 .. Word
    BY <1>1
  <2>2. AsInt(bits, integer) = integer
    BY <1>3 DEF toIntDownCast, FitsInt
  <2>3. integer \in Int_(bits)
    BY <2>1, <2>2, SignedConversion
  <2> QED BY <1>3, <2>1, <2>2, <2>3 DEF toIntDownCast
<1>4. ASSUME toInt PROVE CastsIInv'
  <2>1. integer \in 0 .. 2 ^ bitLength - 1
    BY <1>4 DEF toInt, Uint
  <2>2. integer \in Int_(Word)
    BY <1>1, <1>4, <2>1, Powers DEF toInt, FitsWordInt, Int_
  <2>3. AsInt(Word, integer) = integer
    BY <1>1, <2>2, SignedConversion
  <2> QED BY <1>1, <1>4, <2>2, <2>3 DEF toInt
<1>5. ASSUME toUint PROVE CastsIInv'
  <2>1. integer \in -(2 ^ (bitLength - 1)) .. 2 ^ (bitLength - 1) - 1
    BY <1>5 DEF toUint, Int_
  <2>2. integer \in Uint(Word)
    BY <1>1, <1>5, <2>1, Powers DEF toUint, FitsWordUint, Uint
  <2>3. AsUint(Word, integer) = integer
    BY <1>1, <2>2, UnsignedConversion
  <2> QED BY <1>1, <1>5, <2>2, <2>3 DEF toUint
<1>6. ASSUME UNCHANGED castVars PROVE CastsIInv'
  BY <1>6 DEF castVars
<1> QED BY <1>2, <1>3, <1>4, <1>5, <1>6 DEF CastNext

(* CastsKeepValue: no sequence of casts that do not revert changes a number, *)
(* and what they return is always a value of the type.                       *)
THEOREM CastsAlwaysKeepValue == CastSpec => []CastsKeepValue
<1>1. CastsIInv => CastsKeepValue
  BY DEF CastsIInv
<1> QED BY <1>1, CastsStart, CastsGoOn, PTL DEF CastSpec

(* CastsRefuseNoFit: in whatever type the number is, a cast reverts exactly  *)
(* when the number is no value of the type asked for.                        *)
THEOREM CastsNeverRefuseAFit == CastSpec => []CastsRefuseNoFit
<1>1. CastsIInv => CastsRefuseNoFit
  <2> SUFFICES ASSUME CastsIInv PROVE CastsRefuseNoFit
    OBVIOUS
  <2>1. LENGTHS \subseteq 1 .. Word /\ Word \in 1 .. Word
    BY CastAssumption
  <2>2. signedness = "uint" => integer \in 0 .. 2 ^ bitLength - 1
    BY DEF CastsIInv, CastsKeepValue, Uint
  <2>3. signedness = "int" =>
          integer \in -(2 ^ (bitLength - 1)) .. 2 ^ (bitLength - 1) - 1
    BY DEF CastsIInv, CastsKeepValue, Int_
  <2>4. ASSUME NEW bits \in LENGTHS
        PROVE  /\ signedness = "uint" =>
                    (FitsUint(bits, integer) <=> integer \in Uint(bits))
               /\ signedness = "int" =>
                    (FitsInt(bits, integer) <=> integer \in Int_(bits))
    <3>1. bits \in 1 .. Word
      BY <2>1
    <3>2. signedness = "uint" => (FitsUint(bits, integer) <=> integer \in Uint(bits))
      BY <3>1, <2>2, Powers DEF FitsUint, Uint, CastsIInv
    <3>3. FitsInt(bits, integer) <=> integer \in Int_(bits)
      BY <3>1, SignedConversion DEF FitsInt, CastsIInv
    <3> QED BY <3>2, <3>3
  <2>5. signedness = "uint" => (FitsWordInt(integer) <=> integer \in Int_(Word))
    BY <2>1, <2>2, Powers DEF FitsWordInt, Int_, CastsIInv
  <2>6. signedness = "int" => (FitsWordUint(integer) <=> integer \in Uint(Word))
    BY <2>1, <2>3, Powers DEF FitsWordUint, Uint, CastsIInv
  <2> QED BY <2>4, <2>5, <2>6 DEF CastsRefuseNoFit
<1> QED BY <1>1, CastsStart, CastsGoOn, PTL DEF CastSpec

=============================================================================
