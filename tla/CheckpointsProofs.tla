-------------------------- MODULE CheckpointsProofs --------------------------
(***************************************************************************)
(* Checkpointed values answer as Timeline says, for every number of keys   *)
(* and values, and wherever Math.sqrt splits the array.                    *)
(***************************************************************************)
EXTENDS CheckpointsMock, SequenceTheorems, TLAPS

\* An array of checkpoints in order.
Ordered(self) == self \in Seq(Checkpoint) /\ Increasing(self)

-----------------------------------------------------------------------------
(* Arrays in order *)

(* The parts of an array in order.                                          *)
LEMMA OrderedFacts ==
  ASSUME NEW self, Ordered(self)
  PROVE  /\ self \in Seq(Checkpoint)
         /\ Len(self) \in Nat
         /\ self = <<>> <=> Len(self) = 0
         /\ \A i \in 1 .. Len(self) :
              /\ self[i] \in Checkpoint
              /\ self[i].key \in KeyRange /\ self[i].key \in Int
              /\ self[i].value \in ValueRange
              /\ i <= self[i].key + 1
         /\ \A i, j \in 1 .. Len(self) : i < j => self[i].key < self[j].key
         /\ Len(self) <= MaxKey + 1
<1>1. self \in Seq(Checkpoint) /\ Increasing(self)
  BY DEF Ordered
<1>2. /\ Len(self) \in Nat
      /\ self = <<>> <=> Len(self) = 0
      /\ \A i \in 1 .. Len(self) : self[i] \in Checkpoint
  BY <1>1, LenProperties, EmptySeq
<1>3. /\ \A i \in 1 .. Len(self) :
           /\ self[i].key \in KeyRange /\ self[i].key \in Int
           /\ self[i].value \in ValueRange
           /\ i <= self[i].key + 1
      /\ \A i, j \in 1 .. Len(self) : i < j => self[i].key < self[j].key
  BY <1>1, <1>2 DEF Increasing, Checkpoint, KeyRange
<1>4. Len(self) <= MaxKey + 1
  <2>1. CASE Len(self) = 0
    BY <2>1, CheckpointsAssumption
  <2>2. CASE Len(self) # 0
    <3>1. Len(self) \in 1 .. Len(self)
      BY <1>2, <2>2
    <3>2. self[Len(self)].key \in 0 .. MaxKey /\ Len(self) <= self[Len(self)].key + 1
      BY <1>3, <3>1 DEF KeyRange
    <3>3. QED
      BY <1>2, <3>2, CheckpointsAssumption
  <2>3. QED
    BY <2>1, <2>2
<1>5. QED
  BY <1>1, <1>2, <1>3, <1>4

(* Access within bounds.                                                    *)
LEMMA Access ==
  ASSUME NEW self, Ordered(self), NEW pos \in Nat, pos < Len(self)
  PROVE  UnsafeAccess(self, pos) = self[pos + 1] /\ pos + 1 \in 1 .. Len(self)
BY OrderedFacts DEF UnsafeAccess

(* Inserting replaces the last checkpoint, if it has the same key, or adds  *)
(* one with a larger key at the end.                                        *)
LEMMA InsertedCases ==
  ASSUME NEW self, Ordered(self), NEW key \in KeyRange, NEW value \in ValueRange,
         CanInsert(self, key)
  PROVE  LET n == Len(self)
             t == Inserted(self, key, value)
             new == [key |-> key, value |-> value] IN
         \/ /\ n > 0 /\ self[n].key = key
            /\ t \in Seq(Checkpoint) /\ Len(t) = n
            /\ \A i \in 1 .. n - 1 : t[i] = self[i]
            /\ t[n] = new
         \/ /\ t \in Seq(Checkpoint) /\ Len(t) = n + 1
            /\ \A i \in 1 .. n : t[i] = self[i] /\ self[i].key < key
            /\ t[n + 1] = new
<1> DEFINE n == Len(self)
           t == Inserted(self, key, value)
           new == [key |-> key, value |-> value]
<1>1. /\ self \in Seq(Checkpoint) /\ n \in Nat
      /\ self = <<>> <=> n = 0
      /\ \A i \in 1 .. n : self[i] \in Checkpoint /\ self[i].key \in Int
      /\ \A i, j \in 1 .. n : i < j => self[i].key < self[j].key
  BY OrderedFacts
<1>2. new \in Checkpoint
  BY DEF Checkpoint
<1>3. n > 0 => UnsafeAccess(self, n - 1) = self[n]
  BY <1>1 DEF UnsafeAccess
<1>4. CASE n > 0 /\ self[n].key = key
  <2>1. t = [self EXCEPT ![n] = new]
    BY <1>1, <1>3, <1>4 DEF Inserted
  <2>2. self \in [1 .. n -> Checkpoint]
    BY <1>1, LenProperties
  <2> HIDE DEF t, new
  <2>3. t \in [1 .. n -> Checkpoint]
    BY <1>2, <2>1, <2>2
  <2>4. t \in Seq(Checkpoint) /\ Len(t) = n
    BY <1>1, <2>3, IsASeq, LenProperties
  <2>5. t[n] = new /\ \A i \in 1 .. n - 1 : t[i] = self[i]
    BY <1>1, <1>4, <2>1, <2>2
  <2>6. QED
    BY <1>4, <2>4, <2>5 DEF t, new
<1>5. CASE ~(n > 0 /\ self[n].key = key)
  <2>1. t = Append(self, new)
    BY <1>1, <1>3, <1>5 DEF Inserted
  <2>2. \A i \in 1 .. n : self[i].key < key
    <3>1. CASE n = 0
      BY <3>1
    <3>2. CASE n # 0
      <4>1. self[n].key <= key /\ self[n].key # key /\ self[n].key \in Int
        BY <1>1, <1>3, <1>5, <3>2 DEF CanInsert
      <4>2. key \in Int
        BY DEF KeyRange
      <4>3. QED
        BY <1>1, <4>1, <4>2
    <3>3. QED
      BY <3>1, <3>2
  <2> HIDE DEF t, new
  <2>3. /\ t \in Seq(Checkpoint) /\ Len(t) = n + 1
        /\ \A i \in 1 .. n : t[i] = self[i]
        /\ t[n + 1] = new
    BY <1>1, <1>2, <2>1, AppendProperties
  <2>4. QED
    BY <2>2, <2>3 DEF t, new
<1>6. QED
  BY <1>4, <1>5

(* So the array stays in order.                                             *)
LEMMA InsertedOrdered ==
  ASSUME NEW self, Ordered(self), NEW key \in KeyRange, NEW value \in ValueRange,
         CanInsert(self, key)
  PROVE  Ordered(Inserted(self, key, value))
<1> DEFINE n == Len(self)
           t == Inserted(self, key, value)
<1>1. /\ n \in Nat
      /\ \A i \in 1 .. n : self[i].key \in Int /\ i <= self[i].key + 1
      /\ \A i, j \in 1 .. n : i < j => self[i].key < self[j].key
  BY OrderedFacts
<1>2. key \in Nat
  BY DEF KeyRange
<1>3. CASE /\ n > 0 /\ self[n].key = key
           /\ t \in Seq(Checkpoint) /\ Len(t) = n
           /\ \A i \in 1 .. n - 1 : t[i] = self[i]
           /\ t[n] = [key |-> key, value |-> value]
  <2> HIDE DEF t
  <2>1. \A i \in 1 .. n : t[i].key = self[i].key
    BY <1>1, <1>3
  <2>2. QED
    BY <1>1, <1>3, <2>1 DEF Ordered, Increasing, t
<1>4. CASE /\ t \in Seq(Checkpoint) /\ Len(t) = n + 1
           /\ \A i \in 1 .. n : t[i] = self[i] /\ self[i].key < key
           /\ t[n + 1] = [key |-> key, value |-> value]
  <2> HIDE DEF t
  <2>1. /\ \A i \in 1 .. n : t[i].key = self[i].key /\ t[i].key < key
        /\ t[n + 1].key = key
    BY <1>4
  <2>2. n + 1 <= key + 1
    <3>1. CASE n = 0
      BY <1>2, <3>1
    <3>2. CASE n # 0
      <4>1. n \in 1 .. n
        BY <1>1, <3>2
      <4>2. n <= self[n].key + 1 /\ self[n].key < key /\ self[n].key \in Int
        BY <1>1, <1>4, <4>1
      <4>3. QED
        BY <1>1, <1>2, <4>2
    <3>3. QED
      BY <3>1, <3>2
  <2>3. \A i \in 1 .. n + 1 : i = n + 1 \/ i \in 1 .. n
    BY <1>1
  <2>4. \A i \in 1 .. Len(t) : i <= t[i].key + 1
    BY <1>1, <1>4, <2>1, <2>2, <2>3
  <2>5. \A i, j \in 1 .. Len(t) : i < j => t[i].key < t[j].key
    <3> SUFFICES ASSUME NEW i \in 1 .. n + 1, NEW j \in 1 .. n + 1, i < j
                 PROVE  t[i].key < t[j].key
      BY <1>4
    <3>1. i \in 1 .. n
      BY <1>1
    <3>2. QED
      BY <1>1, <2>1, <2>3, <3>1
  <2>6. QED
    BY <1>4, <2>4, <2>5 DEF Ordered, Increasing, t
<1>5. QED
  BY <1>3, <1>4, InsertedCases

-----------------------------------------------------------------------------
(* What is written *)

(* Each checkpoint is what was written at its key.                          *)
LEMMA WritesFacts ==
  ASSUME NEW self, Ordered(self)
  PROVE  /\ DOMAIN WritesOf(self) = KeysOf(self)
         /\ KeysOf(self) \subseteq KeyRange
         /\ \A i \in 1 .. Len(self) : /\ self[i].key \in KeysOf(self)
                                      /\ WritesOf(self)[self[i].key] = self[i].value
         /\ \A k \in KeysOf(self) : \E i \in 1 .. Len(self) : k = self[i].key
<1>1. ASSUME NEW i \in 1 .. Len(self)
      PROVE  WritesOf(self)[self[i].key] = self[i].value
  <2> DEFINE j == CHOOSE j \in 1 .. Len(self) : self[j].key = self[i].key
  <2>1. j \in 1 .. Len(self) /\ self[j].key = self[i].key
    OBVIOUS
  <2> HIDE DEF j
  <2>2. j = i
    <3>1. i \in Int /\ j \in Int /\ self[i].key \in Int
      BY <2>1, OrderedFacts
    <3>2. ~(i < j) /\ ~(j < i)
      BY <2>1, <3>1, OrderedFacts
    <3>3. QED
      BY <3>1, <3>2
  <2>3. self[i].key \in KeysOf(self)
    BY DEF KeysOf
  <2>4. QED
    BY <2>2, <2>3 DEF WritesOf, j
<1>2. KeysOf(self) \subseteq KeyRange
  BY OrderedFacts DEF KeysOf
<1>3. QED
  BY <1>1, <1>2 DEF KeysOf, WritesOf

\* The entries of w1 are those of w, with value written at key, the last one.
Rewrites(w, w1, key, value) ==
  /\ \A j \in DOMAIN w : j <= key
  /\ DOMAIN w1 = DOMAIN w \cup {key}
  /\ w1[key] = value
  /\ \A j \in DOMAIN w : j # key => w1[j] = w[j]

(* Inserting writes at one key.                                             *)
LEMMA InsertedWrites ==
  ASSUME NEW self, Ordered(self), NEW key \in KeyRange, NEW value \in ValueRange,
         CanInsert(self, key)
  PROVE  Rewrites(WritesOf(self), WritesOf(Inserted(self, key, value)), key, value)
<1> DEFINE n == Len(self)
           t == Inserted(self, key, value)
           w == WritesOf(self)
           w1 == WritesOf(t)
<1>1. /\ n \in Nat
      /\ \A i \in 1 .. n : self[i].key \in Int
      /\ \A i, j \in 1 .. n : i < j => self[i].key < self[j].key
  BY OrderedFacts
<1>2. Ordered(t)
  BY InsertedOrdered
<1>3. key \in Int
  BY DEF KeyRange
<1>4. /\ DOMAIN w = KeysOf(self)
      /\ \A i \in 1 .. n : self[i].key \in KeysOf(self) /\ w[self[i].key] = self[i].value
      /\ \A k \in KeysOf(self) : \E i \in 1 .. n : k = self[i].key
  BY WritesFacts
<1> HIDE DEF t
<1>5. /\ DOMAIN w1 = KeysOf(t)
      /\ \A i \in 1 .. Len(t) : t[i].key \in KeysOf(t) /\ w1[t[i].key] = t[i].value
      /\ \A k \in KeysOf(t) : \E i \in 1 .. Len(t) : k = t[i].key
  BY <1>2, WritesFacts
<1> HIDE DEF w, w1
<1>6. CASE /\ n > 0 /\ self[n].key = key
           /\ Len(t) = n
           /\ \A i \in 1 .. n - 1 : t[i] = self[i]
           /\ t[n] = [key |-> key, value |-> value]
  <2>1. \A i \in 1 .. n : /\ t[i].key = self[i].key /\ self[i].key <= key
                          /\ i # n => t[i].value = self[i].value /\ self[i].key # key
                          /\ i = n => t[i].value = value
    <3> SUFFICES ASSUME NEW i \in 1 .. n
                 PROVE  /\ t[i].key = self[i].key /\ self[i].key <= key
                        /\ i # n => t[i].value = self[i].value /\ self[i].key # key
                        /\ i = n => t[i].value = value
      OBVIOUS
    <3>1. CASE i = n
      BY <1>1, <1>3, <1>6, <3>1
    <3>2. CASE i # n
      <4>1. i \in 1 .. n - 1 /\ n \in 1 .. n /\ i < n
        BY <1>1, <3>2
      <4>2. self[i].key < self[n].key
        BY <1>1, <4>1
      <4>3. QED
        BY <1>1, <1>3, <1>6, <3>2, <4>1, <4>2
    <3>3. QED
      BY <3>1, <3>2
  <2>2. n \in 1 .. n
    BY <1>1, <1>6
  <2>3. KeysOf(t) = KeysOf(self) /\ key \in KeysOf(self)
    <3>1. \A k \in KeysOf(t) : k \in KeysOf(self)
      BY <1>4, <1>5, <1>6, <2>1
    <3>2. \A k \in KeysOf(self) : k \in KeysOf(t)
      BY <1>4, <1>5, <1>6, <2>1
    <3>3. QED
      BY <1>4, <1>6, <2>2, <3>1, <3>2
  <2>4. \A j \in KeysOf(self) : /\ j <= key
                              /\ w1[j] = IF j = key THEN value ELSE w[j]
    <3> SUFFICES ASSUME NEW j \in KeysOf(self)
                 PROVE  j <= key /\ w1[j] = IF j = key THEN value ELSE w[j]
      OBVIOUS
    <3>1. PICK i \in 1 .. n : j = self[i].key
      BY <1>4
    <3>2. w1[j] = t[i].value /\ w[j] = self[i].value
      BY <1>4, <1>5, <1>6, <2>1, <3>1
    <3>3. CASE i = n
      BY <1>6, <2>1, <3>1, <3>2, <3>3
    <3>4. CASE i # n
      BY <2>1, <3>1, <3>2, <3>4
    <3>5. QED
      BY <3>3, <3>4
  <2>5. Rewrites(w, w1, key, value)
    BY <1>1, <1>4, <1>5, <2>3, <2>4 DEF Rewrites
  <2>6. QED
    BY <2>5 DEF t, w, w1
<1>7. CASE /\ Len(t) = n + 1
           /\ \A i \in 1 .. n : t[i] = self[i] /\ self[i].key < key
           /\ t[n + 1] = [key |-> key, value |-> value]
  <2>1. n + 1 \in 1 .. n + 1 /\ \A i \in 1 .. n + 1 : i = n + 1 \/ i \in 1 .. n
    BY <1>1
  <2>2. \A i \in 1 .. n : i \in 1 .. n + 1
    BY <1>1
  <2>3. key \in KeysOf(t) /\ w1[key] = value
    BY <1>5, <1>7, <2>1
  <2>4. \A j \in KeysOf(self) : j <= key /\ j # key /\ j \in KeysOf(t) /\ w1[j] = w[j]
    <3> SUFFICES ASSUME NEW j \in KeysOf(self)
                 PROVE  j <= key /\ j # key /\ j \in KeysOf(t) /\ w1[j] = w[j]
      OBVIOUS
    <3>1. PICK i \in 1 .. n : j = self[i].key
      BY <1>4
    <3>2. t[i] = self[i] /\ j < key /\ j \in Int
      BY <1>1, <1>7, <3>1
    <3>3. QED
      BY <1>3, <1>4, <1>5, <1>7, <2>2, <3>1, <3>2
  <2>5. \A j \in KeysOf(t) : j = key \/ j \in KeysOf(self)
    <3> SUFFICES ASSUME NEW j \in KeysOf(t) PROVE j = key \/ j \in KeysOf(self)
      OBVIOUS
    <3>1. PICK i \in 1 .. n + 1 : j = t[i].key
      BY <1>5, <1>7
    <3>2. QED
      BY <1>4, <1>7, <2>1, <3>1
  <2>6. Rewrites(w, w1, key, value)
    BY <1>3, <1>4, <1>5, <2>3, <2>4, <2>5 DEF Rewrites
  <2>7. QED
    BY <2>6 DEF t, w, w1
<1>8. QED
  BY <1>6, <1>7, InsertedCases DEF t

-----------------------------------------------------------------------------
(* Searches *)

\* A search within an array.
SearchOK(self, q) == q \in Searches /\ Narrowed(self, q)

(* A round of the search of upper narrows it on the right side.             *)
LEMMA UpperStepOK ==
  ASSUME NEW self, Ordered(self), NEW q, SearchOK(self, q),
         q.op # "lowerLookup", Searching(q)
  PROVE  SearchOK(self, UpperStep(self, q))
<1> DEFINE n == Len(self)
           mid == Average(q.low, q.high)
<1>1. /\ n \in Nat
      /\ \A i \in 1 .. n : self[i].key \in Int
      /\ \A i, j \in 1 .. n : i < j => self[i].key < self[j].key
  BY OrderedFacts
<1>2. /\ q.low \in Nat /\ q.high \in Nat /\ q.low < q.high /\ q.high <= n
      /\ q.key \in Int
      /\ \A i \in 1 .. q.low : self[i].key <= q.key
      /\ \A i \in q.high + 1 .. n : self[i].key > q.key
  BY DEF SearchOK, Searches, Narrowed, Searching, KeyRange
<1>3. mid \in Nat /\ q.low <= mid /\ mid < q.high
  BY <1>2 DEF Average
<1> HIDE DEF mid
<1>4. UnsafeAccess(self, mid) = self[mid + 1] /\ mid + 1 \in 1 .. n
  <2>1. mid \in Nat /\ mid < n
    BY <1>1, <1>2, <1>3
  <2>2. QED
    BY <2>1, Access
<1>5. CASE self[mid + 1].key > q.key
  <2> DEFINE r == [q EXCEPT !.high = mid]
  <2>1. UpperStep(self, q) = r
    BY <1>4, <1>5 DEF UpperStep, mid
  <2>2. r \in Searches /\ r.low = q.low /\ r.high = mid /\ r.key = q.key /\ r.op = q.op
    BY <1>3 DEF SearchOK, Searches
  <2>3. \A i \in mid + 1 .. n : self[i].key > q.key
    <3> SUFFICES ASSUME NEW i \in mid + 1 .. n PROVE self[i].key > q.key
      OBVIOUS
    <3>1. i \in 1 .. n /\ (i = mid + 1 \/ mid + 1 < i)
      BY <1>1, <1>3
    <3>2. CASE i = mid + 1
      BY <1>5, <3>2
    <3>3. CASE mid + 1 < i
      <4>1. self[mid + 1].key < self[i].key
        BY <1>1, <1>4, <3>1, <3>3
      <4>2. QED
        BY <1>1, <1>2, <1>4, <1>5, <3>1, <4>1
    <3>4. QED
      BY <3>1, <3>2, <3>3
  <2> HIDE DEF r
  <2>4. QED
    BY <1>1, <1>2, <1>3, <2>1, <2>2, <2>3 DEF SearchOK, Narrowed
<1>6. CASE ~(self[mid + 1].key > q.key)
  <2> DEFINE r == [q EXCEPT !.low = mid + 1]
  <2>1. UpperStep(self, q) = r
    BY <1>4, <1>6 DEF UpperStep, mid
  <2>2. r \in Searches /\ r.low = mid + 1 /\ r.high = q.high /\ r.key = q.key /\ r.op = q.op
    BY <1>3 DEF SearchOK, Searches
  <2>3. \A i \in 1 .. mid + 1 : self[i].key <= q.key
    <3> SUFFICES ASSUME NEW i \in 1 .. mid + 1 PROVE self[i].key <= q.key
      OBVIOUS
    <3>1. i \in 1 .. n /\ (i = mid + 1 \/ i < mid + 1)
      BY <1>1, <1>3, <1>4
    <3>2. self[mid + 1].key <= q.key
      BY <1>1, <1>2, <1>4, <1>6
    <3>3. CASE i < mid + 1
      <4>1. self[i].key < self[mid + 1].key
        BY <1>1, <1>4, <3>1, <3>3
      <4>2. QED
        BY <1>1, <1>2, <1>4, <3>1, <3>2, <4>1
    <3>4. QED
      BY <3>1, <3>2, <3>3
  <2> HIDE DEF r
  <2>4. QED
    BY <1>1, <1>2, <1>3, <2>1, <2>2, <2>3 DEF SearchOK, Narrowed
<1>7. QED
  BY <1>5, <1>6

(* So does a round of the search of lower.                                  *)
LEMMA LowerStepOK ==
  ASSUME NEW self, Ordered(self), NEW q, SearchOK(self, q),
         q.op = "lowerLookup", Searching(q)
  PROVE  SearchOK(self, LowerStep(self, q))
<1> DEFINE n == Len(self)
           mid == Average(q.low, q.high)
<1>1. /\ n \in Nat
      /\ \A i \in 1 .. n : self[i].key \in Int
      /\ \A i, j \in 1 .. n : i < j => self[i].key < self[j].key
  BY OrderedFacts
<1>2. /\ q.low \in Nat /\ q.high \in Nat /\ q.low < q.high /\ q.high <= n
      /\ q.key \in Int
      /\ \A i \in 1 .. q.low : self[i].key < q.key
      /\ \A i \in q.high + 1 .. n : self[i].key >= q.key
  BY DEF SearchOK, Searches, Narrowed, Searching, KeyRange
<1>3. mid \in Nat /\ q.low <= mid /\ mid < q.high
  BY <1>2 DEF Average
<1> HIDE DEF mid
<1>4. UnsafeAccess(self, mid) = self[mid + 1] /\ mid + 1 \in 1 .. n
  <2>1. mid \in Nat /\ mid < n
    BY <1>1, <1>2, <1>3
  <2>2. QED
    BY <2>1, Access
<1>5. CASE ~(self[mid + 1].key < q.key)
  <2> DEFINE r == [q EXCEPT !.high = mid]
  <2>1. LowerStep(self, q) = r
    BY <1>4, <1>5 DEF LowerStep, mid
  <2>2. r \in Searches /\ r.low = q.low /\ r.high = mid /\ r.key = q.key /\ r.op = q.op
    BY <1>3 DEF SearchOK, Searches
  <2>3. \A i \in mid + 1 .. n : self[i].key >= q.key
    <3> SUFFICES ASSUME NEW i \in mid + 1 .. n PROVE self[i].key >= q.key
      OBVIOUS
    <3>1. i \in 1 .. n /\ (i = mid + 1 \/ mid + 1 < i)
      BY <1>1, <1>3
    <3>2. self[mid + 1].key >= q.key
      BY <1>1, <1>2, <1>4, <1>5
    <3>3. CASE mid + 1 < i
      <4>1. self[mid + 1].key < self[i].key
        BY <1>1, <1>4, <3>1, <3>3
      <4>2. QED
        BY <1>1, <1>2, <1>4, <3>1, <3>2, <4>1
    <3>4. QED
      BY <3>1, <3>2, <3>3
  <2> HIDE DEF r
  <2>4. QED
    BY <1>1, <1>2, <1>3, <2>1, <2>2, <2>3 DEF SearchOK, Narrowed
<1>6. CASE self[mid + 1].key < q.key
  <2> DEFINE r == [q EXCEPT !.low = mid + 1]
  <2>1. LowerStep(self, q) = r
    BY <1>4, <1>6 DEF LowerStep, mid
  <2>2. r \in Searches /\ r.low = mid + 1 /\ r.high = q.high /\ r.key = q.key /\ r.op = q.op
    BY <1>3 DEF SearchOK, Searches
  <2>3. \A i \in 1 .. mid + 1 : self[i].key < q.key
    <3> SUFFICES ASSUME NEW i \in 1 .. mid + 1 PROVE self[i].key < q.key
      OBVIOUS
    <3>1. i \in 1 .. n /\ (i = mid + 1 \/ i < mid + 1)
      BY <1>1, <1>3, <1>4
    <3>2. CASE i < mid + 1
      <4>1. self[i].key < self[mid + 1].key
        BY <1>1, <1>4, <3>1, <3>2
      <4>2. QED
        BY <1>1, <1>2, <1>4, <1>6, <3>1, <4>1
    <3>3. QED
      BY <1>6, <3>1, <3>2
  <2> HIDE DEF r
  <2>4. QED
    BY <1>1, <1>2, <1>3, <2>1, <2>2, <2>3 DEF SearchOK, Narrowed
<1>7. QED
  BY <1>5, <1>6

(* A search may start from the whole array.                                 *)
LEMMA WholeOK ==
  ASSUME NEW self, Ordered(self), NEW op \in Past!Ops, NEW key \in KeyRange
  PROVE  SearchOK(self, Whole(self, op, key))
<1> DEFINE q == Whole(self, op, key)
<1>1. /\ q \in Searches
      /\ q.low = 0 /\ q.high = Len(self) /\ Len(self) \in Nat
  BY OrderedFacts DEF Whole, Searches
<1> HIDE DEF q
<1>2. QED
  BY <1>1 DEF SearchOK, Narrowed, q

(* Or, for a value that is probably recent, from either side of any of its  *)
(* checkpoints.                                                             *)
LEMMA RecentOK ==
  ASSUME NEW self, Ordered(self), NEW op \in Past!Ops, NEW key \in KeyRange,
         op # "lowerLookup"
  PROVE  SearchOK(self, Recent(self, op, key))
<1> DEFINE n == Len(self)
           mid == n - sqrt[n]
<1>1. /\ n \in Nat /\ n <= MaxKey + 1
      /\ \A i \in 1 .. n : self[i].key \in Int
      /\ \A i, j \in 1 .. n : i < j => self[i].key < self[j].key
      /\ key \in Int
  BY OrderedFacts DEF KeyRange
<1>2. CASE n <= 5
  BY <1>2, WholeOK DEF Recent
<1>3. CASE ~(n <= 5)
  <2>1. n \in 1 .. MaxKey + 1
    BY <1>1, <1>3
  <2>2. sqrt[n] \in 1 .. n
    BY <2>1, CheckpointsAssumption
  <2>3. mid \in Nat /\ mid < n /\ mid + 1 \in 1 .. n
    BY <1>1, <2>2
  <2>4. UnsafeAccess(self, mid) = self[mid + 1]
    BY <2>3, Access
  <2>5. Recent(self, op, key) =
          IF key < self[mid + 1].key
            THEN [op |-> op, key |-> key, low |-> 0, high |-> mid]
            ELSE [op |-> op, key |-> key, low |-> mid + 1, high |-> n]
    BY <1>3, <2>4 DEF Recent
  <2> HIDE DEF mid
  <2>6. CASE key < self[mid + 1].key
    <3> DEFINE q == [op |-> op, key |-> key, low |-> 0, high |-> mid]
    <3>1. Recent(self, op, key) = q
      BY <2>5, <2>6
    <3>2. /\ q \in Searches
          /\ q.low = 0 /\ q.high = mid /\ q.key = key /\ q.op = op
      BY <2>3 DEF Searches
    <3>3. \A i \in mid + 1 .. n : self[i].key > key
      <4> SUFFICES ASSUME NEW i \in mid + 1 .. n PROVE self[i].key > key
        OBVIOUS
      <4>1. i \in 1 .. n /\ (i = mid + 1 \/ mid + 1 < i)
        BY <1>1, <2>3
      <4>2. CASE mid + 1 < i
        <5>1. self[mid + 1].key < self[i].key
          BY <1>1, <2>3, <4>1, <4>2
        <5>2. QED
          BY <1>1, <2>3, <2>6, <4>1, <5>1
      <4>3. QED
        BY <2>6, <4>1, <4>2
    <3> HIDE DEF q
    <3>4. QED
      BY <1>1, <2>3, <3>1, <3>2, <3>3 DEF SearchOK, Narrowed
  <2>7. CASE ~(key < self[mid + 1].key)
    <3> DEFINE q == [op |-> op, key |-> key, low |-> mid + 1, high |-> n]
    <3>1. Recent(self, op, key) = q
      BY <2>5, <2>7
    <3>2. /\ q \in Searches
          /\ q.low = mid + 1 /\ q.high = n /\ q.key = key /\ q.op = op
      BY <1>1, <2>3 DEF Searches
    <3>3. \A i \in 1 .. mid + 1 : self[i].key <= key
      <4> SUFFICES ASSUME NEW i \in 1 .. mid + 1 PROVE self[i].key <= key
        OBVIOUS
      <4>1. i \in 1 .. n /\ (i = mid + 1 \/ i < mid + 1)
        BY <1>1, <2>3
      <4>2. self[mid + 1].key <= key
        BY <1>1, <2>3, <2>7
      <4>3. CASE i < mid + 1
        <5>1. self[i].key < self[mid + 1].key
          BY <1>1, <2>3, <4>1, <4>3
        <5>2. QED
          BY <1>1, <2>3, <4>1, <4>2, <5>1
      <4>4. QED
        BY <4>1, <4>2, <4>3
    <3> HIDE DEF q
    <3>4. QED
      BY <1>1, <2>3, <3>1, <3>2, <3>3 DEF SearchOK, Narrowed
  <2>8. QED
    BY <2>6, <2>7
<1>4. QED
  BY <1>2, <1>3

-----------------------------------------------------------------------------
(* Answers *)

(* Where the search of upper ends is the last write up to its key.          *)
LEMMA UpperAnswerRight ==
  ASSUME NEW self, Ordered(self), NEW q, SearchOK(self, q),
         q.op # "lowerLookup", ~Searching(q)
  PROVE  UpperAnswer(self, q.high) = Past!ValueUpTo(WritesOf(self), q.key)
<1> DEFINE n == Len(self)
           w == WritesOf(self)
           past == {j \in DOMAIN w : j <= q.key}
<1>1. /\ n \in Nat
      /\ \A i \in 1 .. n : self[i].key \in Int
      /\ \A i, j \in 1 .. n : i < j => self[i].key < self[j].key
  BY OrderedFacts
<1>2. /\ q.high \in Nat /\ q.low = q.high /\ q.high <= n /\ q.key \in Int
      /\ \A i \in 1 .. q.high : self[i].key <= q.key
      /\ \A i \in q.high + 1 .. n : self[i].key > q.key
  <2>1. q.low \in Nat /\ q.high \in Nat /\ q.low <= q.high /\ q.high <= n
    BY <1>1 DEF SearchOK, Searches, Narrowed
  <2>2. q.low = q.high
    BY <2>1 DEF Searching
  <2>3. q.key \in Int
    BY DEF SearchOK, Searches, KeyRange
  <2>4. QED
    BY <2>1, <2>2, <2>3 DEF SearchOK, Narrowed
<1>3. /\ DOMAIN w = KeysOf(self)
      /\ \A i \in 1 .. n : self[i].key \in KeysOf(self) /\ w[self[i].key] = self[i].value
      /\ \A k \in KeysOf(self) : \E i \in 1 .. n : k = self[i].key
  BY WritesFacts
<1>4. \A j \in past : \E i \in 1 .. q.high : j = self[i].key
  <2> SUFFICES ASSUME NEW j \in past PROVE \E i \in 1 .. q.high : j = self[i].key
    OBVIOUS
  <2>1. PICK i \in 1 .. n : j = self[i].key
    BY <1>3
  <2>2. self[i].key <= q.key /\ self[i].key \in Int
    BY <1>1, <2>1
  <2>3. i <= q.high
    <3>1. CASE i \in q.high + 1 .. n
      BY <1>2, <2>2, <3>1
    <3>2. CASE i \notin q.high + 1 .. n
      BY <1>1, <1>2, <3>2
    <3>3. QED
      BY <3>1, <3>2
  <2>4. QED
    BY <1>1, <1>2, <2>1, <2>3
<1> HIDE DEF w
<1>5. CASE q.high = 0
  <2>1. past = {}
    BY <1>4, <1>5
  <2> HIDE DEF past
  <2>2. Past!ValueUpTo(w, q.key) = 0
    BY <2>1 DEF Past!ValueUpTo, Past!Upto, past
  <2>3. QED
    BY <1>5, <2>2 DEF UpperAnswer, w
<1>6. CASE q.high # 0
  <2> DEFINE last == self[q.high].key
  <2>1. q.high \in 1 .. n /\ q.high \in 1 .. q.high /\ q.high - 1 \in Nat
    BY <1>1, <1>2, <1>6
  <2>2. last \in past
    BY <1>2, <1>3, <2>1
  <2>3. \A j \in past : j <= last /\ j \in Int
    <3> SUFFICES ASSUME NEW j \in past PROVE j <= last /\ j \in Int
      OBVIOUS
    <3>1. PICK i \in 1 .. q.high : j = self[i].key
      BY <1>4
    <3>2. i \in 1 .. n /\ (i = q.high \/ i < q.high)
      BY <1>1, <1>2, <3>1
    <3>3. QED
      BY <1>1, <2>1, <3>1, <3>2
  <2> DEFINE c == CHOOSE j \in past : \A i \in past : i <= j
  <2>4. c = last
    <3> HIDE DEF past, last
    <3>1. c \in past /\ \A i \in past : i <= c
      BY <2>2, <2>3
    <3>2. c <= last /\ last <= c /\ c \in Int /\ last \in Int
      BY <2>2, <2>3, <3>1
    <3> HIDE DEF c
    <3>3. QED
      BY <3>2
  <2>5. Past!ValueUpTo(w, q.key) = w[last]
    <3> DEFINE f == Past!Upto(w, q.key)
    <3>1. DOMAIN f = past /\ \A j \in past : f[j] = w[j]
      BY DEF Past!Upto
    <3> HIDE DEF past, last, f
    <3>2. Past!ValueUpTo(w, q.key) = f[c]
      BY <2>2, <3>1 DEF Past!ValueUpTo, f
    <3> HIDE DEF c
    <3>3. QED
      BY <2>2, <2>4, <3>1, <3>2
  <2>6. UnsafeAccess(self, q.high - 1) = self[q.high]
    BY <1>1, <2>1, Access
  <2>7. QED
    BY <1>3, <1>6, <2>1, <2>5, <2>6 DEF UpperAnswer, w
<1>7. QED
  BY <1>5, <1>6

(* Where the search of lower ends is the first write from its key on.       *)
LEMMA LowerAnswerRight ==
  ASSUME NEW self, Ordered(self), NEW q, SearchOK(self, q),
         q.op = "lowerLookup", ~Searching(q)
  PROVE  LowerAnswer(self, q.high) = Past!ValueFrom(WritesOf(self), q.key)
<1> DEFINE n == Len(self)
           w == WritesOf(self)
           future == {j \in DOMAIN w : j >= q.key}
<1>1. /\ n \in Nat
      /\ \A i \in 1 .. n : self[i].key \in Int
      /\ \A i, j \in 1 .. n : i < j => self[i].key < self[j].key
  BY OrderedFacts
<1>2. /\ q.high \in Nat /\ q.low = q.high /\ q.high <= n /\ q.key \in Int
      /\ \A i \in 1 .. q.high : self[i].key < q.key
      /\ \A i \in q.high + 1 .. n : self[i].key >= q.key
  <2>1. q.low \in Nat /\ q.high \in Nat /\ q.low <= q.high /\ q.high <= n
    BY <1>1 DEF SearchOK, Searches, Narrowed
  <2>2. q.low = q.high
    BY <2>1 DEF Searching
  <2>3. q.key \in Int
    BY DEF SearchOK, Searches, KeyRange
  <2>4. QED
    BY <2>1, <2>2, <2>3 DEF SearchOK, Narrowed
<1>3. /\ DOMAIN w = KeysOf(self)
      /\ \A i \in 1 .. n : self[i].key \in KeysOf(self) /\ w[self[i].key] = self[i].value
      /\ \A k \in KeysOf(self) : \E i \in 1 .. n : k = self[i].key
  BY WritesFacts
<1>4. \A j \in future : \E i \in q.high + 1 .. n : j = self[i].key
  <2> SUFFICES ASSUME NEW j \in future PROVE \E i \in q.high + 1 .. n : j = self[i].key
    OBVIOUS
  <2>1. PICK i \in 1 .. n : j = self[i].key
    BY <1>3
  <2>2. self[i].key >= q.key /\ self[i].key \in Int
    BY <1>1, <2>1
  <2>3. i > q.high
    <3>1. CASE i \in 1 .. q.high
      BY <1>2, <2>2, <3>1
    <3>2. CASE i \notin 1 .. q.high
      BY <1>1, <1>2, <3>2
    <3>3. QED
      BY <3>1, <3>2
  <2>4. QED
    BY <1>1, <1>2, <2>1, <2>3
<1> HIDE DEF w
<1>5. CASE q.high = n
  <2>1. future = {}
    BY <1>1, <1>4, <1>5
  <2> HIDE DEF future
  <2>2. Past!ValueFrom(w, q.key) = 0
    BY <2>1 DEF Past!ValueFrom, Past!From, future
  <2>3. QED
    BY <1>5, <2>2 DEF LowerAnswer, w
<1>6. CASE q.high # n
  <2> DEFINE first == self[q.high + 1].key
  <2>1. q.high + 1 \in 1 .. n /\ q.high + 1 \in q.high + 1 .. n /\ q.high < n
    BY <1>1, <1>2, <1>6
  <2>2. first \in future
    BY <1>2, <1>3, <2>1
  <2>3. \A j \in future : first <= j /\ j \in Int
    <3> SUFFICES ASSUME NEW j \in future PROVE first <= j /\ j \in Int
      OBVIOUS
    <3>1. PICK i \in q.high + 1 .. n : j = self[i].key
      BY <1>4
    <3>2. i \in 1 .. n /\ (i = q.high + 1 \/ q.high + 1 < i)
      BY <1>1, <1>2, <3>1
    <3>3. QED
      BY <1>1, <2>1, <3>1, <3>2
  <2> DEFINE c == CHOOSE j \in future : \A i \in future : j <= i
  <2>4. c = first
    <3> HIDE DEF future, first
    <3>1. c \in future /\ \A i \in future : c <= i
      BY <2>2, <2>3
    <3>2. c <= first /\ first <= c /\ c \in Int /\ first \in Int
      BY <2>2, <2>3, <3>1
    <3> HIDE DEF c
    <3>3. QED
      BY <3>2
  <2>5. Past!ValueFrom(w, q.key) = w[first]
    <3> DEFINE f == Past!From(w, q.key)
    <3>1. DOMAIN f = future /\ \A j \in future : f[j] = w[j]
      BY DEF Past!From
    <3> HIDE DEF future, first, f
    <3>2. Past!ValueFrom(w, q.key) = f[c]
      BY <2>2, <3>1 DEF Past!ValueFrom, f
    <3> HIDE DEF c
    <3>3. QED
      BY <2>2, <2>4, <3>1, <3>2
  <2>6. UnsafeAccess(self, q.high) = self[q.high + 1]
    BY <1>1, <1>2, <2>1, Access
  <2>7. QED
    BY <1>3, <1>6, <2>1, <2>5, <2>6 DEF LowerAnswer, w
<1>7. QED
  BY <1>5, <1>6

-----------------------------------------------------------------------------
(* The invariant *)

(* Nothing is pushed at the start.                                          *)
LEMMA InitIInv == CheckpointsInit => CheckpointsIInv
<1> SUFFICES ASSUME CheckpointsInit PROVE CheckpointsIInv
  OBVIOUS
<1>1. /\ _totalCheckpoints \in Seq(Checkpoint) /\ Len(_totalCheckpoints) = 0
      /\ search = None /\ number \in Numbers /\ kind \in {"History", "Trace"}
  BY CheckpointsAssumption DEF CheckpointsInit, Numbers
<1>2. QED
  BY <1>1 DEF CheckpointsIInv, Increasing, KeysOf

(* A push keeps the checkpoints in order, and writes no block to come.      *)
LEMMA InsertIInv ==
  ASSUME CheckpointsIInv, NEW key \in KeyRange, NEW value \in ValueRange,
         Insert(key, value), kind = "History" => key = number
  PROVE  CheckpointsIInv'
<1> DEFINE self == _totalCheckpoints
           t == Inserted(self, key, value)
<1>1. Ordered(self) /\ CanInsert(self, key)
  BY DEF CheckpointsIInv, Ordered, Insert
<1>2. _totalCheckpoints' = t /\ kind' = kind /\ number' = number /\ search' = None
  BY DEF Insert
<1>3. Ordered(t)
  BY <1>1, InsertedOrdered
<1>4. KeysOf(t) = KeysOf(self) \cup {key}
  <2>1. DOMAIN WritesOf(t) = DOMAIN WritesOf(self) \cup {key}
    BY <1>1, InsertedWrites DEF Rewrites
  <2>2. DOMAIN WritesOf(t) = KeysOf(t) /\ DOMAIN WritesOf(self) = KeysOf(self)
    BY <1>1, <1>3, WritesFacts
  <2> HIDE DEF t
  <2>3. QED
    BY <2>1, <2>2
<1> HIDE DEF t
<1>5. kind = "History" => \A k \in KeysOf(t) : k <= number
  BY <1>4 DEF CheckpointsIInv, Numbers
<1>6. QED
  BY <1>2, <1>3, <1>5 DEF CheckpointsIInv, Ordered

(* A lookup starts with a search within the array.                          *)
LEMMA StartIInv ==
  ASSUME CheckpointsIInv, NEW q, Start(q), SearchOK(_totalCheckpoints, q)
  PROVE  CheckpointsIInv'
BY DEF CheckpointsIInv, Start, SearchOK

(* What the latest checkpoint holds is a number that fits.                  *)
LEMMA LatestFits == ASSUME CheckpointsIInv PROVE Latest(_totalCheckpoints) \in Nat
<1> DEFINE self == _totalCheckpoints
<1>1. Ordered(self)
  BY DEF CheckpointsIInv, Ordered
<1>2. CASE self = <<>>
  BY <1>2 DEF Latest
<1>3. CASE self # <<>>
  <2>1. Len(self) - 1 \in Nat /\ Len(self) - 1 < Len(self) /\ Len(self) \in 1 .. Len(self)
    BY <1>1, <1>3, OrderedFacts
  <2>2. UnsafeAccess(self, Len(self) - 1) = self[Len(self)]
    BY <2>1 DEF UnsafeAccess
  <2>3. self[Len(self)].value \in Nat
    BY <1>1, <2>1, OrderedFacts DEF ValueRange
  <2>4. QED
    BY <1>3, <2>2, <2>3 DEF Latest
<1>4. QED
  BY <1>2, <1>3

(* Every action keeps the invariant.                                        *)
LEMMA NextIInv ==
  CheckpointsIInv /\ [CheckpointsNext]_checkpointsVars => CheckpointsIInv'
<1> SUFFICES ASSUME CheckpointsIInv, [CheckpointsNext]_checkpointsVars
             PROVE  CheckpointsIInv'
  OBVIOUS
<1> DEFINE self == _totalCheckpoints
<1>1. Ordered(self)
  BY DEF CheckpointsIInv, Ordered
<1>2. CASE UNCHANGED checkpointsVars
  BY <1>2 DEF checkpointsVars, CheckpointsIInv
<1>3. CASE NextBlock
  <2>1. /\ number' = number + 1 /\ number' \in Numbers /\ search' = None
        /\ _totalCheckpoints' = self /\ kind' = kind
    BY <1>3, CheckpointsAssumption DEF NextBlock, CheckpointsIInv, Numbers
  <2>2. \A k \in KeysOf(self) : k \in Int
    BY <1>1, WritesFacts DEF KeyRange
  <2>3. kind = "History" => \A k \in KeysOf(self) : k <= number + 1
    BY <2>2 DEF CheckpointsIInv, Numbers
  <2>4. QED
    BY <2>1, <2>3 DEF CheckpointsIInv
<1>4. ASSUME NEW value \in ValueRange, PushNow(value) PROVE CheckpointsIInv'
  <2>1. number \in KeyRange /\ Insert(number, value)
    BY <1>4 DEF PushNow, CheckpointsIInv, Numbers, KeyRange
  <2>2. QED
    BY <2>1, InsertIInv
<1>5. ASSUME NEW value \in ValueRange, PushSum(value) PROVE CheckpointsIInv'
  <2> DEFINE sum == Latest(self) + value
  <2>1. Latest(self) \in Nat
    BY LatestFits
  <2>2. /\ number \in KeyRange /\ sum \in ValueRange /\ Insert(number, sum)
    BY <1>5, <2>1, CheckpointsAssumption
    DEF PushSum, CheckpointsIInv, Numbers, KeyRange, ValueRange
  <2>3. QED
    BY <2>2, InsertIInv
<1>6. ASSUME NEW key \in KeyRange, NEW value \in ValueRange, PushAt(key, value)
      PROVE  CheckpointsIInv'
  BY <1>6, InsertIInv DEF PushAt
<1>7. ASSUME NEW key \in KeyRange,
             \/ UpperLookup(key) \/ LowerLookup(key)
             \/ GetAtBlock(key) \/ GetAtProbablyRecentBlock(key)
      PROVE  CheckpointsIInv'
  <2>1. \A op \in Past!Ops : SearchOK(self, Whole(self, op, key))
    BY <1>1, WholeOK
  <2>2. SearchOK(self, Recent(self, "getAtProbablyRecentBlock", key))
    BY <1>1, RecentOK DEF Past!Ops
  <2>3. QED
    BY <1>7, <2>1, <2>2, StartIInv
    DEF UpperLookup, LowerLookup, GetAtBlock, GetAtProbablyRecentBlock, Past!Ops
<1>8. CASE Round
  <2>1. SearchOK(self, search) /\ Searching(search)
    BY <1>8 DEF Round, CheckpointsIInv, SearchOK
  <2>2. SearchOK(self, search')
    <3>1. CASE search.op = "lowerLookup"
      BY <1>1, <1>8, <2>1, <3>1, LowerStepOK DEF Round
    <3>2. CASE search.op # "lowerLookup"
      BY <1>1, <1>8, <2>1, <3>2, UpperStepOK DEF Round
    <3>3. QED
      BY <3>1, <3>2
  <2>3. _totalCheckpoints' = self /\ kind' = kind /\ number' = number
    BY <1>8 DEF Round
  <2>4. QED
    BY <2>2, <2>3 DEF CheckpointsIInv, SearchOK
<1>9. CASE Return
  BY <1>9 DEF Return, CheckpointsIInv
<1>10. QED
  BY <1>2, <1>3, <1>4, <1>5, <1>6, <1>7, <1>8, <1>9 DEF CheckpointsNext

(* Checkpoints stay in order, and no search passes what it looks for.       *)
THEOREM CheckpointsInvariant == CheckpointsSpec => []CheckpointsIInv
BY InitIInv, NextIInv, PTL DEF CheckpointsSpec

-----------------------------------------------------------------------------
(* The refinement *)

(* A push, seen from what is written.                                       *)
LEMMA InsertRefines ==
  ASSUME CheckpointsIInv, NEW key \in KeyRange, NEW value \in ValueRange, Insert(key, value)
  PROVE  Past!Write(key, value)
<1> DEFINE self == _totalCheckpoints
           t == Inserted(self, key, value)
           w == WritesOf(self)
           w1 == WritesOf(t)
<1>1. Ordered(self) /\ CanInsert(self, key)
  BY DEF CheckpointsIInv, Ordered, Insert
<1>2. /\ \A j \in DOMAIN w : j <= key
      /\ DOMAIN w1 = DOMAIN w \cup {key}
      /\ w1[key] = value
      /\ \A j \in DOMAIN w : j # key => w1[j] = w[j]
  <2>1. Rewrites(w, w1, key, value)
    BY <1>1, InsertedWrites
  <2> HIDE DEF w, w1
  <2>2. QED
    BY <2>1 DEF Rewrites
<1>3. w1 = [j \in DOMAIN w1 |-> w1[j]]
  BY DEF WritesOf
<1>4. Writes = w /\ Writes' = w1 /\ answer' = None
  BY DEF Writes, Insert
<1> HIDE DEF w, w1
<1>5. w1 = [j \in DOMAIN w \cup {key} |-> IF j = key THEN value ELSE w[j]]
  BY <1>2, <1>3
<1>6. QED
  BY <1>2, <1>4, <1>5 DEF Past!Write

(* What a lookup returns is what Timeline answers.                          *)
LEMMA ReturnRefines == ASSUME CheckpointsIInv, Return PROVE Past!Next
<1> DEFINE self == _totalCheckpoints
<1>1. /\ Ordered(self) /\ SearchOK(self, search) /\ ~Searching(search)
      /\ Writes = WritesOf(self) /\ Writes' = Writes
  BY DEF CheckpointsIInv, Ordered, SearchOK, Return, Writes
<1>2. search.op \in Past!Ops /\ search.key \in KeyRange
  BY <1>1 DEF SearchOK, Searches
<1>3. CASE search.op = "lowerLookup"
  <2>1. LowerAnswer(self, search.high) = Past!ValueFrom(Writes, search.key)
    BY <1>1, <1>3, LowerAnswerRight
  <2>2. Past!Ask(search.op, search.key)
    BY <1>1, <1>3, <2>1 DEF Return, Past!Ask
  <2>3. QED
    BY <1>2, <2>2 DEF Past!Next
<1>4. CASE search.op # "lowerLookup"
  <2>1. UpperAnswer(self, search.high) = Past!ValueUpTo(Writes, search.key)
    BY <1>1, <1>4, UpperAnswerRight
  <2>2. Past!Ask(search.op, search.key)
    BY <1>1, <1>4, <2>1 DEF Return, Past!Ask
  <2>3. QED
    BY <1>2, <2>2 DEF Past!Next
<1>5. QED
  BY <1>3, <1>4

(* Which pushes there are: each inserts a value that fits at a key that     *)
(* fits, and a History's at the number of its block.                        *)
LEMMA Pushes ==
  ASSUME CheckpointsIInv, NEW value \in ValueRange,
         \/ PushNow(value) \/ PushSum(value)
         \/ \E key \in KeyRange : PushAt(key, value)
  PROVE  \E key \in KeyRange, v \in ValueRange :
           Insert(key, v) /\ (kind = "History" => key = number)
<1>1. CASE PushNow(value)
  <2>1. number \in KeyRange /\ Insert(number, value)
    BY <1>1 DEF PushNow, CheckpointsIInv, Numbers, KeyRange
  <2>2. QED
    BY <2>1
<1>2. CASE PushSum(value)
  <2> DEFINE sum == Latest(_totalCheckpoints) + value
  <2>1. number \in KeyRange /\ sum \in ValueRange /\ Insert(number, sum)
    BY <1>2, LatestFits, CheckpointsAssumption
    DEF PushSum, CheckpointsIInv, Numbers, KeyRange, ValueRange
  <2> HIDE DEF sum
  <2>2. QED
    BY <2>1
<1>3. CASE \E key \in KeyRange : PushAt(key, value)
  <2>1. PICK key \in KeyRange : kind = "Trace" /\ Insert(key, value)
    BY <1>3 DEF PushAt
  <2>2. kind # "History"
    BY <2>1
  <2>3. QED
    BY <2>1, <2>2
<1>4. QED
  BY <1>1, <1>2, <1>3

(* The steps that push, and those that leave the checkpoints alone.         *)
LEMMA Steps ==
  ASSUME CheckpointsIInv, [CheckpointsNext]_checkpointsVars
  PROVE  \/ \E key \in KeyRange, v \in ValueRange :
              Insert(key, v) /\ (kind = "History" => key = number)
         \/ _totalCheckpoints' = _totalCheckpoints /\ (answer' = None \/ answer' = answer)
         \/ Return
<1>1. CASE \/ UNCHANGED checkpointsVars \/ NextBlock \/ Round
           \/ \E key \in KeyRange :
                \/ UpperLookup(key) \/ LowerLookup(key)
                \/ GetAtBlock(key) \/ GetAtProbablyRecentBlock(key)
  BY <1>1 DEF checkpointsVars, NextBlock, Round, UpperLookup, LowerLookup, GetAtBlock,
              GetAtProbablyRecentBlock, Start
<1>2. CASE \E value \in ValueRange :
             \/ PushNow(value) \/ PushSum(value)
             \/ \E key \in KeyRange : PushAt(key, value)
  BY <1>2, Pushes
<1>3. QED
  BY <1>1, <1>2 DEF CheckpointsNext

(* Every step writes, asks, forgets or does nothing.                        *)
LEMMA StepRefines ==
  CheckpointsIInv /\ [CheckpointsNext]_checkpointsVars => [Past!Next]_(Past!vars)
<1> SUFFICES ASSUME CheckpointsIInv, [CheckpointsNext]_checkpointsVars
             PROVE  [Past!Next]_(Past!vars)
  OBVIOUS
<1>1. ASSUME NEW key \in KeyRange, NEW v \in ValueRange, Insert(key, v)
      PROVE  Past!Next
  <2>1. Past!Write(key, v)
    BY <1>1, InsertRefines
  <2>2. QED
    BY <2>1 DEF Past!Next
<1>2. ASSUME _totalCheckpoints' = _totalCheckpoints, answer' = None
      PROVE  Past!Next
  BY <1>2 DEF Past!Next, Past!Forget, Writes
<1>3. ASSUME _totalCheckpoints' = _totalCheckpoints, answer' = answer
      PROVE  UNCHANGED Past!vars
  BY <1>3 DEF Past!vars, Writes
<1>4. QED
  BY <1>1, <1>2, <1>3, ReturnRefines, Steps

(* Nothing is written at the start.                                         *)
LEMMA InitRefines == CheckpointsInit => Past!Init
<1> SUFFICES ASSUME CheckpointsInit PROVE Past!Init
  OBVIOUS
<1>1. Len(_totalCheckpoints) = 0
  BY DEF CheckpointsInit
<1>2. KeysOf(_totalCheckpoints) = {}
  BY <1>1 DEF KeysOf
<1>3. DOMAIN Writes = {} /\ Writes = [k \in DOMAIN Writes |-> Writes[k]]
  BY <1>2 DEF Writes, WritesOf
<1>4. QED
  BY <1>3 DEF CheckpointsInit, Past!Init

(* Whatever is pushed and wherever a search is split, every lookup answers  *)
(* what was written last up to its key, or first from it on.                *)
THEOREM CheckpointsImplementTimeline == CheckpointsSpec => ImplementsTimeline
BY InitRefines, StepRefines, CheckpointsInvariant, PTL
DEF CheckpointsSpec, ImplementsTimeline, Past!Spec

-----------------------------------------------------------------------------
(* The past and the present *)

(* What getAtBlock may be asked for is settled, for every number of blocks. *)
THEOREM SettledPast == CheckpointsSpec => PastIsSettled
<1> DEFINE Settled ==
      kind = "History" =>
        \A b \in KeyRange :
          CanGetAtBlock(b) =>
            Past!ValueUpTo(Writes', b) = Past!ValueUpTo(Writes, b)
<1>1. CheckpointsIInv /\ [CheckpointsNext]_checkpointsVars => Settled
  <2> SUFFICES ASSUME CheckpointsIInv, [CheckpointsNext]_checkpointsVars, kind = "History",
                      NEW b \in KeyRange, CanGetAtBlock(b)
               PROVE  Past!ValueUpTo(Writes', b) = Past!ValueUpTo(Writes, b)
    OBVIOUS
  <2>1. CASE _totalCheckpoints' = _totalCheckpoints
    <3>1. Writes' = Writes
      BY <2>1 DEF Writes
    <3>2. QED
      BY <3>1
  <2>2. ASSUME NEW key \in KeyRange, NEW v \in ValueRange,
               Insert(key, v), key = number
        PROVE  Past!ValueUpTo(Writes', b) = Past!ValueUpTo(Writes, b)
    <3> DEFINE w == WritesOf(_totalCheckpoints)
               w1 == WritesOf(Inserted(_totalCheckpoints, key, v))
    <3>1. Ordered(_totalCheckpoints) /\ CanInsert(_totalCheckpoints, key)
      BY <2>2 DEF CheckpointsIInv, Ordered, Insert
    <3>2. /\ DOMAIN w1 = DOMAIN w \cup {key}
          /\ \A j \in DOMAIN w : j # key => w1[j] = w[j]
      <4>1. Rewrites(w, w1, key, v)
        BY <3>1, InsertedWrites
      <4> HIDE DEF w, w1
      <4>2. QED
        BY <4>1 DEF Rewrites
    <3>3. Writes = w /\ Writes' = w1
      BY <2>2 DEF Writes, Insert
    <3>4. ~(key <= b)
      BY <2>2 DEF CanGetAtBlock, KeyRange
    <3> HIDE DEF w, w1
    <3>5. Past!Upto(w1, b) = Past!Upto(w, b)
      <4>1. {i \in DOMAIN w1 : i <= b} = {i \in DOMAIN w : i <= b}
        BY <3>2, <3>4
      <4>2. \A j \in {i \in DOMAIN w : i <= b} : w1[j] = w[j]
        BY <3>2, <3>4
      <4>3. QED
        BY <4>1, <4>2 DEF Past!Upto
    <3>6. Past!ValueUpTo(w1, b) = Past!ValueUpTo(w, b)
      BY <3>5 DEF Past!ValueUpTo
    <3>7. QED
      BY <3>3, <3>6
  <2>3. Return => _totalCheckpoints' = _totalCheckpoints
    BY DEF Return
  <2>4. QED
    BY <2>1, <2>2, <2>3, Steps
<1>2. QED
  BY <1>1, CheckpointsInvariant, PTL DEF CheckpointsSpec, PastIsSettled

(* latest() and latestCheckpoint() show the end of the timeline.            *)
THEOREM LatestIsTheEnd == CheckpointsSpec => []LatestIsLast
<1>1. CheckpointsIInv => LatestIsLast
  <2> SUFFICES ASSUME CheckpointsIInv PROVE LatestIsLast
    OBVIOUS
  <2> DEFINE self == _totalCheckpoints
             n == Len(self)
  <2>1. /\ Ordered(self) /\ self \in Seq(Checkpoint) /\ n \in Nat
        /\ self = <<>> <=> n = 0
        /\ \A i \in 1 .. n : self[i].key \in KeyRange /\ self[i].key \in Int
        /\ \A i, j \in 1 .. n : i < j => self[i].key < self[j].key
    <3>1. Ordered(self)
      BY DEF CheckpointsIInv, Ordered
    <3>2. QED
      BY <3>1, OrderedFacts
  <2>2. /\ DOMAIN Writes = KeysOf(self)
        /\ \A i \in 1 .. n : /\ self[i].key \in KeysOf(self)
                             /\ Writes[self[i].key] = self[i].value
        /\ \A k \in KeysOf(self) : \E i \in 1 .. n : k = self[i].key
    BY <2>1, WritesFacts DEF Writes
  <2>3. Latest(self) = Past!ValueUpTo(Writes, MaxKey)
    <3> DEFINE q == [op |-> "upperLookup", key |-> MaxKey, low |-> n, high |-> n]
    <3>1. /\ q \in Searches /\ q.op # "lowerLookup"
          /\ q.key = MaxKey /\ q.low = n /\ q.high = n
      BY <2>1, CheckpointsAssumption DEF Searches, Past!Ops, KeyRange
    <3>2. \A i \in 1 .. n : self[i].key <= MaxKey
      BY <2>1, CheckpointsAssumption DEF KeyRange
    <3> HIDE DEF q
    <3>3. SearchOK(self, q) /\ ~Searching(q)
      BY <2>1, <3>1, <3>2 DEF SearchOK, Narrowed, Searching
    <3>4. UpperAnswer(self, n) = Past!ValueUpTo(Writes, MaxKey)
      BY <2>1, <3>1, <3>3, UpperAnswerRight DEF Writes
    <3>5. Latest(self) = UpperAnswer(self, n)
      BY <2>1 DEF Latest, UpperAnswer
    <3>6. QED
      BY <3>4, <3>5
  <2>4. CASE n = 0
    <3>1. DOMAIN Writes = {}
      <4>1. \A i \in 1 .. n : FALSE
        BY <2>4
      <4> HIDE DEF n
      <4>2. QED
        BY <2>2, <4>1
    <3>2. LatestCheckpoint(self) = <<FALSE, 0, 0>>
      BY <2>1, <2>4 DEF LatestCheckpoint
    <3>3. QED
      BY <2>3, <3>1, <3>2 DEF LatestIsLast
  <2>5. CASE n # 0
    <3>1. n \in 1 .. n /\ n - 1 \in Nat /\ n - 1 < n
      BY <2>1, <2>5
    <3>2. UnsafeAccess(self, n - 1) = self[n]
      BY <3>1 DEF UnsafeAccess
    <3>3. LatestCheckpoint(self) = <<TRUE, self[n].key, self[n].value>>
      BY <2>1, <2>5, <3>2 DEF LatestCheckpoint
    <3>4. \A k \in DOMAIN Writes : k <= self[n].key
      <4> SUFFICES ASSUME NEW k \in KeysOf(self) PROVE k <= self[n].key
        BY <2>2
      <4>1. PICK i \in 1 .. n : k = self[i].key
        BY <2>2
      <4>2. i = n \/ i < n
        BY <2>1
      <4>3. QED
        BY <2>1, <3>1, <4>1, <4>2
    <3>5. DOMAIN Writes # {} /\ Writes[self[n].key] = self[n].value
      BY <2>2, <3>1
    <3>6. QED
      BY <2>3, <3>3, <3>4, <3>5 DEF LatestIsLast
  <2>6. QED
    BY <2>4, <2>5
<1>2. QED
  BY <1>1, CheckpointsInvariant, PTL

=============================================================================
