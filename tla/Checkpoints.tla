---------------------------- MODULE Checkpoints ----------------------------
(***************************************************************************)
(* Checkpointed values as OpenZeppelin's generator writes them             *)
(* (scripts/generate/templates/Checkpoints.js), as operators over an array *)
(* self of checkpoints, each a key (a block number, mostly) and a value.   *)
(* Positions count from 0, as in the code.                                 *)
(* Faulty variants of a definition precede it; no specification uses them. *)
(***************************************************************************)
EXTENDS Integers, Sequences

CONSTANTS MaxKey,     \* the largest key: 2^32 - 1 for a block number
          MaxValue,   \* the largest value that fits next to a key
          sqrt        \* Math.sqrt, for every length an array can have

\* The lookups need no more of sqrt than this.
ASSUME CheckpointsAssumption ==
  /\ MaxKey \in Nat /\ MaxValue \in Nat
  /\ \A n \in 1 .. MaxKey + 1 : sqrt[n] \in 1 .. n

KeyRange == 0 .. MaxKey
ValueRange == 0 .. MaxValue

Checkpoint == [key : KeyRange, value : ValueRange]

\* No bounds are checked: storage behind the array reads as zeros.
UnsafeAccess(self, pos) ==
  IF pos < Len(self) THEN self[pos + 1] ELSE [key |-> 0, value |-> 0]

Latest(self) ==
  IF self = <<>> THEN 0 ELSE UnsafeAccess(self, Len(self) - 1).value

LatestCheckpoint(self) ==
  IF self = <<>> THEN <<FALSE, 0, 0>>
  ELSE LET ckpt == UnsafeAccess(self, Len(self) - 1) IN
       <<TRUE, ckpt.key, ckpt.value>>

CanInsertAnywhere(self, key) == key \in KeyRange

CanInsert(self, key) ==
  IF self = <<>> THEN TRUE ELSE UnsafeAccess(self, Len(self) - 1).key <= key

InsertedAlways(self, key, value) ==
  Append(self, [key |-> key, value |-> value])

Inserted(self, key, value) ==
  IF self # <<>> /\ UnsafeAccess(self, Len(self) - 1).key = key
    THEN [self EXCEPT ![Len(self)] = [key |-> key, value |-> value]]
    ELSE Append(self, [key |-> key, value |-> value])

-----------------------------------------------------------------------------
(* The binary searches: a search q looks for q.key between q.low, inclusive, *)
(* and q.high, exclusive                                                     *)

Average(a, b) == (a + b) \div 2

Searching(q) == q.low < q.high

UpperStepStuck(self, q) ==
  LET mid == Average(q.low, q.high) IN
  IF UnsafeAccess(self, mid).key > q.key THEN [q EXCEPT !.high = mid]
                                         ELSE [q EXCEPT !.low = mid]

UpperStep(self, q) ==
  LET mid == Average(q.low, q.high) IN
  IF UnsafeAccess(self, mid).key > q.key THEN [q EXCEPT !.high = mid]
                                         ELSE [q EXCEPT !.low = mid + 1]

LowerStep(self, q) ==
  LET mid == Average(q.low, q.high) IN
  IF UnsafeAccess(self, mid).key < q.key THEN [q EXCEPT !.low = mid + 1]
                                         ELSE [q EXCEPT !.high = mid]

UpperAnswer(self, pos) ==
  IF pos = 0 THEN 0 ELSE UnsafeAccess(self, pos - 1).value

LowerAnswer(self, pos) ==
  IF pos = Len(self) THEN 0 ELSE UnsafeAccess(self, pos).value

\* Where a search starts.
Whole(self, op, key) ==
  [op |-> op, key |-> key, low |-> 0, high |-> Len(self)]

RecentGuessed(self, op, key) ==
  LET len == Len(self)
      mid == len - sqrt[len]
  IN  IF len <= 5 THEN Whole(self, op, key)
      ELSE [op |-> op, key |-> key, low |-> mid + 1, high |-> len]

\* The last sqrt(len) checkpoints, or the others.
Recent(self, op, key) ==
  LET len == Len(self)
      mid == len - sqrt[len]
  IN  IF len <= 5 THEN Whole(self, op, key)
      ELSE IF key < UnsafeAccess(self, mid).key
           THEN [op |-> op, key |-> key, low |-> 0, high |-> mid]
           ELSE [op |-> op, key |-> key, low |-> mid + 1, high |-> len]

=============================================================================
