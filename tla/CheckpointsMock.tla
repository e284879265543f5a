--------------------------- MODULE CheckpointsMock ---------------------------
(***************************************************************************)
(* The contracts that CheckpointsMock.js generates: a History, whose keys  *)
(* are block numbers, or a Trace, whose keys its user chooses.             *)
(*                                                                         *)
(* A lookup is a loop; each of its rounds is a step here. It is part of    *)
(* one call, so nothing is pushed and no block is mined until it is done.  *)
(***************************************************************************)
EXTENDS Checkpoints

CONSTANT None   \* no search runs, no answer was given

VARIABLES
  kind,               \* which of the contracts this is
  number,             \* block.number
  _totalCheckpoints,
  search,             \* the lookup that runs
  answer              \* what a lookup just returned

checkpointsVars == <<kind, number, _totalCheckpoints, search, answer>>

\* Block numbers go one beyond what a key can hold.
Numbers == 0 .. MaxKey + 1

CheckpointsInit ==
  /\ kind \in {"History", "Trace"}
  /\ number = 0
  /\ _totalCheckpoints = <<>>
  /\ search = None
  /\ answer = None

\* A Trace does not look at it.
NextBlock ==
  /\ kind = "History"
  /\ search = None
  /\ number < MaxKey + 1
  /\ number' = number + 1
  /\ answer' = None
  /\ UNCHANGED <<kind, _totalCheckpoints, search>>

Insert(key, value) ==
  /\ search = None
  /\ CanInsert(_totalCheckpoints, key)
  /\ _totalCheckpoints' = Inserted(_totalCheckpoints, key, value)
  /\ answer' = None
  /\ UNCHANGED <<kind, number, search>>

\* SafeCast.toUint32 and toUint224 revert when a number does not fit.
PushNow(value) ==
  /\ kind = "History"
  /\ number <= MaxKey
  /\ value <= MaxValue
  /\ Insert(number, value)

\* push(op, delta), for the sum: op is any function of the latest value.
PushSum(delta) ==
  /\ kind = "History"
  /\ number <= MaxKey
  /\ Latest(_totalCheckpoints) + delta <= MaxValue
  /\ Insert(number, Latest(_totalCheckpoints) + delta)

PushAt(key, value) == kind = "Trace" /\ Insert(key, value)

Start(q) ==
  /\ search = None
  /\ search' = q
  /\ answer' = None
  /\ UNCHANGED <<kind, number, _totalCheckpoints>>

UpperLookup(key) ==
  kind = "Trace" /\ Start(Whole(_totalCheckpoints, "upperLookup", key))

LowerLookup(key) ==
  kind = "Trace" /\ Start(Whole(_totalCheckpoints, "lowerLookup", key))

CanGetAtBlockNow(blockNumber) == blockNumber <= number /\ blockNumber <= MaxKey

\* The block is over, and its number fits a key.
CanGetAtBlock(blockNumber) == blockNumber < number /\ blockNumber <= MaxKey

GetAtBlock(blockNumber) ==
  /\ kind = "History"
  /\ CanGetAtBlock(blockNumber)
  /\ Start(Whole(_totalCheckpoints, "getAtBlock", blockNumber))

GetAtProbablyRecentBlock(blockNumber) ==
  /\ kind = "History"
  /\ CanGetAtBlock(blockNumber)
  /\ Start(Recent(_totalCheckpoints, "getAtProbablyRecentBlock", blockNumber))

Round ==
  /\ search # None
  /\ Searching(search)
  /\ search' = IF search.op = "lowerLookup"
                 THEN LowerStep(_totalCheckpoints, search)
                 ELSE UpperStep(_totalCheckpoints, search)
  /\ UNCHANGED <<kind, number, _totalCheckpoints, answer>>

Return ==
  /\ search # None
  /\ ~Searching(search)
  /\ answer' = [op |-> search.op, key |-> search.key,
                value |-> IF search.op = "lowerLookup"
                            THEN LowerAnswer(_totalCheckpoints, search.high)
                            ELSE UpperAnswer(_totalCheckpoints, search.high)]
  /\ search' = None
  /\ UNCHANGED <<kind, number, _totalCheckpoints>>

CheckpointsNext ==
  \/ NextBlock
  \/ \E value \in ValueRange : PushNow(value) \/ PushSum(value)
  \/ \E key \in KeyRange :
       \/ \E value \in ValueRange : PushAt(key, value)
       \/ UpperLookup(key)
       \/ LowerLookup(key)
       \/ GetAtBlock(key)
       \/ GetAtProbablyRecentBlock(key)
  \/ Round
  \/ Return

CheckpointsSpec == CheckpointsInit /\ [][CheckpointsNext]_checkpointsVars

-----------------------------------------------------------------------------
(* Properties *)

KeysOf(self) == {self[i].key : i \in 1 .. Len(self)}

\* What is stored for each key.
WritesOf(self) ==
  [k \in KeysOf(self) |->
     self[CHOOSE i \in 1 .. Len(self) : self[i].key = k].value]

Writes == WritesOf(_totalCheckpoints)

Past == INSTANCE Timeline WITH writes <- Writes, NoAnswer <- None

(* Every lookup, however it starts and splits its search, answers what was  *)
(* written last at or before the key (or first at or after it), and every   *)
(* push writes at its key only.                                             *)
ImplementsTimeline == Past!Spec

(* What a History answers for a block that getAtBlock accepts is settled:   *)
(* no later push changes it, also none in the same block as the question.   *)
PastIsSettled ==
  [][kind = "History" =>
       \A b \in KeyRange :
         CanGetAtBlock(b) =>
           Past!ValueUpTo(Writes', b) = Past!ValueUpTo(Writes, b)]_checkpointsVars

(* The latest checkpoint is the end of the timeline: latest() and           *)
(* latestCheckpoint() say what a lookup of the largest key would.           *)
LatestIsLast ==
  /\ Latest(_totalCheckpoints) = Past!ValueUpTo(Writes, MaxKey)
  /\ LET ckpt == LatestCheckpoint(_totalCheckpoints) IN
     IF DOMAIN Writes = {} THEN ckpt = <<FALSE, 0, 0>>
     ELSE /\ \A k \in DOMAIN Writes : k <= ckpt[2]
          /\ ckpt = <<TRUE, ckpt[2], Writes[ckpt[2]]>>

\* The search is between low and high.
Narrowed(self, q) ==
  /\ q.low \in 0 .. q.high
  /\ q.high \in 0 .. Len(self)
  /\ \A i \in 1 .. q.low : IF q.op = "lowerLookup" THEN self[i].key < q.key
                                                   ELSE self[i].key <= q.key
  /\ \A i \in q.high + 1 .. Len(self) :
       IF q.op = "lowerLookup" THEN self[i].key >= q.key
                               ELSE self[i].key > q.key

Searches == [op : Past!Ops, key : KeyRange, low : Nat, high : Nat]

Increasing(self) ==
  /\ \A i, j \in 1 .. Len(self) : i < j => self[i].key < self[j].key
  /\ \A i \in 1 .. Len(self) : i <= self[i].key + 1

(* Checkpoints are in the order of their keys, one for each, none of a      *)
(* block to come, and a running search has not passed what it looks for.    *)
CheckpointsIInv ==
  /\ kind \in {"History", "Trace"}
  /\ number \in Numbers
  /\ _totalCheckpoints \in Seq(Checkpoint)
  /\ Increasing(_totalCheckpoints)
  /\ kind = "History" => \A k \in KeysOf(_totalCheckpoints) : k <= number
  /\ search # None => /\ search \in Searches
                      /\ Narrowed(_totalCheckpoints, search)

(* Every lookup ends.                                                       *)
LookupsEnd == search # None ~> search = None

=============================================================================
