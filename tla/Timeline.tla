------------------------------ MODULE Timeline ------------------------------
(***************************************************************************)
(* What a checkpointed value promises: a value that is written at keys     *)
(* that never decrease, and the answers to questions about it. It keeps    *)
(* for each key what was written there last.                               *)
(***************************************************************************)
EXTENDS Integers

CONSTANTS KeyRange, ValueRange, NoAnswer

VARIABLES
  writes,   \* key -> value, for the keys written at
  answer    \* the question just asked, with its answer

vars == <<writes, answer>>

Upto(w, k) == [j \in {i \in DOMAIN w : i <= k} |-> w[j]]
From(w, k) == [j \in {i \in DOMAIN w : i >= k} |-> w[j]]

\* What was written at the last key up to k, or nothing yet.
ValueUpTo(w, k) ==
  LET past == Upto(w, k) IN
  IF DOMAIN past = {} THEN 0
  ELSE past[CHOOSE j \in DOMAIN past : \A i \in DOMAIN past : i <= j]

\* What was written at the first key from k on, or nothing yet.
ValueFrom(w, k) ==
  LET future == From(w, k) IN
  IF DOMAIN future = {} THEN 0
  ELSE future[CHOOSE j \in DOMAIN future : \A i \in DOMAIN future : j <= i]

Init ==
  /\ writes = [k \in {} |-> 0]
  /\ answer = NoAnswer

Write(k, v) ==
  /\ \A j \in DOMAIN writes : j <= k
  /\ writes' = [j \in DOMAIN writes \cup {k} |-> IF j = k THEN v ELSE writes[j]]
  /\ answer' = NoAnswer

Forget == answer' = NoAnswer /\ UNCHANGED writes

Ask(op, k) ==
  /\ answer' = [op |-> op, key |-> k,
                value |-> IF op = "lowerLookup" THEN ValueFrom(writes, k)
                                                ELSE ValueUpTo(writes, k)]
  /\ UNCHANGED writes

Ops == {"upperLookup", "lowerLookup", "getAtBlock", "getAtProbablyRecentBlock"}

Next ==
  \/ Forget
  \/ \E k \in KeyRange : \/ \E v \in ValueRange : Write(k, v)
                         \/ \E op \in Ops : Ask(op, k)

Spec == Init /\ [][Next]_vars

=============================================================================
