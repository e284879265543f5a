----------------------------- MODULE Dictionary -----------------------------
(***************************************************************************)
(* What EnumerableMap promises: a function from some keys to values, and   *)
(* of each operation whether it changed which keys those are. A set is a   *)
(* dictionary with one value.                                              *)
(***************************************************************************)
CONSTANTS Keys, Values

VARIABLES
  entries,   \* key -> value
  call,      \* the arguments of the last operation
  result     \* what the last operation returned

vars == <<entries, call, result>>

Init ==
  /\ entries = [k \in {} |-> {}]
  /\ call = <<>>
  /\ result = FALSE

Put(k, v) ==
  /\ entries' = [x \in DOMAIN entries \cup {k} |->
                   IF x = k THEN v ELSE entries[x]]
  /\ call' = <<k, v>>
  /\ result' = (k \notin DOMAIN entries)

Drop(k) ==
  /\ entries' = [x \in DOMAIN entries \ {k} |-> entries[x]]
  /\ call' = <<k>>
  /\ result' = (k \in DOMAIN entries)

Next == \E k \in Keys : Drop(k) \/ \E v \in Values : Put(k, v)

Spec == Init /\ [][Next]_vars

=============================================================================
