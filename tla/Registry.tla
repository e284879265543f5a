------------------------------ MODULE Registry ------------------------------
(***************************************************************************)
(* What the platform promises organizers, with transactions as single      *)
(* steps: an id is given to one account for good, becomes one event for    *)
(* good, whose terms never change, and no two ids share an event.          *)
(***************************************************************************)
EXTENDS Integers

CONSTANTS Ids, Accounts, Addresses,
          None   \* no account, no event

VARIABLES
  owner,   \* id -> the account it was given to
  place,   \* id -> the address of its event
  terms    \* address -> what was fixed when the event was created

vars == <<owner, place, terms>>

Free == {id \in Ids : owner[id] = None}
Used == {id \in Ids : place[id] # None}

Init ==
  /\ owner = [id \in Ids |-> None]
  /\ place = [id \in Ids |-> None]
  /\ terms = [c \in {} |-> {}]

\* One transaction may do several things: contracts call one another.
Transaction ==
  /\ owner' \in [Ids -> Accounts \cup {None}]
  /\ place' \in [Ids -> Addresses \cup {None}]
  /\ \A id \in Ids \ Free : owner'[id] = owner[id]
  /\ \A id \in Used : place'[id] = place[id]
  /\ Used' \subseteq {id \in Ids \ {0} : owner'[id] # None}
  /\ \A i, j \in Used' : place'[i] = place'[j] => i = j
  /\ DOMAIN terms' = {place'[id] : id \in Used'}
  /\ \A c \in DOMAIN terms : terms'[c] = terms[c]
  /\ \A id \in Used' : /\ terms'[place'[id]].eventNftId = id
                       /\ terms'[place'[id]].eventAdmin = owner'[id]

Spec == Init /\ [][Transaction]_vars

=============================================================================
