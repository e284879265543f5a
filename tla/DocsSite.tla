------------------------------ MODULE DocsSite ------------------------------
(***************************************************************************)
(* What a docs branch promises: pages are only added, each made from the   *)
(* sources of a final release, and none from an older minor version than   *)
(* the one before it.                                                      *)
(***************************************************************************)
EXTENDS Integers, Sequences

CONSTANT Versions

VARIABLE pages

Page(version) == [version |-> version, docs |-> TRUE]

Init == pages = <<>>

Publish(version) ==
  /\ ~version.prerelease
  /\ pages # <<>> => pages[Len(pages)].version.minor <= version.minor
  /\ pages' = Append(pages, Page(version))

Next == \E version \in Versions : Publish(version)

Spec == Init /\ [][Next]_pages

=============================================================================
