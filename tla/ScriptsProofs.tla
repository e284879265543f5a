--------------------------- MODULE ScriptsProofs ----------------------------
(***************************************************************************)
(* Theorems about the scripts: the migration of imports, for every table,  *)
(* tree of files and number of crashes; the search for inheritance conflicts,*)
(* for every size of the builds; the documentation branch, for every set of*)
(* versions and number of jobs.                                            *)
(***************************************************************************)
EXTENDS MigrateImports, InheritanceOrdering, DocsBranch, SequenceTheorems,
        FiniteSetTheorems, WellFoundedInduction, TLAPS

-----------------------------------------------------------------------------
(* The migration of imports *)

\* What is held in memory for the file in work is its text, partly migrated.
HeldOK ==
  doing \in {"update", "write"} =>
    /\ next \in 1 .. Len(files)
    /\ files[next] \in lost \/ PartlyMigrated(before[files[next]], held)

MigrationIInv ==
  /\ disk = [f \in Files |-> disk[f]]
  /\ files \in Seq(Contracts)
  /\ next \in Nat
  /\ doing \in {"list", "next"} => next >= 1
  /\ HeldOK
  /\ FilesIntact

-----------------------------------------------------------------------------
(* The text *)

(* An old path is migrated to the new path of its entry, in its package.    *)
LEMMA MigratedRow ==
  ASSUME NEW r \in Rows, NEW p
  PROVE  Migrated(PathIn(p, pathUpdates[r].old)) = PathIn(p, pathUpdates[r].new)
<1> DEFINE path == PathIn(p, pathUpdates[r].old)
<1>1. path.file = pathUpdates[r].old /\ path.package = p
  BY DEF PathIn
<1>2. \A s \in Rows : path.file = pathUpdates[s].old => s = r
  BY <1>1, MigrateAssumption
<1>3. (CHOOSE s \in Rows : path.file = pathUpdates[s].old) = r
  BY <1>1, <1>2
<1>4. QED
  BY <1>1, <1>3 DEF Migrated

(* Only an old path itself is still old after it may have been migrated.    *)
LEMMA MigratedIsNew ==
  ASSUME NEW r \in Rows, NEW p, NEW x,
         Migrated(x) = PathIn(p, pathUpdates[r].old)
  PROVE  x = PathIn(p, pathUpdates[r].old)
<1>1. CASE \E s \in Rows : x.file = pathUpdates[s].old
  <2> DEFINE s == CHOOSE s \in Rows : x.file = pathUpdates[s].old
  <2>1. s \in Rows
    BY <1>1
  <2> HIDE DEF s
  <2>2. Migrated(x) = PathIn(x.package, pathUpdates[s].new)
    BY <1>1 DEF Migrated, s
  <2>3. pathUpdates[s].new = pathUpdates[r].old
    BY <2>2 DEF PathIn
  <2>4. QED
    BY <2>1, <2>3, MigrateAssumption
<1>2. CASE ~\E s \in Rows : x.file = pathUpdates[s].old
  BY <1>2 DEF Migrated
<1>3. QED
  BY <1>1, <1>2

(* Replacing an old path leaves the text partly migrated.                   *)
LEMMA ReplacedPartly ==
  ASSUME NEW c, NEW content, PartlyMigrated(c, content), NEW r \in Rows, NEW p
  PROVE  PartlyMigrated(c, Replaced(content, PathIn(p, pathUpdates[r].old),
                                             PathIn(p, pathUpdates[r].new)))
<1> DEFINE old == PathIn(p, pathUpdates[r].old)
           new == PathIn(p, pathUpdates[r].new)
           t == Replaced(content, old, new)
<1>1. DOMAIN t = DOMAIN content
  BY DEF Replaced
<1>2. \A i \in DOMAIN t : t[i] = content[i] \/ (content[i] = old /\ t[i] = new)
  BY DEF Replaced
<1>3. Migrated(old) = new
  BY MigratedRow
<1>4. \A x : Migrated(x) = old => x = old
  BY MigratedIsNew
<1> HIDE DEF old, new, t
<1>5. PartlyMigrated(c, t)
  BY <1>1, <1>2, <1>3, <1>4 DEF PartlyMigrated
<1>6. QED
  BY <1>5 DEF old, new, t

(* So does a round of updateImportPaths.                                    *)
LEMMA UpdatedPartly ==
  ASSUME NEW c, NEW content, PartlyMigrated(c, content), NEW r \in Rows
  PROVE  PartlyMigrated(c, Updated(content, r))
BY ReplacedPartly DEF Updated

-----------------------------------------------------------------------------
(* The invariant *)

(* Nothing is migrated or lost at first.                                    *)
LEMMA InitMigrationIInv == MigrationInit => MigrationIInv
<1> SUFFICES ASSUME MigrationInit PROVE MigrationIInv
  OBVIOUS
<1>1. /\ disk = before /\ before = [f \in Files |-> before[f]]
      /\ files = <<>> /\ next = 0 /\ doing = "off"
  BY DEF MigrationInit
<1>2. files \in Seq(Contracts)
  BY <1>1
<1>3. FilesIntact
  BY <1>1 DEF FilesIntact, PartlyMigrated, Files
<1>4. QED
  BY <1>1, <1>2, <1>3 DEF MigrationIInv, HeldOK

(* Steps that leave the files and what is held for them alone.              *)
LEMMA FilesAlone ==
  ASSUME MigrationIInv, UNCHANGED <<disk, before, lost>>,
         doing' # "write" /\ doing # "write",
         files' \in Seq(Contracts), next' \in Nat, next' >= 1 \/ doing' = "off",
         doing' # "update"
  PROVE  MigrationIInv'
BY DEF MigrationIInv, HeldOK, FilesIntact, BeingWritten

(* Every step keeps the invariant.                                          *)
LEMMA NextMigrationIInv == MigrationIInv /\ [MigrationNext]_migrationVars => MigrationIInv'
<1> SUFFICES ASSUME MigrationIInv, [MigrationNext]_migrationVars PROVE MigrationIInv'
  OBVIOUS
<1> USE DEF MigrationIInv
<1>1. CASE Start
  BY <1>1, FilesAlone DEF Start
<1>2. CASE ListFile
  <2>1. files' \in Seq(Contracts)
    BY <1>2, AppendProperties DEF ListFile
  <2>2. QED
    BY <1>2, <2>1, FilesAlone DEF ListFile
<1>3. CASE ListDirectory \/ ListMissing \/ ListDone \/ LeaveFile \/ Report
  <2>1. CASE ListDirectory
    BY <2>1, FilesAlone DEF ListDirectory
  <2>2. CASE ListMissing
    BY <2>2, FilesAlone DEF ListMissing, memory
  <2>3. CASE ListDone
    BY <2>3, FilesAlone DEF ListDone, memory
  <2>4. CASE LeaveFile
    BY <2>4, FilesAlone DEF LeaveFile, HeldOK
  <2>5. CASE Report
    BY <2>5, FilesAlone DEF Report, memory
  <2>6. QED
    BY <1>3, <2>1, <2>2, <2>3, <2>4, <2>5
<1>4. CASE ReadFile
  <2>1. /\ doing = "next" /\ doing' = "update" /\ held' = disk[files[next]]
        /\ files' = files /\ next' = next /\ disk' = disk /\ before' = before
        /\ lost' = lost /\ next <= Len(files)
    BY <1>4 DEF ReadFile
  <2>2. next \in 1 .. Len(files) /\ files[next] \in Contracts
    BY <2>1, ElementOfSeq, LenProperties
  <2>3. files[next] \in lost \/ PartlyMigrated(before[files[next]], held')
    BY <2>1, <2>2 DEF FilesIntact, BeingWritten, Files
  <2>4. FilesIntact'
    BY <2>1 DEF FilesIntact, BeingWritten
  <2>5. QED
    BY <2>1, <2>2, <2>3, <2>4 DEF HeldOK
<1>5. CASE UpdateRow
  <2>1. /\ doing = "update" /\ doing' = "update" /\ held' = Updated(held, row)
        /\ row \in Rows
        /\ files' = files /\ next' = next /\ disk' = disk /\ before' = before
        /\ lost' = lost
    BY <1>5 DEF UpdateRow
  <2>2. files[next] \in lost \/ PartlyMigrated(before[files[next]], held')
    BY <2>1, UpdatedPartly DEF HeldOK
  <2>3. FilesIntact'
    BY <2>1 DEF FilesIntact, BeingWritten
  <2>4. QED
    BY <2>1, <2>2, <2>3 DEF HeldOK
<1>6. CASE EmptyFile
  <2>1. /\ doing = "update" /\ doing' = "write" /\ held' = held
        /\ files' = files /\ next' = next /\ before' = before /\ lost' = lost
        /\ disk' = [disk EXCEPT ![files[next]] = <<>>]
    BY <1>6 DEF EmptyFile, memory
  <2>2. next \in 1 .. Len(files) /\ files[next] \in Contracts
    BY <2>1, ElementOfSeq, LenProperties DEF HeldOK
  <2>3. /\ disk' = [f \in Files |-> disk'[f]]
        /\ \A f \in Files : f # files[next] => disk'[f] = disk[f]
    BY <2>1
  <2>4. FilesIntact'
    BY <2>1, <2>2, <2>3, MigrateAssumption DEF FilesIntact, BeingWritten, Files
  <2>5. QED
    BY <2>1, <2>2, <2>3, <2>4 DEF HeldOK
<1>7. CASE WriteFile
  <2>1. /\ doing = "write" /\ doing' = "next"
        /\ files' = files /\ next' = next + 1 /\ before' = before /\ lost' = lost
        /\ disk' = [disk EXCEPT ![files[next]] = held]
    BY <1>7 DEF WriteFile
  <2>2. next \in 1 .. Len(files) /\ files[next] \in Contracts
    BY <2>1, ElementOfSeq, LenProperties DEF HeldOK
  <2>3. /\ disk' = [f \in Files |-> disk'[f]]
        /\ \A f \in Files : f # files[next] => disk'[f] = disk[f]
        /\ disk'[files[next]] = held
    BY <2>1, <2>2 DEF Files
  <2>4. FilesIntact'
    BY <2>1, <2>2, <2>3, MigrateAssumption
    DEF FilesIntact, BeingWritten, Files, HeldOK
  <2>5. QED
    BY <2>1, <2>2, <2>3, <2>4 DEF HeldOK
<1>8. CASE Killed
  <2>1. /\ doing' = "off" /\ files' = files /\ next' = next /\ before' = before
        /\ disk' = disk
        /\ lost' = IF doing = "write" THEN lost \cup {files[next]} ELSE lost
    BY <1>8 DEF Killed, memory
  <2>2. FilesIntact'
    BY <2>1 DEF FilesIntact, BeingWritten
  <2>3. QED
    BY <2>1, <2>2 DEF HeldOK
<1>9. CASE UNCHANGED migrationVars
  BY <1>9 DEF migrationVars, HeldOK, FilesIntact, BeingWritten
<1>10. QED
  BY <1>1, <1>2, <1>3, <1>4, <1>5, <1>6, <1>7, <1>8, <1>9 DEF MigrationNext, Running

(* No text is damaged by the script, and none lost except by a crash in the *)
(* middle of writing that file: FilesIntact, for every table and tree.      *)
THEOREM FilesStayIntact == MigrationSpec => []FilesIntact
<1>1. MigrationIInv => FilesIntact
  BY DEF MigrationIInv
<1>2. QED
  BY <1>1, InitMigrationIInv, NextMigrationIInv, PTL DEF MigrationSpec

-----------------------------------------------------------------------------
(* Runs that find nothing to update *)

Paths == [package : Packages, file : STRING]

OldIn(content, r) == \E i \in DOMAIN content : content[i].file = pathUpdates[r].old

\* What is held of a file after some rounds: the same text only if there was
\* nothing to replace in them.
HeldTells(content, r) ==
  /\ PartlyMigrated(content, held)
  /\ held = content => \A s \in Rows : s < r => ~OldIn(content, s)

\* From the given paths, all these names were reached: directories were listed
\* and contracts found, or they are queued.
Reached(names) ==
  /\ Names(args) \subseteq names
  /\ \A d \in names \cap Dirs : d \in Names(queue) \/ Names(Listing[d]) \subseteq names
  /\ names \cap Contracts \subseteq Names(queue) \cup Names(files)

ListOK ==
  /\ args \in Seq(STRING) /\ queue \in Seq(STRING)
  /\ doing = "list" => \E names : Reached(names)
  /\ doing \in {"next", "update", "write"} => Below \subseteq Names(files)

TextsOK ==
  /\ \A f \in Files : disk[f] \in Seq(Paths)
  /\ doing \in {"update", "write"} => held \in Seq(Paths)
  /\ doing = "update" => row \in Nat /\ row >= 1 /\ HeldTells(disk[files[next]], row)

FoundOK ==
  /\ updatedFiles \in Seq(Contracts)
  /\ doing = "list" => next = 1
  /\ doing \in {"next", "update"} /\ updatedFiles = <<>> =>
       \A i \in 1 .. next - 1 : FullyMigrated(files[i])
  /\ report = "none_updated" => doing = "off"
  /\ NothingLeft

FindingsIInv == MigrationIInv /\ ListOK /\ TextsOK /\ FoundOK

(* Among the places of a path in a text, one is the first.                  *)
LEMMA FirstPlace ==
  ASSUME NEW content \in Seq(Paths), NEW i \in DOMAIN content
  PROVE  \E j \in DOMAIN content :
           content[j] = content[i] /\ \A k \in 1 .. j - 1 : content[k] # content[i]
<1> DEFINE R == OpToRel(<, Nat)
           S == {j \in DOMAIN content : content[j] = content[i]}
<1>1. \A j, k \in Nat : k < j => <<k, j>> \in R
  BY DEF OpToRel
<1>2. IsWellFoundedOn(R, Nat)
  BY NatLessThanWellFounded DEF OpToRel
<1>3. S \subseteq Nat /\ S # {} /\ DOMAIN content = 1 .. Len(content) /\ Len(content) \in Nat
  BY LenProperties
<1> HIDE DEF R, S
<1>4. PICK j \in S : \A k \in S : <<k, j>> \notin R
  BY <1>2, <1>3, WFMin
<1>5. \A k \in S : ~(k < j)
  BY <1>1, <1>3, <1>4
<1>6. j \in 1 .. Len(content) /\ content[j] = content[i]
  BY <1>3, <1>4 DEF S
<1>7. ASSUME NEW k \in 1 .. j - 1 PROVE content[k] # content[i]
  <2>1. k \in DOMAIN content /\ k < j
    BY <1>3, <1>6
  <2>2. QED
    BY <1>5, <2>1 DEF S
<1>8. QED
  BY <1>3, <1>6, <1>7

(* String.replace keeps a text a text, and changes one that it finds the    *)
(* path in.                                                                 *)
LEMMA ReplacedChanges ==
  ASSUME NEW content \in Seq(Paths), NEW old, NEW new \in Paths
  PROVE  /\ Replaced(content, old, new) \in Seq(Paths)
         /\ old # new /\ (\E i \in DOMAIN content : content[i] = old)
              => Replaced(content, old, new) # content
<1> DEFINE t == Replaced(content, old, new)
<1>1. /\ DOMAIN content = 1 .. Len(content) /\ Len(content) \in Nat
      /\ \A i \in DOMAIN content : content[i] \in Paths
  BY LenProperties, ElementOfSeq
<1>2. t = [i \in 1 .. Len(content) |->
             IF content[i] = old /\ \A j \in 1 .. i - 1 : content[j] # old
               THEN new ELSE content[i]]
  BY <1>1 DEF Replaced
<1> HIDE DEF t
<1>3. t \in [1 .. Len(content) -> Paths]
  BY <1>1, <1>2
<1>4. t \in Seq(Paths)
  BY <1>1, <1>3, SeqDef
<1>5. ASSUME old # new, NEW i \in DOMAIN content, content[i] = old
      PROVE  t # content
  <2>1. PICK j \in DOMAIN content :
          content[j] = old /\ \A k \in 1 .. j - 1 : content[k] # old
    BY <1>5, FirstPlace
  <2>2. t[j] = new
    BY <1>1, <1>2, <2>1
  <2>3. QED
    BY <1>5, <2>1, <2>2
<1>6. QED
  BY <1>4, <1>5 DEF t

(* A text that is partly migrated, and comes out of another replacement as  *)
(* it was at first, was so before, and had nothing to replace.              *)
LEMMA ReplacedTells ==
  ASSUME NEW c \in Seq(Paths), NEW content \in Seq(Paths), PartlyMigrated(c, content),
         NEW r \in Rows, NEW p \in Packages,
         Replaced(content, PathIn(p, pathUpdates[r].old), PathIn(p, pathUpdates[r].new)) = c
  PROVE  content = c /\ \A i \in DOMAIN c : c[i] # PathIn(p, pathUpdates[r].old)
<1> DEFINE old == PathIn(p, pathUpdates[r].old)
           new == PathIn(p, pathUpdates[r].new)
<1>1. old # new /\ new \in Paths
  <2>1. pathUpdates[r] \in [old : STRING, new : STRING]
    BY MigrateAssumption, ElementOfSeq DEF Rows
  <2>2. pathUpdates[r].new # pathUpdates[r].old
    BY MigrateAssumption
  <2>3. QED
    BY <2>1, <2>2 DEF PathIn, Paths
<1>2. \A x : Migrated(x) = old => x = old
  BY MigratedIsNew
<1>3. Replaced(content, old, new) = c
  OBVIOUS
<1> HIDE DEF old, new
<1>4. ASSUME NEW i \in DOMAIN c PROVE content[i] = c[i]
  <2>1. DOMAIN content = DOMAIN c /\ content[i] \in {c[i], Migrated(c[i])}
    BY DEF PartlyMigrated
  <2>2. c[i] = content[i] \/ (content[i] = old /\ c[i] = new)
    BY <1>3, <2>1 DEF Replaced
  <2>3. CASE content[i] = old
    <3>1. c[i] = old
      BY <1>2, <2>1, <2>3
    <3>2. QED
      BY <2>3, <3>1
  <2>4. QED
    BY <2>2, <2>3
<1>5. content = c
  <2>1. Len(content) = Len(c) /\ Len(c) \in Nat /\ DOMAIN c = 1 .. Len(c)
    BY LenProperties DEF PartlyMigrated
  <2>2. QED
    BY <1>4, <2>1, SeqEqual
<1>6. QED
  BY <1>1, <1>3, <1>5, ReplacedChanges DEF old

(* A round of updateImportPaths that leaves a text as it was at first had   *)
(* nothing to update in it.                                                 *)
LEMMA UpdatedTells ==
  ASSUME NEW c \in Seq(Paths), NEW content \in Seq(Paths), PartlyMigrated(c, content),
         NEW r \in Rows
  PROVE  /\ Updated(content, r) \in Seq(Paths)
         /\ Updated(content, r) = c => content = c /\ ~OldIn(c, r)
<1> DEFINE old(p) == PathIn(p, pathUpdates[r].old)
           new(p) == PathIn(p, pathUpdates[r].new)
           t == Replaced(content, old("contracts"), new("contracts"))
<1>1. \A p \in Packages : new(p) \in Paths
  <2>1. pathUpdates[r] \in [old : STRING, new : STRING]
    BY MigrateAssumption, ElementOfSeq DEF Rows
  <2>2. QED
    BY <2>1 DEF PathIn, Paths
<1>2. "contracts" \in Packages /\ "contracts-upgradeable" \in Packages
  BY DEF Packages
<1>3. t \in Seq(Paths) /\ PartlyMigrated(c, t)
  BY <1>1, <1>2, ReplacedChanges, ReplacedPartly
<1>4. Updated(content, r) =
        Replaced(t, old("contracts-upgradeable"), new("contracts-upgradeable"))
  BY DEF Updated
<1>5. Updated(content, r) \in Seq(Paths)
  <2> HIDE DEF t, old, new
  <2>1. QED
    BY <1>1, <1>2, <1>3, <1>4, ReplacedChanges
<1>6. ASSUME Updated(content, r) = c PROVE content = c /\ ~OldIn(c, r)
  <2>1. t = c /\ \A i \in DOMAIN c : c[i] # old("contracts-upgradeable")
    <3>1. PartlyMigrated(c, t) /\ t \in Seq(Paths)
      BY <1>3
    <3>2. Replaced(t, old("contracts-upgradeable"), new("contracts-upgradeable")) = c
      BY <1>4, <1>6
    <3> HIDE DEF t
    <3>3. QED
      BY <1>2, <3>1, <3>2, ReplacedTells
  <2>2. content = c /\ \A i \in DOMAIN c : c[i] # old("contracts")
    BY <1>2, <2>1, ReplacedTells
  <2>3. \A i \in DOMAIN c : c[i].file = pathUpdates[r].old =>
          c[i] \in {old("contracts"), old("contracts-upgradeable")}
    <3> SUFFICES ASSUME NEW i \in DOMAIN c, c[i].file = pathUpdates[r].old
                 PROVE  c[i] \in {old("contracts"), old("contracts-upgradeable")}
      OBVIOUS
    <3>1. c[i] \in Paths
      BY ElementOfSeq, LenProperties
    <3>2. QED
      BY <3>1 DEF Paths, Packages, PathIn
  <2>4. QED
    BY <2>1, <2>2, <2>3 DEF OldIn
<1>7. QED
  BY <1>5, <1>6

(* The names in a queue.                                                    *)
LEMMA NamesFacts ==
  ASSUME NEW T, NEW q \in Seq(T)
  PROVE  /\ q # <<>> => /\ Tail(q) \in Seq(T)
                        /\ Names(q) = {Head(q)} \cup Names(Tail(q))
         /\ \A l \in Seq(T) : Names(q \o l) = Names(q) \cup Names(l)
         /\ \A f \in T : Names(Append(q, f)) = Names(q) \cup {f}
<1>1. DOMAIN q = 1 .. Len(q) /\ Len(q) \in Nat
  BY LenProperties
<1>2. ASSUME q # <<>>
      PROVE  /\ Tail(q) \in Seq(T)
             /\ Names(q) = {Head(q)} \cup Names(Tail(q))
  <2>1. /\ Tail(q) \in Seq(T) /\ Len(q) >= 1 /\ Len(Tail(q)) = Len(q) - 1
        /\ DOMAIN Tail(q) = 1 .. Len(q) - 1 /\ Head(q) = q[1]
        /\ \A i \in 1 .. Len(q) - 1 : Tail(q)[i] = q[i + 1]
    BY <1>1, <1>2, HeadTailProperties, LenProperties
  <2>2. ASSUME NEW i \in 1 .. Len(q) PROVE q[i] \in {Head(q)} \cup Names(Tail(q))
    <3>1. CASE i = 1
      BY <2>1, <3>1
    <3>2. CASE i # 1
      <4>1. i - 1 \in 1 .. Len(q) - 1 /\ (i - 1) + 1 = i
        BY <1>1, <3>2
      <4>2. QED
        BY <2>1, <4>1 DEF Names
    <3>3. QED
      BY <3>1, <3>2
  <2>3. ASSUME NEW i \in 1 .. Len(q) - 1 PROVE Tail(q)[i] \in Names(q)
    <3>1. i + 1 \in 1 .. Len(q)
      BY <1>1
    <3>2. QED
      BY <1>1, <2>1, <3>1 DEF Names
  <2>4. Head(q) \in Names(q)
    BY <1>1, <2>1 DEF Names
  <2>5. QED
    BY <1>1, <2>1, <2>2, <2>3, <2>4 DEF Names
<1>3. ASSUME NEW l \in Seq(T) PROVE Names(q \o l) = Names(q) \cup Names(l)
  <2> DEFINE t == q \o l
  <2>1. /\ DOMAIN l = 1 .. Len(l) /\ Len(l) \in Nat
        /\ DOMAIN t = 1 .. Len(q) + Len(l)
        /\ \A i \in 1 .. Len(q) + Len(l) :
             t[i] = IF i <= Len(q) THEN q[i] ELSE l[i - Len(q)]
    BY <1>1, ConcatProperties, LenProperties
  <2> HIDE DEF t
  <2>2. ASSUME NEW i \in 1 .. Len(q) + Len(l) PROVE t[i] \in Names(q) \cup Names(l)
    <3>1. i <= Len(q) => i \in 1 .. Len(q)
      BY <1>1
    <3>2. ~(i <= Len(q)) => i - Len(q) \in 1 .. Len(l)
      BY <1>1, <2>1
    <3>3. QED
      BY <1>1, <2>1, <3>1, <3>2 DEF Names
  <2>3. ASSUME NEW i \in 1 .. Len(q) PROVE q[i] \in Names(t)
    <3>1. i \in 1 .. Len(q) + Len(l) /\ i <= Len(q)
      BY <1>1, <2>1
    <3>2. QED
      BY <2>1, <3>1 DEF Names
  <2>4. ASSUME NEW i \in 1 .. Len(l) PROVE l[i] \in Names(t)
    <3>1. /\ i + Len(q) \in 1 .. Len(q) + Len(l) /\ ~(i + Len(q) <= Len(q))
          /\ (i + Len(q)) - Len(q) = i
      BY <1>1, <2>1
    <3>2. QED
      BY <2>1, <3>1 DEF Names
  <2>5. Names(t) = Names(q) \cup Names(l)
    BY <1>1, <2>1, <2>2, <2>3, <2>4 DEF Names
  <2>6. QED
    BY <2>5 DEF t
<1>4. ASSUME NEW f \in T PROVE Names(Append(q, f)) = Names(q) \cup {f}
  <2> DEFINE t == Append(q, f)
  <2>1. /\ DOMAIN t = 1 .. Len(q) + 1 /\ t[Len(q) + 1] = f
        /\ \A i \in 1 .. Len(q) : t[i] = q[i]
    BY <1>1, AppendProperties, LenProperties
  <2> HIDE DEF t
  <2>2. ASSUME NEW i \in 1 .. Len(q) + 1 PROVE t[i] \in Names(q) \cup {f}
    <3>1. i = Len(q) + 1 \/ i \in 1 .. Len(q)
      BY <1>1
    <3>2. QED
      BY <1>1, <2>1, <3>1 DEF Names
  <2>3. ASSUME NEW i \in 1 .. Len(q) PROVE q[i] \in Names(t)
    <3>1. i \in 1 .. Len(q) + 1
      BY <1>1
    <3>2. QED
      BY <2>1, <3>1 DEF Names
  <2>4. f \in Names(t)
    BY <1>1, <2>1 DEF Names
  <2>5. Names(t) = Names(q) \cup {f}
    BY <1>1, <2>1, <2>2, <2>3, <2>4 DEF Names
  <2>6. QED
    BY <2>5 DEF t
<1>5. QED
  BY <1>2, <1>3, <1>4

(* When the queue is empty, everything below the given paths was found.     *)
LEMMA AllFound ==
  ASSUME queue = <<>>, NEW names, Reached(names)
  PROVE  Below \subseteq Names(files)
<1>1. Names(queue) = {}
  BY DEF Names
<1> DEFINE all == Names(args) \cup UNION {Names(Listing[d]) : d \in Dirs}
           few == names \cap all
<1>2. Names(args) \subseteq few
  BY DEF Reached
<1>3. Closed(few)
  <2> SUFFICES ASSUME NEW d \in few \cap Dirs PROVE Names(Listing[d]) \subseteq few
    BY DEF Closed
  <2>1. Names(Listing[d]) \subseteq names
    BY <1>1 DEF Reached
  <2>2. QED
    BY <2>1
<1>4. ReachableFrom(args) \subseteq few
  BY <1>2, <1>3 DEF ReachableFrom
<1>5. QED
  BY <1>1, <1>4 DEF Reached, Below

(* Nothing is read or found at first.                                       *)
LEMMA InitFindings == MigrationInit => FindingsIInv
<1> SUFFICES ASSUME MigrationInit PROVE FindingsIInv
  OBVIOUS
<1>1. MigrationIInv
  BY InitMigrationIInv
<1>2. /\ doing = "off" /\ report = "none" /\ args \in ArgLists /\ queue = <<>>
      /\ disk = before /\ before \in [Files -> Contents]
  BY DEF MigrationInit
<1>3. ListOK
  BY <1>2, MigrateAssumption, EmptySeq DEF ListOK
<1>4. TextsOK
  BY <1>2, MigrateAssumption DEF TextsOK, Paths
<1>5. FoundOK
  <2>1. updatedFiles = <<>>
    BY DEF MigrationInit
  <2>2. QED
    BY <1>2, <2>1, EmptySeq DEF FoundOK, NothingLeft
<1>6. QED
  BY <1>1, <1>3, <1>4, <1>5 DEF FindingsIInv

(* What a run has listed.                                                   *)
LEMMA NextListOK ==
  ASSUME MigrationIInv, ListOK, [MigrationNext]_migrationVars
  PROVE  ListOK'
<1> USE DEF ListOK
<1>1. args' = args
  BY DEF MigrationNext, Start, Running, ListFile, ListDirectory, ListMissing, ListDone,
         ReadFile, UpdateRow, LeaveFile, EmptyFile, WriteFile, Report, Killed, migrationVars
<1>2. CASE Start
  <2>1. doing' = "list" /\ queue' = args /\ files' = <<>>
    BY <1>2 DEF Start
  <2>2. Reached(Names(args))'
    BY <1>1, <2>1 DEF Reached
  <2>3. QED
    BY <1>1, <2>1, <2>2
<1>3. CASE ListFile
  <2>1. /\ doing = "list" /\ doing' = "list" /\ queue # <<>> /\ Head(queue) \in Files
        /\ files' = IF Head(queue) \in Contracts THEN Append(files, Head(queue)) ELSE files
        /\ queue' = Tail(queue)
    BY <1>3 DEF ListFile
  <2>2. PICK names : Reached(names)
    BY <2>1
  <2>3. Tail(queue) \in Seq(STRING) /\ Names(queue) = {Head(queue)} \cup Names(queue')
    BY <2>1, NamesFacts
  <2>4. Names(files') = IF Head(queue) \in Contracts THEN Names(files) \cup {Head(queue)}
                                                     ELSE Names(files)
    <3>1. files \in Seq(Contracts)
      BY DEF MigrationIInv
    <3>2. Head(queue) \in Contracts =>
            Names(Append(files, Head(queue))) = Names(files) \cup {Head(queue)}
      BY <3>1, NamesFacts
    <3>3. QED
      BY <2>1, <3>2
  <2>5. Head(queue) \notin Dirs
    BY <2>1, MigrateAssumption
  <2>6. Reached(names)'
    BY <1>1, <2>2, <2>3, <2>4, <2>5 DEF Reached
  <2>7. QED
    BY <1>1, <2>1, <2>3, <2>6
<1>4. CASE ListDirectory
  <2>1. /\ doing = "list" /\ doing' = "list" /\ queue # <<>> /\ Head(queue) \in Dirs
        /\ files' = files /\ queue' = Tail(queue) \o Listing[Head(queue)]
    BY <1>4 DEF ListDirectory, Queued
  <2>2. PICK names : Reached(names)
    BY <2>1
  <2>3. /\ Tail(queue) \in Seq(STRING) /\ Names(queue) = {Head(queue)} \cup Names(Tail(queue))
        /\ Listing[Head(queue)] \in Seq(STRING)
    BY <2>1, NamesFacts, MigrateAssumption
  <2>4. /\ queue' \in Seq(STRING)
        /\ Names(queue') = Names(Tail(queue)) \cup Names(Listing[Head(queue)])
    <3> DEFINE rest == Tail(queue)
               more == Listing[Head(queue)]
    <3>1. rest \in Seq(STRING) /\ more \in Seq(STRING) /\ queue' = rest \o more
      BY <2>1, <2>3
    <3> HIDE DEF rest, more
    <3>2. rest \o more \in Seq(STRING) /\ Names(rest \o more) = Names(rest) \cup Names(more)
      BY <3>1, NamesFacts, ConcatProperties
    <3>3. QED
      BY <3>1, <3>2 DEF rest, more
  <2>5. Head(queue) \notin Contracts
    BY <2>1, MigrateAssumption DEF Files
  <2> DEFINE more == names \cup Names(Listing[Head(queue)])
  <2>6. (\E seen : Reached(seen))'
    <3>1. Names(args) \subseteq more
      BY <2>2 DEF Reached
    <3>2. ASSUME NEW d \in more \cap Dirs
          PROVE  d \in Names(queue') \/ Names(Listing[d]) \subseteq more
      BY <2>2, <2>3, <2>4 DEF Reached
    <3>3. more \cap Contracts \subseteq Names(queue') \cup Names(files)
      BY <2>2, <2>3, <2>4, <2>5 DEF Reached
    <3>4. \A d \in more \cap Dirs :
            d \in Names(queue') \/ Names(Listing[d]) \subseteq more
      BY <3>2
    <3> HIDE DEF more
    <3>5. \E seen : Reached(seen)'
      BY <1>1, <2>1, <3>1, <3>3, <3>4 DEF Reached
    <3>6. QED
      BY <3>5
  <2>7. QED
    BY <1>1, <2>1, <2>4, <2>6
<1>5. CASE ListDone
  <2>1. /\ doing = "list" /\ doing' = "next" /\ queue = <<>>
        /\ files' = files /\ queue' = queue
    BY <1>5 DEF ListDone, memory
  <2>2. Below \subseteq Names(files)
    BY <2>1, AllFound
  <2>3. QED
    BY <1>1, <2>1, <2>2 DEF Below
<1>6. CASE ReadFile \/ UpdateRow \/ LeaveFile \/ EmptyFile \/ WriteFile
  <2>1. /\ doing \in {"next", "update", "write"} /\ doing' \in {"next", "update", "write"}
        /\ files' = files /\ queue' = queue
    BY <1>6 DEF ReadFile, UpdateRow, LeaveFile, EmptyFile, WriteFile, memory
  <2>2. QED
    BY <1>1, <2>1 DEF Below
<1>7. CASE ListMissing \/ Report \/ Killed
  <2>1. doing' = "off" /\ queue' = queue
    BY <1>7 DEF ListMissing, Report, Killed, memory
  <2>2. QED
    BY <1>1, <2>1
<1>8. CASE UNCHANGED migrationVars
  BY <1>8 DEF migrationVars, Reached, Below
<1>9. QED
  BY <1>2, <1>3, <1>4, <1>5, <1>6, <1>7, <1>8 DEF MigrationNext, Running

(* What a run holds tells what it has found in the file in work.            *)
LEMMA NextTextsOK ==
  ASSUME MigrationIInv, TextsOK, [MigrationNext]_migrationVars
  PROVE  TextsOK'
<1> USE DEF TextsOK
<1>1. CASE ReadFile
  <2>1. /\ doing = "next" /\ doing' = "update" /\ next <= Len(files)
        /\ held' = disk[files[next]] /\ row' = 1
        /\ disk' = disk /\ files' = files /\ next' = next
    BY <1>1 DEF ReadFile
  <2>2. files[next] \in Files
    <3>1. next \in 1 .. Len(files)
      BY <2>1, LenProperties DEF MigrationIInv
    <3>2. QED
      BY <3>1, ElementOfSeq DEF MigrationIInv, Files
  <2>3. held' \in Seq(Paths)
    BY <2>1, <2>2
  <2>4. HeldTells(disk[files[next]], row)'
    <3>1. PartlyMigrated(held', held')
      BY DEF PartlyMigrated
    <3>2. \A s \in Rows : ~(s < 1)
      BY DEF Rows
    <3>3. QED
      BY <2>1, <3>1, <3>2 DEF HeldTells
  <2>5. QED
    BY <2>1, <2>3, <2>4
<1>2. CASE UpdateRow
  <2> DEFINE c == disk[files[next]]
  <2>1. /\ doing = "update" /\ doing' = "update" /\ row \in Rows
        /\ held' = Updated(held, row) /\ row' = row + 1
        /\ disk' = disk /\ files' = files /\ next' = next
    BY <1>2 DEF UpdateRow
  <2>2. c \in Seq(Paths)
    <3>1. next \in 1 .. Len(files)
      BY <2>1 DEF MigrationIInv, HeldOK
    <3>2. QED
      BY <3>1, ElementOfSeq DEF MigrationIInv, Files
  <2>3. /\ held \in Seq(Paths) /\ PartlyMigrated(c, held)
        /\ held = c => \A s \in Rows : s < row => ~OldIn(c, s)
    BY <2>1 DEF HeldTells
  <2>4. (disk[files[next]])' = c
    BY <2>1
  <2> HIDE DEF c
  <2>5. /\ held' \in Seq(Paths) /\ PartlyMigrated(c, held')
        /\ held' = c => held = c /\ ~OldIn(c, row)
    BY <2>1, <2>2, <2>3, UpdatedTells, UpdatedPartly
  <2>6. held' = c => \A s \in Rows : s < row' => ~OldIn(c, s)
    <3> SUFFICES ASSUME held' = c, NEW s \in Rows, s < row' PROVE ~OldIn(c, s)
      OBVIOUS
    <3>1. s < row \/ s = row
      BY <2>1 DEF Rows
    <3>2. QED
      BY <2>3, <2>5, <3>1
  <2>7. HeldTells(disk[files[next]], row)'
    BY <2>4, <2>5, <2>6 DEF HeldTells
  <2>8. QED
    BY <2>1, <2>5, <2>7
<1>3. CASE EmptyFile
  <2>1. /\ doing = "update" /\ doing' = "write" /\ held' = held
        /\ disk' = [disk EXCEPT ![files[next]] = <<>>]
    BY <1>3 DEF EmptyFile, memory
  <2>2. \A f \in Files : disk'[f] \in Seq(Paths)
    BY <2>1, EmptySeq DEF MigrationIInv
  <2>3. QED
    BY <2>1, <2>2
<1>4. CASE WriteFile
  <2>1. /\ doing = "write" /\ doing' = "next"
        /\ disk' = [disk EXCEPT ![files[next]] = held]
    BY <1>4 DEF WriteFile
  <2>2. \A f \in Files : disk'[f] \in Seq(Paths)
    BY <2>1 DEF MigrationIInv
  <2>3. QED
    BY <2>1, <2>2
<1>5. CASE \/ Start \/ ListFile \/ ListDirectory \/ ListMissing \/ ListDone
           \/ LeaveFile \/ Report \/ Killed
  <2>1. disk' = disk /\ doing' \in {"list", "next", "off"}
    BY <1>5
    DEF Start, ListFile, ListDirectory, ListMissing, ListDone, LeaveFile, Report, Killed
  <2>2. QED
    BY <2>1
<1>6. CASE UNCHANGED migrationVars
  BY <1>6 DEF migrationVars, HeldTells
<1>7. QED
  BY <1>1, <1>2, <1>3, <1>4, <1>5, <1>6 DEF MigrationNext, Running

(* While nothing was written, every file that was read had nothing to       *)
(* update.                                                                  *)
LEMMA NextFoundOK ==
  ASSUME MigrationIInv, ListOK, TextsOK, FoundOK, [MigrationNext]_migrationVars
  PROVE  FoundOK'
<1> USE DEF FoundOK
<1>1. args' = args
  BY DEF MigrationNext, Start, Running, ListFile, ListDirectory, ListMissing, ListDone,
         ReadFile, UpdateRow, LeaveFile, EmptyFile, WriteFile, Report, Killed, migrationVars
<1>2. updatedFiles' \in Seq(Contracts)
  <2>1. CASE WriteFile
    <3>1. files[next] \in Contracts /\ updatedFiles' = Append(updatedFiles, files[next])
      BY <2>1, ElementOfSeq DEF WriteFile, MigrationIInv, HeldOK
    <3>2. QED
      BY <3>1, AppendProperties
  <2>2. CASE ~WriteFile
    <3>1. updatedFiles' \in {updatedFiles, <<>>}
      BY <2>2
      DEF MigrationNext, Start, Running, ListFile, ListDirectory, ListMissing, ListDone,
          ReadFile, UpdateRow, LeaveFile, EmptyFile, Report, Killed, memory, migrationVars
    <3>2. QED
      BY <3>1, EmptySeq
  <2>3. QED
    BY <2>1, <2>2
<1>3. CASE Start
  <2>1. doing' = "list" /\ report' = "none" /\ next' = 1 /\ updatedFiles' = <<>>
    BY <1>3 DEF Start
  <2>2. QED
    BY <1>2, <2>1 DEF NothingLeft
<1>4. CASE ListFile \/ ListDirectory \/ ListDone
  <2>1. /\ doing = "list" /\ doing' \in {"list", "next"} /\ report' = report
        /\ next' = next /\ next = 1
    <3>1. /\ doing = "list" /\ doing' \in {"list", "next"} /\ report' = report
          /\ next' = next
      BY <1>4 DEF ListFile, ListDirectory, ListDone, memory
    <3>2. QED
      BY <3>1 DEF FoundOK
  <2>2. QED
    BY <1>2, <2>1 DEF NothingLeft
<1>5. CASE ReadFile \/ UpdateRow
  <2>1. /\ doing \in {"next", "update"} /\ doing' = "update" /\ report' = report
        /\ UNCHANGED <<disk, files, next, updatedFiles>>
    BY <1>5 DEF ReadFile, UpdateRow
  <2>2. QED
    BY <1>2, <2>1 DEF NothingLeft, FullyMigrated
<1>6. CASE LeaveFile
  <2> DEFINE c == disk[files[next]]
  <2>1. /\ doing = "update" /\ doing' = "next" /\ report' = report /\ row \notin Rows
        /\ held = c /\ next' = next + 1
        /\ UNCHANGED <<disk, files, updatedFiles>>
    BY <1>6 DEF LeaveFile, WorthWriting
  <2>2. \A s \in Rows : ~OldIn(c, s)
    <3>1. \A s \in Rows : s < row
      <4>1. Len(pathUpdates) \in Nat /\ row \in Nat /\ row >= 1
        BY <2>1, LenProperties, MigrateAssumption DEF TextsOK
      <4>2. QED
        BY <2>1, <4>1 DEF Rows
    <3>2. QED
      BY <2>1, <3>1 DEF TextsOK, HeldTells
  <2>3. FullyMigrated(files[next])
    BY <2>2 DEF FullyMigrated, Migrated, OldIn
  <2>4. next \in Nat
    BY DEF MigrationIInv
  <2>5. updatedFiles = <<>> => \A i \in 1 .. next + 1 - 1 : FullyMigrated(files[i])
    <3> SUFFICES ASSUME updatedFiles = <<>>, NEW i \in 1 .. next + 1 - 1
                 PROVE  FullyMigrated(files[i])
      OBVIOUS
    <3>1. i = next \/ i \in 1 .. next - 1
      BY <2>4
    <3>2. QED
      BY <2>1, <2>3, <3>1
  <2>6. updatedFiles' = <<>> => \A i \in 1 .. next' - 1 : FullyMigrated(files[i])'
    <3>1. disk' = disk /\ files' = files /\ next' = next + 1 /\ updatedFiles' = updatedFiles
      BY <2>1
    <3>2. \A i : FullyMigrated(files[i]) => FullyMigrated(files[i])'
      BY <3>1 DEF FullyMigrated
    <3> SUFFICES ASSUME updatedFiles' = <<>>, NEW i \in 1 .. next' - 1
                 PROVE  FullyMigrated(files[i])'
      OBVIOUS
    <3>3. FullyMigrated(files[i])
      BY <2>4, <2>5, <3>1
    <3>4. QED
      BY <3>2, <3>3
  <2>7. report' # "none_updated"
    BY <2>1
  <2> HIDE DEF c
  <2>8. doing' = "next"
    BY <2>1
  <2>9. QED
    BY <1>2, <2>6, <2>7, <2>8 DEF NothingLeft
<1>7. CASE EmptyFile
  <2>1. doing = "update" /\ doing' = "write" /\ report' = report
    BY <1>7 DEF EmptyFile
  <2>2. QED
    BY <1>2, <2>1 DEF NothingLeft
<1>8. CASE WriteFile
  <2>1. /\ doing = "write" /\ report' = report
        /\ updatedFiles' = Append(updatedFiles, files[next])
    BY <1>8 DEF WriteFile
  <2>2. updatedFiles' # <<>>
    BY <2>1, AppendProperties
  <2>3. doing' = "next"
    BY <1>8 DEF WriteFile
  <2>4. QED
    BY <1>2, <2>1, <2>2, <2>3 DEF NothingLeft
<1>9. CASE Report
  <2>1. /\ doing = "next" /\ next > Len(files) /\ doing' = "off"
        /\ report' = "none_updated" => updatedFiles = <<>>
        /\ UNCHANGED <<disk, files>>
    BY <1>9 DEF Report, memory
  <2>2. ASSUME updatedFiles = <<>>, NEW f \in Below PROVE FullyMigrated(f)
    <3>1. PICK i \in 1 .. Len(files) : f = files[i]
      BY <2>1, LenProperties DEF ListOK, Names, MigrationIInv
    <3>2. i \in 1 .. next - 1
      BY <2>1, <3>1, LenProperties DEF MigrationIInv
    <3>3. QED
      BY <2>1, <2>2, <3>1, <3>2
  <2>3. QED
    BY <1>1, <1>2, <2>1, <2>2 DEF NothingLeft, FullyMigrated, Below
<1>10. CASE ListMissing \/ Killed
  <2>1. doing' = "off" /\ report' \in {"error", "killed"}
    BY <1>10 DEF ListMissing, Killed
  <2>2. QED
    BY <1>2, <2>1 DEF NothingLeft
<1>11. CASE UNCHANGED migrationVars
  BY <1>11 DEF migrationVars, NothingLeft, FullyMigrated, Below
<1>12. QED
  BY <1>3, <1>4, <1>5, <1>6, <1>7, <1>8, <1>9, <1>10, <1>11 DEF MigrationNext, Running

(* A run that says there was nothing to update left no old path in any      *)
(* contract below the paths it was given: NothingLeft.                      *)
THEOREM NothingIsLeft == MigrationSpec => []NothingLeft
<1>1. FindingsIInv /\ [MigrationNext]_migrationVars => FindingsIInv'
  BY NextMigrationIInv, NextListOK, NextTextsOK, NextFoundOK DEF FindingsIInv
<1>2. FindingsIInv => NothingLeft
  BY DEF FindingsIInv, FoundOK
<1>3. QED
  BY <1>1, <1>2, InitFindings, PTL DEF MigrationSpec

-----------------------------------------------------------------------------
(* The search for inheritance conflicts *)

Output == [linearized : Seq(Seq(1 .. MaxContracts)), mocks : SUBSET (1 .. MaxContracts)]

\* The contracts of a build that the script has read before it comes to number n.
ReadChains(b, n) ==
  {solcOutput[b].linearized[c] : c \in (1 .. n - 1) \ solcOutput[b].mocks}

\* What is printed is what these builds disagree about.
PrintedOf(builds) ==
  \A entry : entry \in log <=> \E b \in builds : \E pair \in Disagreed(b) : entry = <<b, pair>>

OrderingIInv ==
  /\ solcOutput \in [1 .. Builds -> Output]
  /\ build \in 1 .. Builds
  /\ exitCode = IF log = {} THEN 0 ELSE 1
  /\ stage = "compile" => at = 1 /\ graph = {} /\ log = {}
  /\ stage = "read" =>
       /\ at \in 1 .. Len(solcOutput[build].linearized) + 1
       /\ graph = UNION {Edges(chain) : chain \in ReadChains(build, at)}
       /\ PrintedOf(1 .. build - 1)
  /\ stage \in {"end", "done"} => PrintedOf(1 .. Builds)

(* There is an edge from each contract of a chain to each that comes after. *)
LEMMA EdgesBefore ==
  ASSUME NEW S, NEW chain \in Seq(S)
  PROVE  /\ \A x, y : <<x, y>> \in Edges(chain) <=> Before(chain, x, y)
         /\ \A e \in Edges(chain) : e = <<e[1], e[2]>>
<1>1. DOMAIN chain = 1 .. Len(chain) /\ Len(chain) \in Nat
  BY LenProperties
<1>2. \A e : e \in Edges(chain) <=>
              \E i, j \in 1 .. Len(chain) : i < j /\ e = <<chain[i], chain[j]>>
  <2>1. ASSUME NEW e \in Edges(chain)
        PROVE  \E i, j \in 1 .. Len(chain) : i < j /\ e = <<chain[i], chain[j]>>
    BY DEF Edges
  <2>2. ASSUME NEW i \in 1 .. Len(chain), NEW j \in 1 .. Len(chain), i < j
        PROVE  <<chain[i], chain[j]>> \in Edges(chain)
    <3> DEFINE p == <<i, j>>
    <3>1. p \in (1 .. Len(chain)) \X (1 .. Len(chain)) /\ p[1] = i /\ p[2] = j
      OBVIOUS
    <3> HIDE DEF p
    <3>2. <<chain[p[1]], chain[p[2]]>> \in Edges(chain)
      BY <2>2, <3>1 DEF Edges
    <3>3. QED
      BY <3>1, <3>2
  <2>3. QED
    BY <2>1, <2>2
<1>3. QED
  BY <1>1, <1>2 DEF Before

(* The pairs with edges both ways are those that two of the chains have in  *)
(* opposite orders.                                                         *)
LEMMA ConflictsAreDisagreed ==
  ASSUME OrderingIInv, NEW b \in 1 .. Builds
  PROVE  Conflicts(UNION {Edges(chain) : chain \in Chains(b)}) = Disagreed(b)
<1> DEFINE edges == UNION {Edges(chain) : chain \in Chains(b)}
<1>1. ASSUME NEW chain \in Chains(b)
      PROVE  chain \in Seq(1 .. MaxContracts)
  <2>1. solcOutput[b].linearized \in Seq(Seq(1 .. MaxContracts))
    BY DEF OrderingIInv, Output
  <2>2. PICK c \in DOMAIN solcOutput[b].linearized : chain = solcOutput[b].linearized[c]
    BY DEF Chains
  <2>3. QED
    BY <2>1, <2>2, ElementOfSeq, LenProperties
<1>2. \A x, y : <<x, y>> \in edges <=> \E chain \in Chains(b) : Before(chain, x, y)
  <2>1. \A chain \in Chains(b) : \A x, y :
          <<x, y>> \in Edges(chain) <=> Before(chain, x, y)
    BY <1>1, EdgesBefore
  <2>2. \A e : e \in edges <=> \E chain \in Chains(b) : e \in Edges(chain)
    OBVIOUS
  <2> HIDE DEF edges
  <2>3. QED
    BY <2>1, <2>2
<1>3. \A e \in edges : e = <<e[1], e[2]>>
  BY <1>1, EdgesBefore
<1>4. \A x, y : <<x, y>> \in edges => x \in 1 .. MaxContracts /\ y \in 1 .. MaxContracts
  <2> SUFFICES ASSUME NEW x, NEW y, <<x, y>> \in edges
               PROVE  x \in 1 .. MaxContracts /\ y \in 1 .. MaxContracts
    OBVIOUS
  <2>1. PICK chain \in Chains(b) : Before(chain, x, y)
    BY <1>2
  <2>2. QED
    BY <1>1, <2>1, ElementOfSeq, LenProperties DEF Before
<1> HIDE DEF edges
<1>5. ASSUME NEW pair \in Conflicts(edges) PROVE pair \in Disagreed(b)
  <2>1. PICK e \in edges : <<e[2], e[1]>> \in edges /\ pair = {e[1], e[2]}
    BY DEF Conflicts
  <2>2. PICK x, y : e = <<x, y>> /\ pair = {x, y}
    BY <1>3, <2>1
  <2>3. <<x, y>> \in edges /\ <<y, x>> \in edges
    BY <2>1, <2>2
  <2>4. pair \in SUBSET (1 .. MaxContracts)
    BY <1>4, <2>2, <2>3
  <2>5. QED
    BY <1>2, <2>2, <2>3, <2>4 DEF Disagreed
<1>6. ASSUME NEW pair \in Disagreed(b) PROVE pair \in Conflicts(edges)
  <2>1. PICK x, y \in pair : /\ pair = {x, y}
                             /\ \E c \in Chains(b) : Before(c, x, y)
                             /\ \E c \in Chains(b) : Before(c, y, x)
    BY DEF Disagreed
  <2>2. <<x, y>> \in edges /\ <<y, x>> \in edges
    BY <1>2, <2>1
  <2> DEFINE e == <<x, y>>
  <2>3. e \in edges /\ <<e[2], e[1]>> \in edges /\ pair = {e[1], e[2]}
    BY <2>1, <2>2
  <2> HIDE DEF e
  <2>4. QED
    BY <2>3 DEF Conflicts
<1>7. Conflicts(edges) = Disagreed(b)
  BY <1>5, <1>6
<1>8. QED
  BY <1>7 DEF edges

(* Nothing is compiled or printed at first.                                 *)
LEMMA InitOrderingIInv == OrderingInit => OrderingIInv
<1> SUFFICES ASSUME OrderingInit PROVE OrderingIInv
  OBVIOUS
<1>1. [linearized |-> <<>>, mocks |-> {}] \in Output
  BY EmptySeq DEF Output
<1>2. /\ solcOutput \in [1 .. Builds -> Output] /\ build = 1 /\ 1 \in 1 .. Builds
      /\ stage = "compile" /\ at = 1 /\ graph = {} /\ log = {} /\ exitCode = 0
  BY <1>1, OrderingAssumption DEF OrderingInit
<1>3. QED
  BY <1>2 DEF OrderingIInv

(* What a contract inherits from is among the contracts of the build.       *)
LEMMA CompileOK ==
  ASSUME OrderingIInv, NEW isMock \in BOOLEAN, Compile(isMock)
  PROVE  solcOutput' \in [1 .. Builds -> Output]
<1> DEFINE output == solcOutput[build]
           linearized == output.linearized
           id == Len(linearized) + 1
<1>1. /\ output \in Output /\ linearized \in Seq(Seq(1 .. MaxContracts))
      /\ output.mocks \in SUBSET (1 .. MaxContracts)
      /\ Len(linearized) \in Nat /\ id <= MaxContracts
  <2>1. output \in Output /\ id <= MaxContracts
    BY DEF OrderingIInv, Compile
  <2>2. QED
    BY <2>1, LenProperties DEF Output
<1>2. PICK bases \in Linearizations(linearized) :
        solcOutput' = [solcOutput EXCEPT ![build] =
          [linearized |-> Append(linearized, <<id>> \o bases),
           mocks |-> output.mocks \cup IF isMock THEN {id} ELSE {}]]
  BY DEF Compile
<1>3. <<id>> \o bases \in Seq(1 .. MaxContracts)
  <2>1. PICK n \in 0 .. MaxBases : bases \in [1 .. n -> 1 .. Len(linearized)]
    BY <1>2 DEF Linearizations
  <2> HIDE DEF linearized
  <2>2. 1 .. Len(linearized) \subseteq 1 .. MaxContracts /\ id \in 1 .. MaxContracts
    BY <1>1, OrderingAssumption
  <2>3. bases \in [1 .. n -> 1 .. MaxContracts] /\ n \in Nat
    BY <2>1, <2>2, OrderingAssumption
  <2>4. bases \in Seq(1 .. MaxContracts)
    BY <2>3, SeqDef
  <2> HIDE DEF id
  <2>5. <<id>> \in Seq(1 .. MaxContracts)
    BY <2>2
  <2>6. QED
    BY <2>4, <2>5, ConcatProperties
<1> DEFINE chain == <<id>> \o bases
           after == [linearized |-> Append(linearized, chain),
                     mocks |-> output.mocks \cup IF isMock THEN {id} ELSE {}]
<1>4. Append(linearized, chain) \in Seq(Seq(1 .. MaxContracts))
  <2>1. chain \in Seq(1 .. MaxContracts)
    BY <1>3
  <2> HIDE DEF chain, linearized
  <2>2. QED
    BY <1>1, <2>1, AppendProperties
<1>5. output.mocks \cup (IF isMock THEN {id} ELSE {}) \in SUBSET (1 .. MaxContracts)
  <2> HIDE DEF linearized, output
  <2>1. id \in 1 .. MaxContracts
    BY <1>1, OrderingAssumption
  <2>2. QED
    BY <1>1, <2>1
<1>6. after \in Output
  <2> HIDE DEF chain, linearized, id, output
  <2>1. QED
    BY <1>4, <1>5 DEF Output
<1>7. solcOutput' = [solcOutput EXCEPT ![build] = after]
  BY <1>2
<1> HIDE DEF after
<1>8. QED
  BY <1>6, <1>7 DEF OrderingIInv

(* Every step keeps the invariant.                                          *)
LEMMA NextOrderingIInv == OrderingIInv /\ [OrderingNext]_orderingVars => OrderingIInv'
<1> SUFFICES ASSUME OrderingIInv, [OrderingNext]_orderingVars PROVE OrderingIInv'
  OBVIOUS
<1>1. /\ solcOutput \in [1 .. Builds -> Output] /\ build \in 1 .. Builds
      /\ Builds \in Nat \ {0}
      /\ Len(solcOutput[build].linearized) \in Nat
  BY OrderingAssumption, LenProperties DEF OrderingIInv, Output
<1>2. CASE \E isMock \in BOOLEAN : Compile(isMock)
  <2>1. PICK isMock \in BOOLEAN : Compile(isMock)
    BY <1>2
  <2>2. stage = "compile" /\ UNCHANGED <<build, stage, at, graph, log, exitCode>>
    BY <2>1 DEF Compile
  <2>3. solcOutput' \in [1 .. Builds -> Output]
    BY <2>1, CompileOK
  <2>4. QED
    BY <2>2, <2>3 DEF OrderingIInv
<1>3. CASE Compiled
  <2>1. /\ stage = "compile" /\ UNCHANGED <<solcOutput, at, graph, log, exitCode>>
        /\ at = 1 /\ graph = {} /\ log = {}
    BY <1>3 DEF Compiled, OrderingIInv
  <2>2. CASE build # Builds
    <3>1. stage' = "compile" /\ build' = build + 1
      BY <1>3, <2>2 DEF Compiled
    <3>2. build' \in 1 .. Builds
      BY <1>1, <2>2, <3>1
    <3>3. QED
      BY <2>1, <3>1, <3>2 DEF OrderingIInv
  <2>3. CASE build = Builds
    <3>1. stage' = "read" /\ build' = 1 /\ 1 \in 1 .. Builds
      BY <1>1, <1>3, <2>3 DEF Compiled
    <3>2. Len(solcOutput[1].linearized) \in Nat
      BY <1>1, <3>1, LenProperties DEF Output
    <3>3. ReadChains(1, 1)' = {}
      BY DEF ReadChains
    <3>4. /\ at' \in 1 .. Len(solcOutput'[build'].linearized) + 1
          /\ graph' = UNION {Edges(chain) : chain \in ReadChains(build, at)'}
          /\ PrintedOf(1 .. build - 1)'
      BY <2>1, <3>1, <3>2, <3>3 DEF PrintedOf
    <3>5. QED
      BY <2>1, <3>1, <3>4 DEF OrderingIInv
  <2>4. QED
    BY <2>2, <2>3
<1>4. CASE ReadContract
  <2> DEFINE chain == solcOutput[build].linearized[at]
             skipped == at \in solcOutput[build].mocks
  <2>1. /\ stage = "read" /\ at <= Len(solcOutput[build].linearized) /\ at' = at + 1
        /\ graph' = IF skipped THEN graph ELSE graph \cup Edges(chain)
        /\ UNCHANGED <<solcOutput, build, stage, log, exitCode>>
    BY <1>4 DEF ReadContract, Skipped
  <2>2. /\ at \in 1 .. Len(solcOutput[build].linearized) + 1
        /\ graph = UNION {Edges(c) : c \in ReadChains(build, at)}
        /\ PrintedOf(1 .. build - 1)
    BY <2>1 DEF OrderingIInv
  <2>3. ReadChains(build, at + 1) =
          ReadChains(build, at) \cup IF skipped THEN {} ELSE {chain}
    <3>1. 1 .. at + 1 - 1 = (1 .. at - 1) \cup {at}
      BY <1>1, <2>2
    <3>2. QED
      BY <3>1 DEF ReadChains
  <2>4. graph' = UNION {Edges(c) : c \in ReadChains(build, at + 1)}
    <3> HIDE DEF chain, skipped
    <3>1. QED
      BY <2>1, <2>2, <2>3
  <2>5. ReadChains(build, at)' = ReadChains(build, at + 1)
    BY <2>1 DEF ReadChains
  <2>6. at' \in 1 .. Len(solcOutput'[build'].linearized) + 1
    BY <1>1, <2>1, <2>2
  <2>7. PrintedOf(1 .. build - 1)'
    BY <2>1, <2>2 DEF PrintedOf, Disagreed, Chains
  <2> HIDE DEF chain, skipped
  <2>8. /\ stage' = "read" /\ PrintedOf(1 .. build - 1)'
        /\ graph' = UNION {Edges(c) : c \in ReadChains(build, at)'}
    BY <2>1, <2>2, <2>4, <2>5, <2>7
  <2>9. QED
    BY <2>1, <2>6, <2>8 DEF OrderingIInv
<1>5. CASE CheckBuild
  <2>1. /\ stage = "read" /\ at > Len(solcOutput[build].linearized)
        /\ log' = log \cup {<<build, pair>> : pair \in Conflicts(graph)}
        /\ exitCode' = IF Conflicts(graph) # {} THEN 1 ELSE exitCode
        /\ graph' = {} /\ at' = 1 /\ solcOutput' = solcOutput
        /\ stage' = IF build = Builds THEN "end" ELSE "read"
        /\ build' = IF build = Builds THEN build ELSE build + 1
    BY <1>5 DEF CheckBuild
  <2>2. /\ at \in 1 .. Len(solcOutput[build].linearized) + 1
        /\ graph = UNION {Edges(c) : c \in ReadChains(build, at)}
        /\ PrintedOf(1 .. build - 1)
        /\ exitCode = IF log = {} THEN 0 ELSE 1
    BY <2>1 DEF OrderingIInv
  <2>3. ReadChains(build, at) = Chains(build)
    <3>1. at - 1 = Len(solcOutput[build].linearized)
      BY <1>1, <2>1, <2>2
    <3>2. DOMAIN solcOutput[build].linearized = 1 .. at - 1
      BY <1>1, <3>1, LenProperties DEF Output
    <3>3. QED
      BY <3>2 DEF ReadChains, Chains
  <2>4. Conflicts(graph) = Disagreed(build)
    BY <1>1, <2>2, <2>3, ConflictsAreDisagreed
  <2>5. \A entry : entry \in log' <=>
          \E b \in 1 .. build : \E pair \in Disagreed(b) : entry = <<b, pair>>
    <3>1. 1 .. build = (1 .. build - 1) \cup {build}
      BY <1>1
    <3>2. \A entry : entry \in log' <=>
            entry \in log \/ \E pair \in Disagreed(build) : entry = <<build, pair>>
      BY <2>1, <2>4
    <3>3. QED
      BY <2>2, <3>1, <3>2 DEF PrintedOf
  <2>6. exitCode' = IF log' = {} THEN 0 ELSE 1
    BY <2>1, <2>2
  <2>7. \A b : Disagreed(b)' = Disagreed(b)
    BY <2>1 DEF Disagreed, Chains
  <2>8. CASE build = Builds
    <3>1. stage' = "end" /\ build' = build
      BY <2>1, <2>8
    <3>2. PrintedOf(1 .. Builds)'
      BY <2>5, <2>7, <2>8 DEF PrintedOf
    <3>3. QED
      BY <1>1, <2>1, <2>6, <3>1, <3>2 DEF OrderingIInv
  <2>9. CASE build # Builds
    <3>1. stage' = "read" /\ build' = build + 1
      BY <2>1, <2>9
    <3>2. build' \in 1 .. Builds
      BY <1>1, <2>9, <3>1
    <3>3. PrintedOf(1 .. build - 1)'
      <4>1. 1 .. build' - 1 = 1 .. build
        BY <1>1, <3>1
      <4>2. QED
        BY <2>5, <2>7, <4>1 DEF PrintedOf
    <3>4. at' \in 1 .. Len(solcOutput'[build'].linearized) + 1
      <4>1. Len(solcOutput[build'].linearized) \in Nat
        BY <1>1, <3>2, LenProperties DEF Output
      <4>2. QED
        BY <2>1, <4>1
    <3>5. graph' = UNION {Edges(c) : c \in ReadChains(build, at)'}
      <4>1. ReadChains(build, at)' = {}
        BY <2>1 DEF ReadChains
      <4>2. QED
        BY <2>1, <4>1
    <3>6. QED
      BY <1>1, <2>1, <2>6, <3>1, <3>2, <3>3, <3>4, <3>5 DEF OrderingIInv
  <2>10. QED
    BY <2>8, <2>9
<1>6. CASE End
  <2>1. /\ stage = "end" /\ stage' = "done"
        /\ UNCHANGED <<solcOutput, build, at, graph, log, exitCode>>
    BY <1>6 DEF End
  <2>2. PrintedOf(1 .. Builds)'
    <3>1. PrintedOf(1 .. Builds)
      BY <2>1 DEF OrderingIInv
    <3>2. \A b : Disagreed(b)' = Disagreed(b)
      BY <2>1 DEF Disagreed, Chains
    <3>3. QED
      BY <2>1, <3>1, <3>2 DEF PrintedOf
  <2>3. QED
    BY <2>1, <2>2 DEF OrderingIInv
<1>7. CASE UNCHANGED orderingVars
  <2>1. UNCHANGED <<solcOutput, build, stage, at, graph, log, exitCode>>
    BY <1>7 DEF orderingVars
  <2>2. ReadChains(build, at)' = ReadChains(build, at)
    BY <2>1 DEF ReadChains
  <2>3. /\ PrintedOf(1 .. build - 1) => PrintedOf(1 .. build - 1)'
        /\ PrintedOf(1 .. Builds) => PrintedOf(1 .. Builds)'
    BY <2>1 DEF PrintedOf, Disagreed, Chains
  <2>4. QED
    BY <2>1, <2>2, <2>3 DEF OrderingIInv
<1>8. QED
  BY <1>2, <1>3, <1>4, <1>5, <1>6, <1>7 DEF OrderingNext

(* The script prints every pair that is inherited from in opposite orders,  *)
(* and no other: PairsReported.                                             *)
THEOREM PairsAreReported == OrderingSpec => []PairsReported
<1>1. OrderingIInv => PairsReported
  <2> SUFFICES ASSUME OrderingIInv, stage = "done"
               PROVE  /\ log = UNION {{<<b, pair>> : pair \in Disagreed(b)} : b \in 1 .. Builds}
                      /\ exitCode = IF log = {} THEN 0 ELSE 1
    BY DEF PairsReported
  <2>1. PrintedOf(1 .. Builds) /\ exitCode = IF log = {} THEN 0 ELSE 1
    BY DEF OrderingIInv
  <2>2. \A entry : entry \in log <=>
          entry \in UNION {{<<b, pair>> : pair \in Disagreed(b)} : b \in 1 .. Builds}
    BY <2>1 DEF PrintedOf
  <2>3. QED
    BY <2>1, <2>2
<1>2. QED
  BY <1>1, InitOrderingIInv, NextOrderingIInv, PTL DEF OrderingSpec

-----------------------------------------------------------------------------
(* The documentation branch *)

Trees == [version : DocsVersions, docs : BOOLEAN]
Commits == Seq(Trees)

\* Clones, past the start.
CloneRecords ==
  [pc : {"start", "fetch", "compare", "detach", "reset", "checkout", "commit",
         "back", "exit0", "exit1", "pushed"},
   version : DocsVersions, head : {"release", "detached", "docs"},
   release : Commits, detached : Commits, docs : Commits,
   remoteDocs : Commits, publishedRef : Commits, index : Trees]

\* Minor versions that are written with one digit, or all with two: strings
\* are then compared as numbers are.
SameDigits == Minors \subseteq 0 .. 9 \/ Minors \subseteq 10 .. 99

NotOlder(commit, version) ==
  SameDigits /\ commit # <<>> => Last(commit).version.minor <= version.minor

\* A docs branch that has, after what is published, the pages of this version.
AddsPage(docs, version, pages) ==
  /\ ~version.prerelease
  /\ \E base \in Commits :
       /\ IsPrefix(base, pages)
       /\ NotOlder(base, version)
       /\ docs = Append(base, Tree(version, TRUE))

CloneType(r) == r \in CloneRecords /\ r.release = <<Tree(r.version, FALSE)>>
HeadOK(r) == r.pc = "reset" => r.head = "detached"
IndexOK(r) ==
  r.pc \in {"start", "fetch", "compare", "detach", "reset", "checkout", "commit"}
    => r.index = Tree(r.version, FALSE)
DocsOK(r, pages) ==
  /\ IsPrefix(r.remoteDocs, pages)
  /\ IsPrefix(r.docs, pages) \/ AddsPage(r.docs, r.version, pages)
RefOK(r) ==
  /\ r.pc \notin {"start", "exit0", "exit1", "pushed"} => ~r.version.prerelease
  /\ r.pc \in {"detach", "reset", "checkout"} =>
       /\ r.publishedRef # <<>>
       /\ r.publishedRef = IF r.docs = <<>> THEN r.remoteDocs ELSE r.docs
       /\ NotOlder(r.publishedRef, r.version)
  /\ r.pc = "checkout" => r.head = "detached" /\ r.detached = r.publishedRef
  /\ r.pc = "commit" => NotOlder(r.docs, r.version)
CloneOK(r, pages) ==
  CloneType(r) /\ HeadOK(r) /\ IndexOK(r) /\ DocsOK(r, pages) /\ RefOK(r)

DocsIInv ==
  /\ publishedDocs \in Commits
  /\ \A m \in Minors : released[m] \in Seq(DocsVersions)
  /\ clone = [c \in Clones |-> clone[c]]
  /\ released = [m \in Minors |-> released[m]]
  /\ \A c \in Clones : clone[c] = [pc |-> "none"] \/ CloneOK(clone[c], publishedDocs)

\* What a step may do to what is published, where Older compares as it should.
AddsNoMoreThanAPage == SameDigits => [Site!Next]_publishedDocs

-----------------------------------------------------------------------------
(* Prefixes *)

(* A prefix is shorter, and has the same elements as far as it goes.        *)
LEMMA PrefixElements ==
  ASSUME NEW S, NEW s \in Seq(S), NEW t \in Seq(S)
  PROVE  IsPrefix(s, t) <=> /\ Len(s) <= Len(t)
                            /\ \A i \in 1 .. Len(s) : s[i] = t[i]
<1>1. CASE Len(s) <= Len(t)
  <2>1. /\ Len(s) \in Nat /\ Len(t) \in Nat
        /\ SubSeq(s, 1, Len(s)) = [i \in 1 .. Len(s) |-> s[i]]
        /\ SubSeq(t, 1, Len(s)) = [i \in 1 .. Len(s) |-> t[i]]
    BY <1>1
  <2>2. SubSeq(s, 1, Len(s)) = SubSeq(t, 1, Len(s))
          <=> \A i \in 1 .. Len(s) : s[i] = t[i]
    BY <2>1
  <2>3. QED
    BY <1>1, <2>2 DEF IsPrefix
<1>2. CASE ~(Len(s) <= Len(t))
  BY <1>2 DEF IsPrefix
<1>3. QED
  BY <1>1, <1>2

(* The empty sequence and the sequence itself are prefixes.                 *)
LEMMA PrefixEnds ==
  ASSUME NEW S, NEW s \in Seq(S)
  PROVE  IsPrefix(<<>>, s) /\ IsPrefix(s, s)
<1> DEFINE e == <<>>
<1>1. e \in Seq(S) /\ Len(e) = 0 /\ Len(s) \in Nat
  OBVIOUS
<1> HIDE DEF e
<1>2. Len(e) <= Len(s) /\ \A i \in 1 .. Len(e) : e[i] = s[i]
  BY <1>1
<1>3. IsPrefix(e, s)
  BY <1>1, <1>2, PrefixElements
<1>4. IsPrefix(s, s)
  BY <1>1, PrefixElements
<1>5. QED
  BY <1>3, <1>4 DEF e

(* A prefix of a prefix is a prefix.                                        *)
LEMMA PrefixTrans ==
  ASSUME NEW S, NEW s \in Seq(S), NEW t \in Seq(S), NEW u \in Seq(S),
         IsPrefix(s, t), IsPrefix(t, u)
  PROVE  IsPrefix(s, u)
<1>1. Len(s) \in Nat /\ Len(t) \in Nat /\ Len(u) \in Nat
  OBVIOUS
<1>2. /\ Len(s) <= Len(t) /\ \A i \in 1 .. Len(s) : s[i] = t[i]
      /\ Len(t) <= Len(u) /\ \A i \in 1 .. Len(t) : t[i] = u[i]
  BY PrefixElements
<1>3. Len(s) <= Len(u) /\ \A i \in 1 .. Len(s) : s[i] = u[i]
  BY <1>1, <1>2
<1>4. QED
  BY <1>3, PrefixElements

(* Two sequences that are prefixes of each other are one.                   *)
LEMMA PrefixBoth ==
  ASSUME NEW S, NEW s \in Seq(S), NEW t \in Seq(S), IsPrefix(s, t), IsPrefix(t, s)
  PROVE  s = t
<1>1. Len(s) \in Nat /\ Len(t) \in Nat
  OBVIOUS
<1>2. /\ Len(s) <= Len(t) /\ \A i \in 1 .. Len(s) : s[i] = t[i]
      /\ Len(t) <= Len(s)
  BY PrefixElements
<1>3. Len(s) = Len(t)
  BY <1>1, <1>2
<1>4. QED
  BY <1>2, <1>3, SeqEqual

(* What is a prefix after an element is appended was one before, or is all. *)
LEMMA PrefixOfAppended ==
  ASSUME NEW S, NEW s \in Seq(S), NEW t \in Seq(S), NEW x \in S,
         IsPrefix(s, Append(t, x))
  PROVE  IsPrefix(s, t) \/ s = Append(t, x)
<1> DEFINE u == Append(t, x)
<1>1. /\ u \in Seq(S) /\ Len(u) = Len(t) + 1
      /\ \A i \in 1 .. Len(t) : u[i] = t[i]
      /\ Len(s) \in Nat /\ Len(t) \in Nat
  BY AppendProperties
<1>2. IsPrefix(s, u)
  OBVIOUS
<1> HIDE DEF u
<1>3. Len(s) <= Len(u) /\ \A i \in 1 .. Len(s) : s[i] = u[i]
  BY <1>1, <1>2, PrefixElements
<1>4. CASE Len(s) <= Len(t)
  <2>1. \A i \in 1 .. Len(s) : s[i] = t[i]
    BY <1>1, <1>3, <1>4
  <2>2. QED
    BY <1>4, <2>1, PrefixElements
<1>5. CASE Len(s) = Len(u)
  BY <1>1, <1>3, <1>5, SeqEqual DEF u
<1>6. QED
  BY <1>1, <1>3, <1>4, <1>5

(* What is not empty and a prefix shows the other is not empty.             *)
LEMMA PrefixOfEmpty ==
  ASSUME NEW S, NEW s \in Seq(S), IsPrefix(s, <<>>)
  PROVE  s = <<>>
BY PrefixEnds, PrefixBoth, <<>> \in Seq(S)

-----------------------------------------------------------------------------
(* Clones *)

(* Where Older says no, the minor version is at least the published one.    *)
LEMMA OlderCompares ==
  ASSUME SameDigits, NEW m \in Minors, NEW n \in Minors, ~Older(m, n)
  PROVE  n <= m
<1> SUFFICES ASSUME m < n PROVE FALSE
  BY DEF SameDigits
<1>1. CASE Minors \subseteq 0 .. 9
  <2>1. Digits(m) = <<m>> /\ Digits(n) = <<n>>
    BY <1>1 DEF Digits
  <2>2. SmallerString(<<m>>, <<n>>)
    <3> DEFINE a == <<m>>
               x == <<n>>
    <3>1. /\ 1 \in DOMAIN a \cap DOMAIN x
          /\ a[1] < x[1]
          /\ \A j \in 1 .. 1 - 1 : a[j] = x[j]
      OBVIOUS
    <3> HIDE DEF a, x
    <3>2. SmallerString(a, x)
      BY <3>1 DEF SmallerString
    <3>3. QED
      BY <3>2 DEF a, x
  <2>3. QED
    BY <2>1, <2>2 DEF Older
<1>2. CASE Minors \subseteq 10 .. 99
  <2>1. Digits(m) = <<m \div 10, m % 10>> /\ Digits(n) = <<n \div 10, n % 10>>
    BY <1>2 DEF Digits
  <2>2. m \div 10 < n \div 10 \/ (m \div 10 = n \div 10 /\ m % 10 < n % 10)
    BY <1>2
  <2>3. SmallerString(<<m \div 10, m % 10>>, <<n \div 10, n % 10>>)
    <3> DEFINE a == m \div 10
               b == m % 10
               x == n \div 10
               y == n % 10
    <3>1. a < x \/ (a = x /\ b < y)
      BY <2>2
    <3> HIDE DEF a, b, x, y
    <3>2. SmallerString(<<a, b>>, <<x, y>>)
      <4>1. CASE a < x
        <5>1. <<a, b>>[1] < <<x, y>>[1]
          BY <4>1
        <5>2. QED
          BY <5>1 DEF SmallerString
      <4>2. CASE a = x /\ b < y
        <5>1. /\ <<a, b>>[2] < <<x, y>>[2]
              /\ \A j \in 1 .. 2 - 1 : <<a, b>>[j] = <<x, y>>[j]
          BY <4>2
        <5>2. QED
          BY <5>1 DEF SmallerString
      <4>3. QED
        BY <3>1, <4>1, <4>2
    <3>3. QED
      BY <3>2 DEF a, b, x, y
  <2>4. QED
    BY <2>1, <2>3 DEF Older
<1>3. QED
  BY <1>1, <1>2 DEF SameDigits

(* The tree of a version of the sources, and its last in a commit.          *)
LEMMA TreeType ==
  ASSUME NEW version \in DocsVersions, NEW b \in BOOLEAN
  PROVE  /\ Tree(version, b) \in Trees
         /\ <<Tree(version, b)>> \in Commits
         /\ Last(<<Tree(version, b)>>) = Tree(version, b)
BY DEF Tree, Trees, Commits, Last

(* The last tree of a commit is a tree.                                     *)
LEMMA LastType ==
  ASSUME NEW commit \in Commits, commit # <<>>
  PROVE  Last(commit) \in Trees
<1>1. Len(commit) \in 1 .. Len(commit)
  BY EmptySeq DEF Commits
<1>2. QED
  BY <1>1, ElementOfSeq DEF Last, Commits

(* A fresh clone is as it should be.                                        *)
LEMMA FreshOK ==
  ASSUME NEW version \in DocsVersions, NEW pages \in Commits
  PROVE  CloneOK(FreshClone(version), pages)
<1> DEFINE r == FreshClone(version)
<1>1. /\ r.pc = "start" /\ r.version = version /\ r.head = "release"
      /\ r.release = <<Tree(version, FALSE)>> /\ r.index = Tree(version, FALSE)
      /\ r.docs = <<>> /\ r.remoteDocs = <<>>
  BY DEF FreshClone
<1>2. r \in CloneRecords
  BY TreeType, <<>> \in Commits DEF FreshClone, CloneRecords, Commits
<1>3. IsPrefix(<<>>, pages)
  BY PrefixEnds DEF Commits
<1> HIDE DEF r
<1>4. CloneOK(r, pages)
  BY <1>1, <1>2, <1>3 DEF CloneOK, CloneType, HeadOK, IndexOK, DocsOK, RefOK
<1>5. QED
  BY <1>4 DEF r

(* Pages that are published later leave a clone as it should be.            *)
LEMMA PagesGrow ==
  ASSUME NEW pages \in Commits, NEW later \in Commits, IsPrefix(pages, later),
         NEW r, CloneOK(r, pages)
  PROVE  CloneOK(r, later)
<1>1. /\ r.remoteDocs \in Commits /\ r.docs \in Commits
      /\ IsPrefix(r.remoteDocs, pages)
      /\ IsPrefix(r.docs, pages) \/ AddsPage(r.docs, r.version, pages)
  BY DEF CloneOK, CloneType, CloneRecords, DocsOK
<1>2. IsPrefix(r.remoteDocs, later)
  BY <1>1, PrefixTrans DEF Commits
<1>3. CASE IsPrefix(r.docs, pages)
  <2>1. IsPrefix(r.docs, later)
    BY <1>1, <1>3, PrefixTrans DEF Commits
  <2>2. QED
    BY <1>2, <2>1 DEF CloneOK, DocsOK
<1>4. CASE AddsPage(r.docs, r.version, pages)
  <2>1. PICK base \in Commits :
          /\ IsPrefix(base, pages)
          /\ NotOlder(base, r.version)
          /\ r.docs = Append(base, Tree(r.version, TRUE))
    BY <1>4 DEF AddsPage
  <2>2. IsPrefix(base, later)
    BY <2>1, PrefixTrans DEF Commits
  <2>3. AddsPage(r.docs, r.version, later)
    BY <1>4, <2>1, <2>2 DEF AddsPage
  <2>4. QED
    BY <1>2, <2>3 DEF CloneOK, DocsOK
<1>5. QED
  BY <1>1, <1>3, <1>4

-----------------------------------------------------------------------------
(* The commands of the script *)

\* What commands make of a clone.
Fetched(r, pages) == [r EXCEPT !.pc = "compare", !.remoteDocs = pages]
Orphaned(r) == [r EXCEPT !.pc = "commit", !.head = "docs"]
Matched(r, ref) == [r EXCEPT !.pc = "detach", !.publishedRef = ref]
CheckedOut(r, docs, from) ==
  [r EXCEPT !.pc = "commit", !.head = "docs", !.docs = docs,
            !.index = IF from = docs THEN @ ELSE Last(docs)]
Committed(r, tree) ==
  IF r.docs # <<>> /\ tree = Last(r.docs)
    THEN [r EXCEPT !.pc = "exit1", !.index = tree]
    ELSE [r EXCEPT !.pc = "back", !.index = tree, !.docs = Append(r.docs, tree)]
HasPushed(r) == [r EXCEPT !.pc = "pushed", !.remoteDocs = r.docs]

(* A clone whose branches stay, and that goes where nothing is expected of  *)
(* it, stays as it should be.                                               *)
LEMMA StoppedOK ==
  ASSUME NEW pages \in Commits, NEW r, CloneOK(r, pages),
         NEW pc \in {"exit0", "exit1", "pushed"},
         NEW q, q = [r EXCEPT !.pc = pc]
  PROVE  CloneOK(q, pages)
<1>1. /\ q \in CloneRecords /\ q.pc = pc /\ q.version = r.version
      /\ q.release = r.release /\ q.docs = r.docs /\ q.remoteDocs = r.remoteDocs
  BY DEF CloneOK, CloneType, CloneRecords
<1>2. QED
  BY <1>1 DEF CloneOK, CloneType, HeadOK, IndexOK, DocsOK, RefOK

(* Back on the release branch, the script may start again.                  *)
LEMMA BackOK ==
  ASSUME NEW pages \in Commits, NEW r, CloneOK(r, pages),
         NEW pc \in {"start", "exit0"},
         NEW q, q = [OnRelease(r) EXCEPT !.pc = pc]
  PROVE  CloneOK(q, pages)
<1>1. r \in CloneRecords /\ r.release = <<Tree(r.version, FALSE)>>
  BY DEF CloneOK, CloneType
<1>2. r.version \in DocsVersions /\ Last(r.release) = Tree(r.version, FALSE)
  BY <1>1, TreeType DEF CloneRecords
<1>3. Tree(r.version, FALSE) \in Trees
  BY <1>2, TreeType
<1>4. OnRelease(r) = [r EXCEPT !.head = "release", !.index = Tree(r.version, FALSE)]
  BY <1>2 DEF OnRelease
<1>5. /\ q \in CloneRecords /\ q.pc = pc /\ q.version = r.version
      /\ q.release = r.release /\ q.docs = r.docs /\ q.remoteDocs = r.remoteDocs
      /\ q.index = Tree(r.version, FALSE)
  BY <1>1, <1>3, <1>4 DEF CloneRecords
<1>6. QED
  BY <1>5 DEF CloneOK, CloneType, HeadOK, IndexOK, DocsOK, RefOK

(* A start and a fetch.                                                     *)
LEMMA StartOK ==
  ASSUME NEW pages \in Commits, NEW r, CloneOK(r, pages), r.pc = "start",
         ~r.version.prerelease,
         NEW q, q = [r EXCEPT !.pc = "fetch"]
  PROVE  CloneOK(q, pages)
<1>1. /\ q \in CloneRecords /\ q.pc = "fetch" /\ q.version = r.version
      /\ q.release = r.release /\ q.docs = r.docs /\ q.remoteDocs = r.remoteDocs
      /\ q.index = r.index
  BY DEF CloneOK, CloneType, CloneRecords
<1>2. QED
  BY <1>1 DEF CloneOK, CloneType, HeadOK, IndexOK, DocsOK, RefOK

(* What is fetched is what is published.                                    *)
LEMMA FetchOK ==
  ASSUME NEW pages \in Commits, NEW r, CloneOK(r, pages), r.pc = "fetch",
         NEW q, q = Fetched(r, pages)
  PROVE  CloneOK(q, pages)
<1>1. /\ q \in CloneRecords /\ q.pc = "compare" /\ q.version = r.version
      /\ q.release = r.release /\ q.docs = r.docs /\ q.remoteDocs = pages
      /\ q.index = r.index
  BY DEF CloneOK, CloneType, CloneRecords, Fetched
<1>2. IsPrefix(pages, pages)
  BY PrefixEnds DEF Commits
<1>3. QED
  BY <1>1, <1>2 DEF CloneOK, CloneType, HeadOK, IndexOK, DocsOK, RefOK

(* The script goes on without a docs branch.                                *)
LEMMA OrphanOK ==
  ASSUME NEW pages \in Commits, NEW r, CloneOK(r, pages), r.pc = "compare",
         r.docs = <<>>,
         NEW q, q = Orphaned(r)
  PROVE  CloneOK(q, pages)
<1>1. /\ q \in CloneRecords /\ q.pc = "commit" /\ q.version = r.version
      /\ q.release = r.release /\ q.docs = r.docs /\ q.remoteDocs = r.remoteDocs
      /\ q.index = r.index
  BY DEF CloneOK, CloneType, CloneRecords, Orphaned
<1>2. QED
  BY <1>1 DEF CloneOK, CloneType, HeadOK, IndexOK, DocsOK, RefOK, NotOlder

(* It goes on with the one that matches, whose minor version is no newer.   *)
LEMMA MatchOK ==
  ASSUME NEW pages \in Commits, NEW r, CloneOK(r, pages), r.pc = "compare",
         NEW ref, ref # <<>>, NotOlder(ref, r.version),
         ref = IF r.docs = <<>> THEN r.remoteDocs ELSE r.docs,
         NEW q, q = Matched(r, ref)
  PROVE  CloneOK(q, pages)
<1>1. /\ q \in CloneRecords /\ q.pc = "detach" /\ q.version = r.version
      /\ q.release = r.release /\ q.docs = r.docs /\ q.remoteDocs = r.remoteDocs
      /\ q.index = r.index /\ q.publishedRef = ref
  BY DEF CloneOK, CloneType, CloneRecords, Matched
<1>2. QED
  BY <1>1 DEF CloneOK, CloneType, HeadOK, IndexOK, DocsOK, RefOK

(* Of the docs branches of a clone and of the origin, where no more than    *)
(* one matches, it is the clone's if there is one.                          *)
LEMMA OneMatches ==
  ASSUME NEW d, NEW e,
         NEW refs, refs = {d, e} \ {<<>>}, refs # {}, ~(Cardinality(refs) > 1)
  PROVE  /\ (CHOOSE ref \in refs : TRUE) # <<>>
         /\ (CHOOSE ref \in refs : TRUE) = IF d = <<>> THEN e ELSE d
<1>1. CASE d # <<>> /\ e # <<>> /\ d # e
  <2> DEFINE D == {d}
  <2>1. refs = D \cup {e} /\ e \notin D
    BY <1>1
  <2>2. IsFiniteSet(D) /\ Cardinality(D) = 1
    BY FS_Singleton
  <2> HIDE DEF D
  <2>3. Cardinality(D \cup {e}) = 2
    BY <2>1, <2>2, FS_AddElement
  <2>4. QED
    BY <2>1, <2>3
<1>2. CASE ~(d # <<>> /\ e # <<>> /\ d # e)
  <2>1. refs = {IF d = <<>> THEN e ELSE d}
    BY <1>2
  <2>2. QED
    BY <2>1
<1>3. QED
  BY <1>1, <1>2

(* Detached from the release branch, the script resets no branch.           *)
LEMMA DetachOK ==
  ASSUME NEW pages \in Commits, NEW r, CloneOK(r, pages), r.pc = "detach",
         NEW q, q = [Detached(r) EXCEPT !.pc = "reset"]
  PROVE  CloneOK(q, pages)
<1>1. /\ q \in CloneRecords /\ q.pc = "reset" /\ q.version = r.version
      /\ q.release = r.release /\ q.docs = r.docs /\ q.remoteDocs = r.remoteDocs
      /\ q.index = r.index /\ q.publishedRef = r.publishedRef
      /\ q.head = "detached"
  BY DEF CloneOK, CloneType, CloneRecords, Detached
<1>2. QED
  BY <1>1 DEF CloneOK, CloneType, HeadOK, IndexOK, DocsOK, RefOK

(* The reset moves the detached HEAD.                                       *)
LEMMA ResetOK ==
  ASSUME NEW pages \in Commits, NEW r, CloneOK(r, pages), r.pc = "reset",
         NEW q, q = [Reset(r) EXCEPT !.pc = "checkout"]
  PROVE  CloneOK(q, pages)
<1>1. Reset(r) = [r EXCEPT !.detached = r.publishedRef]
  BY DEF CloneOK, HeadOK, Reset
<1>2. /\ q \in CloneRecords /\ q.pc = "checkout" /\ q.version = r.version
      /\ q.release = r.release /\ q.docs = r.docs /\ q.remoteDocs = r.remoteDocs
      /\ q.index = r.index /\ q.publishedRef = r.publishedRef
      /\ q.detached = r.publishedRef /\ q.head = r.head
  BY <1>1 DEF CloneOK, CloneType, CloneRecords
<1>3. QED
  BY <1>2 DEF CloneOK, CloneType, HeadOK, IndexOK, DocsOK, RefOK

(* On the docs branch, the index still has the sources of the release.      *)
LEMMA CheckoutOK ==
  ASSUME NEW pages \in Commits, NEW r, CloneOK(r, pages), r.pc = "checkout",
         NEW docs, docs = IF r.docs = <<>> THEN r.remoteDocs ELSE r.docs,
         NEW from, from = IF r.head = "release" THEN r.release ELSE r.detached,
         NEW q, q = CheckedOut(r, docs, from)
  PROVE  CloneOK(q, pages)
<1>1. from = docs /\ docs \in Commits /\ NotOlder(docs, r.version)
  BY DEF CloneOK, CloneType, CloneRecords, RefOK
<1>2. /\ q \in CloneRecords /\ q.pc = "commit" /\ q.version = r.version
      /\ q.release = r.release /\ q.docs = docs /\ q.remoteDocs = r.remoteDocs
      /\ q.index = r.index
  BY <1>1 DEF CloneOK, CloneType, CloneRecords, CheckedOut
<1>3. QED
  BY <1>1, <1>2 DEF CloneOK, CloneType, HeadOK, IndexOK, DocsOK, RefOK

(* A commit adds the page of this version to what was published, or fails.  *)
LEMMA CommitOK ==
  ASSUME NEW pages \in Commits, NEW r, CloneOK(r, pages), r.pc = "commit",
         NEW tree, tree = Tree(r.index.version, TRUE),
         NEW q, q = Committed(r, tree)
  PROVE  CloneOK(q, pages)
<1>1. /\ r \in CloneRecords /\ r.version \in DocsVersions /\ r.docs \in Commits
      /\ r.index = Tree(r.version, FALSE)
      /\ ~r.version.prerelease /\ NotOlder(r.docs, r.version)
  BY DEF CloneOK, CloneType, CloneRecords, IndexOK, RefOK
<1>2. tree = Tree(r.version, TRUE) /\ tree \in Trees
  <2>1. r.index.version = r.version
    BY <1>1 DEF Tree
  <2>2. Tree(r.version, TRUE) \in Trees
    BY <1>1, TreeType
  <2>3. QED
    BY <2>1, <2>2
<1>3. CASE r.docs # <<>> /\ tree = Last(r.docs)
  <2>1. /\ q \in CloneRecords /\ q.pc = "exit1" /\ q.version = r.version
        /\ q.release = r.release /\ q.docs = r.docs /\ q.remoteDocs = r.remoteDocs
    BY <1>1, <1>2, <1>3 DEF CloneRecords, Committed
  <2>2. QED
    BY <2>1 DEF CloneOK, CloneType, HeadOK, IndexOK, DocsOK, RefOK
<1>4. CASE ~(r.docs # <<>> /\ tree = Last(r.docs))
  <2> DEFINE docs == Append(r.docs, tree)
  <2>1. IsPrefix(r.docs, pages)
    <3>1. SUFFICES ASSUME AddsPage(r.docs, r.version, pages) PROVE FALSE
      BY DEF CloneOK, DocsOK
    <3>2. PICK base \in Commits : r.docs = Append(base, tree)
      BY <1>2, <3>1 DEF AddsPage
    <3>3. /\ Append(base, tree) # <<>>
          /\ Len(Append(base, tree)) = Len(base) + 1
          /\ Append(base, tree)[Len(base) + 1] = tree
      BY <1>2, AppendProperties DEF Commits
    <3>4. QED
      BY <1>4, <3>2, <3>3 DEF Last
  <2>2. docs \in Commits
    BY <1>1, <1>2, AppendProperties DEF Commits
  <2>3. AddsPage(docs, r.version, pages)
    BY <1>1, <1>2, <2>1 DEF AddsPage
  <2>4. /\ q \in CloneRecords /\ q.pc = "back" /\ q.version = r.version
        /\ q.release = r.release /\ q.docs = docs /\ q.remoteDocs = r.remoteDocs
    BY <1>1, <1>2, <1>4, <2>2 DEF CloneRecords, Committed
  <2>5. CloneOK(r, pages)
    OBVIOUS
  <2> HIDE DEF docs
  <2>6. QED
    BY <1>1, <2>3, <2>4, <2>5
    DEF CloneOK, CloneType, HeadOK, IndexOK, DocsOK, RefOK
<1>5. QED
  BY <1>3, <1>4

-----------------------------------------------------------------------------
(* The origin *)

(* What a clone can push is what is published, or adds one page to it.      *)
LEMMA PushAddsPage ==
  ASSUME NEW pages \in Commits, NEW r, CloneOK(r, pages),
         r.docs # <<>>, IsPrefix(pages, r.docs)
  PROVE  \/ r.docs = pages
         \/ /\ ~r.version.prerelease /\ NotOlder(pages, r.version)
            /\ r.docs = Append(pages, Tree(r.version, TRUE))
<1>1. /\ r.docs \in Commits /\ r.version \in DocsVersions
      /\ IsPrefix(r.docs, pages) \/ AddsPage(r.docs, r.version, pages)
  BY DEF CloneOK, CloneType, CloneRecords, DocsOK
<1>2. CASE IsPrefix(r.docs, pages)
  BY <1>1, <1>2, PrefixBoth DEF Commits
<1>3. CASE AddsPage(r.docs, r.version, pages)
  <2>1. PICK base \in Commits :
          /\ IsPrefix(base, pages)
          /\ NotOlder(base, r.version)
          /\ r.docs = Append(base, Tree(r.version, TRUE))
    BY <1>3 DEF AddsPage
  <2> DEFINE page == Tree(r.version, TRUE)
  <2>2. IsPrefix(pages, base) \/ pages = r.docs
    <3>1. page \in Trees
      BY <1>1, TreeType
    <3>2. IsPrefix(pages, Append(base, page))
      BY <2>1
    <3> HIDE DEF page
    <3>3. IsPrefix(pages, base) \/ pages = Append(base, page)
      BY <3>1, <3>2, PrefixOfAppended DEF Commits
    <3>4. QED
      BY <2>1, <3>3 DEF page
  <2>3. IsPrefix(pages, base) => pages = base
    BY <2>1, PrefixBoth DEF Commits
  <2>4. QED
    BY <1>3, <2>1, <2>2, <2>3 DEF AddsPage
<1>4. QED
  BY <1>1, <1>2, <1>3

(* A clone that has pushed is as it should be.                              *)
LEMMA PushedOK ==
  ASSUME NEW pages \in Commits, NEW r, CloneOK(r, pages),
         r.docs # <<>>, IsPrefix(pages, r.docs),
         NEW q, q = HasPushed(r)
  PROVE  r.docs \in Commits /\ CloneOK(q, r.docs)
<1>1. /\ q \in CloneRecords /\ q.pc = "pushed" /\ q.version = r.version
      /\ q.release = r.release /\ q.docs = r.docs /\ q.remoteDocs = r.docs
      /\ r.docs \in Commits
  BY DEF CloneOK, CloneType, CloneRecords, HasPushed
<1>2. IsPrefix(r.docs, r.docs)
  BY <1>1, PrefixEnds DEF Commits
<1>3. r.release = <<Tree(r.version, FALSE)>>
  BY DEF CloneOK, CloneType
<1>4. QED
  BY <1>1, <1>2, <1>3 DEF CloneOK, CloneType, HeadOK, IndexOK, DocsOK, RefOK

-----------------------------------------------------------------------------
(* The invariant *)

(* No clone and nothing published at first.                                 *)
LEMMA InitDocsIInv == DocsInit => DocsIInv
<1> SUFFICES ASSUME DocsInit PROVE DocsIInv
  OBVIOUS
<1>1. publishedDocs = <<>> /\ <<>> \in Commits /\ <<>> \in Seq(DocsVersions)
  BY DEF DocsInit, Commits
<1>2. \A c \in Clones : clone[c] = [pc |-> "none"]
  BY DEF DocsInit
<1>3. QED
  BY <1>1, <1>2 DEF DocsInit, DocsIInv

(* A step of one clone.                                                     *)
LEMMA OneClone ==
  ASSUME DocsIInv, NEW c \in Clones, NEW r, CloneOK(r, publishedDocs),
         clone' = [clone EXCEPT ![c] = r], publishedDocs' = publishedDocs,
         released' = released
  PROVE  DocsIInv'
<1>1. /\ clone' = [d \in Clones |-> clone'[d]]
      /\ clone'[c] = r /\ \A d \in Clones \ {c} : clone'[d] = clone[d]
  BY DEF DocsIInv
<1>2. \A d \in Clones :
        clone'[d] = [pc |-> "none"] \/ CloneOK(clone'[d], publishedDocs')
  BY <1>1 DEF DocsIInv
<1>3. QED
  BY <1>1, <1>2 DEF DocsIInv

(* A clone that is past the start is as it should be.                       *)
LEMMA ClonePast ==
  ASSUME DocsIInv, NEW c \in Clones, clone[c].pc # "none"
  PROVE  CloneOK(clone[c], publishedDocs) /\ clone[c] \in CloneRecords
<1>1. clone[c] = [pc |-> "none"] \/ CloneOK(clone[c], publishedDocs)
  BY DEF DocsIInv
<1>2. CloneOK(clone[c], publishedDocs)
  BY <1>1
<1>3. QED
  BY <1>2 DEF CloneOK, CloneType

(* The next version of a branch, within the bound, is a version.            *)
LEMMA NextVersionType ==
  ASSUME DocsIInv, NEW m \in Minors, NextVersion(m).patch <= MaxPatch
  PROVE  NextVersion(m) \in DocsVersions
<1>1. CASE released[m] = <<>>
  <2>1. NextVersion(m) = [minor |-> m, patch |-> 0, prerelease |-> TRUE]
    BY <1>1 DEF NextVersion
  <2>2. QED
    BY <2>1, DocsAssumption DEF DocsVersions
<1>2. CASE released[m] # <<>>
  <2> DEFINE last == Last(released[m])
  <2>1. released[m] \in Seq(DocsVersions)
    BY DEF DocsIInv
  <2>2. Len(released[m]) \in 1 .. Len(released[m])
    BY <1>2, <2>1, EmptySeq
  <2>3. last \in DocsVersions
    BY <2>1, <2>2, ElementOfSeq DEF Last
  <2> HIDE DEF last
  <2>4. NextVersion(m) =
          IF last.prerelease THEN [minor |-> m, patch |-> 0, prerelease |-> FALSE]
          ELSE [minor |-> m, patch |-> last.patch + 1, prerelease |-> FALSE]
    BY <1>2 DEF NextVersion, last
  <2>5. CASE last.prerelease
    BY <2>4, <2>5, DocsAssumption DEF DocsVersions
  <2>6. CASE ~last.prerelease
    <3>1. NextVersion(m) = [minor |-> m, patch |-> last.patch + 1,
                            prerelease |-> FALSE]
      BY <2>4, <2>6
    <3>2. last.patch \in 0 .. MaxPatch /\ last.patch + 1 <= MaxPatch
      BY <2>3, <3>1 DEF DocsVersions
    <3>3. QED
      BY <3>1, <3>2, DocsAssumption DEF DocsVersions
  <2>7. QED
    BY <2>5, <2>6
<1>3. QED
  BY <1>1, <1>2

(* A release adds its version to its branch, and a clone is made of it.     *)
LEMMA ReleaseOK ==
  ASSUME DocsIInv, NEW c \in Clones, NEW m \in Minors, Release(c, m)
  PROVE  DocsIInv'
<1> DEFINE version == NextVersion(m)
           r == FreshClone(version)
<1>1. /\ version.patch <= MaxPatch
      /\ released' = [released EXCEPT ![m] = Append(@, version)]
      /\ clone' = [clone EXCEPT ![c] = r]
      /\ publishedDocs' = publishedDocs
  BY DEF Release
<1>2. version \in DocsVersions
  BY <1>1, NextVersionType
<1>3. publishedDocs \in Commits
  BY DEF DocsIInv
<1>4. CloneOK(r, publishedDocs)
  BY <1>2, <1>3, FreshOK
<1> HIDE DEF version, r
<1>5. /\ clone' = [d \in Clones |-> clone'[d]]
      /\ clone'[c] = r /\ \A d \in Clones \ {c} : clone'[d] = clone[d]
  BY <1>1 DEF DocsIInv
<1>6. \A d \in Clones :
        clone'[d] = [pc |-> "none"] \/ CloneOK(clone'[d], publishedDocs')
  BY <1>1, <1>4, <1>5 DEF DocsIInv
<1>7. /\ released' = [n \in Minors |-> released'[n]]
      /\ \A n \in Minors : released'[n] \in Seq(DocsVersions)
  BY <1>1, <1>2, AppendProperties DEF DocsIInv
<1>8. QED
  BY <1>1, <1>3, <1>5, <1>6, <1>7 DEF DocsIInv

(* The commands that look at what is published.                             *)
LEMMA CompareOK ==
  ASSUME DocsIInv, NEW c \in Clones, Compare(c)
  PROVE  DocsIInv'
<1> DEFINE r == clone[c]
           refs == {r.docs, r.remoteDocs} \ {<<>>}
           ref == CHOOSE x \in refs : TRUE
           older == Older(r.version.minor, Last(ref).version.minor)
           q == IF refs = {}
                  THEN [r EXCEPT !.pc = "commit", !.head = "docs"]
                ELSE IF Cardinality(refs) > 1 THEN [r EXCEPT !.pc = "exit1"]
                ELSE IF older THEN [r EXCEPT !.pc = "exit0"]
                ELSE [r EXCEPT !.pc = "detach", !.publishedRef = ref]
<1>1. /\ r.pc = "compare" /\ clone' = [clone EXCEPT ![c] = q]
      /\ released' = released /\ publishedDocs' = publishedDocs
  BY DEF Compare, Command, MatchingDocsBranches
<1>2. CloneOK(r, publishedDocs) /\ r \in CloneRecords
  BY <1>1, ClonePast
<1>3. publishedDocs \in Commits
  BY DEF DocsIInv
<1>4. CASE refs = {}
  <2>1. r.docs = <<>>
    BY <1>4
  <2>2. q = Orphaned(r)
    BY <1>4 DEF Orphaned
  <2> HIDE DEF r, q
  <2>3. CloneOK(q, publishedDocs)
    BY <1>1, <1>2, <1>3, <2>1, <2>2, OrphanOK
  <2>4. QED
    BY <1>1, <2>3, OneClone
<1>5. CASE refs # {} /\ (Cardinality(refs) > 1 \/ older)
  <2>1. q = [r EXCEPT !.pc = "exit1"] \/ q = [r EXCEPT !.pc = "exit0"]
    BY <1>5
  <2> HIDE DEF r, q
  <2>2. CloneOK(q, publishedDocs)
    BY <1>2, <1>3, <2>1, StoppedOK
  <2>3. QED
    BY <1>1, <2>2, OneClone
<1>6. CASE refs # {} /\ ~(Cardinality(refs) > 1) /\ ~older
  <2>1. ref # <<>> /\ ref = IF r.docs = <<>> THEN r.remoteDocs ELSE r.docs
    BY <1>6, OneMatches
  <2>2. ref \in Commits /\ r.version \in DocsVersions
    BY <1>2, <2>1 DEF CloneRecords
  <2>3. Last(ref) \in Trees
    BY <2>1, <2>2, LastType
  <2>4. Last(ref).version.minor \in Minors /\ r.version.minor \in Minors
    BY <2>2, <2>3 DEF Trees, DocsVersions
  <2>5. NotOlder(ref, r.version)
    BY <1>6, <2>4, OlderCompares DEF NotOlder
  <2>6. q = Matched(r, ref)
    BY <1>6 DEF Matched
  <2> HIDE DEF r, q, ref
  <2>7. CloneOK(q, publishedDocs)
    BY <1>1, <1>2, <1>3, <2>1, <2>5, <2>6, MatchOK
  <2>8. QED
    BY <1>1, <2>7, OneClone
<1>7. QED
  BY <1>4, <1>5, <1>6

(* A push, and what it does to what is published.                           *)
LEMMA PushOK ==
  ASSUME DocsIInv, NEW c \in Clones, Push(c)
  PROVE  DocsIInv' /\ AddsNoMoreThanAPage
<1> DEFINE r == clone[c]
           accepted == r.docs # <<>> /\ IsPrefix(publishedDocs, r.docs)
<1>1. /\ r.pc = "exit0" /\ released' = released
      /\ publishedDocs' = IF accepted THEN r.docs ELSE publishedDocs
      /\ clone' = [clone EXCEPT ![c].pc = IF accepted \/ r.docs = <<>>
                                            THEN "pushed" ELSE "exit1",
                                ![c].remoteDocs = IF accepted THEN r.docs ELSE @]
  BY DEF Push
<1>2. CloneOK(r, publishedDocs) /\ r \in CloneRecords /\ r.version \in DocsVersions
  BY <1>1, ClonePast DEF CloneRecords
<1>3. publishedDocs \in Commits /\ clone = [d \in Clones |-> clone[d]]
  BY DEF DocsIInv
<1>4. CASE accepted
  <2> DEFINE q == HasPushed(r)
  <2>1. clone' = [clone EXCEPT ![c] = q] /\ publishedDocs' = r.docs
    BY <1>1, <1>3, <1>4 DEF HasPushed
  <2> HIDE DEF r
  <2>2. r.docs \in Commits /\ CloneOK(q, r.docs)
    BY <1>2, <1>3, <1>4, PushedOK
  <2> HIDE DEF q
  <2>3. /\ clone' = [d \in Clones |-> clone'[d]]
        /\ clone'[c] = q /\ \A d \in Clones \ {c} : clone'[d] = clone[d]
    BY <1>3, <2>1
  <2>4. \A d \in Clones :
          clone'[d] = [pc |-> "none"] \/ CloneOK(clone'[d], publishedDocs')
    <3>1. TAKE d \in Clones
    <3>2. CASE d = c
      BY <2>1, <2>2, <2>3, <3>2
    <3>3. CASE d # c /\ clone[d] = [pc |-> "none"]
      BY <2>3, <3>3
    <3>4. CASE d # c /\ CloneOK(clone[d], publishedDocs)
      BY <1>3, <1>4, <2>1, <2>2, <2>3, <3>4, PagesGrow
    <3>5. QED
      BY <3>2, <3>3, <3>4 DEF DocsIInv
  <2>5. DocsIInv'
    BY <1>1, <2>1, <2>2, <2>3, <2>4 DEF DocsIInv
  <2>6. \/ r.docs = publishedDocs
        \/ /\ ~r.version.prerelease /\ NotOlder(publishedDocs, r.version)
           /\ r.docs = Append(publishedDocs, Tree(r.version, TRUE))
    BY <1>2, <1>3, <1>4, PushAddsPage
  <2>7. QED
    BY <1>2, <2>1, <2>5, <2>6
    DEF AddsNoMoreThanAPage, Site!Next, Site!Publish, Site!Page, NotOlder, Tree, Last
<1>5. CASE ~accepted
  <2> DEFINE pc == IF r.docs = <<>> THEN "pushed" ELSE "exit1"
             q == [r EXCEPT !.pc = pc]
  <2>1. q = [r EXCEPT !.pc = pc, !.remoteDocs = r.remoteDocs]
    BY <1>2 DEF CloneRecords
  <2>2. clone' = [clone EXCEPT ![c] = q] /\ publishedDocs' = publishedDocs
    BY <1>1, <1>3, <1>5, <2>1
  <2> HIDE DEF r
  <2>3. CloneOK(q, publishedDocs)
    BY <1>2, <1>3, StoppedOK
  <2> HIDE DEF q
  <2>4. QED
    BY <1>1, <2>2, <2>3, OneClone DEF AddsNoMoreThanAPage
<1>6. QED
  BY <1>4, <1>5

(* Every step of a job keeps the invariant.                                 *)
LEMMA CommandOK ==
  ASSUME DocsIInv, NEW c \in Clones,
         \/ StartScript(c) \/ Fetch(c) \/ Detach(c) \/ ResetSoft(c)
         \/ CheckoutDocs(c) \/ CommitDocs(c) \/ CheckoutBack(c)
         \/ FailJob(c) \/ Rerun(c)
  PROVE  DocsIInv' /\ publishedDocs' = publishedDocs
<1> DEFINE r == clone[c]
<1>1. publishedDocs \in Commits /\ clone = [d \in Clones |-> clone[d]]
  BY DEF DocsIInv
<1>2. /\ r.pc # "none" => CloneOK(r, publishedDocs) /\ r \in CloneRecords
      /\ r = clone[c]
  BY ClonePast
<1> HIDE DEF r
<1>3. ASSUME NEW q, clone' = [clone EXCEPT ![c] = q], CloneOK(q, publishedDocs),
             publishedDocs' = publishedDocs, released' = released
      PROVE  DocsIInv'
  BY <1>3, OneClone
<1>4. CASE StartScript(c)
  <2> DEFINE pc == IF r.head # "release" THEN "exit1"
                   ELSE IF r.version.prerelease THEN "exit0" ELSE "fetch"
             q == [r EXCEPT !.pc = pc]
  <2>1. /\ r.pc = "start" /\ clone' = [clone EXCEPT ![c] = q]
        /\ released' = released /\ publishedDocs' = publishedDocs
    BY <1>2, <1>4 DEF StartScript, Command
  <2>2. CloneOK(q, publishedDocs)
    <3>1. CASE pc = "fetch"
      <4>1. ~r.version.prerelease /\ q = [r EXCEPT !.pc = "fetch"]
        BY <3>1
      <4> HIDE DEF q, pc
      <4>2. QED
        BY <1>1, <1>2, <2>1, <4>1, StartOK
    <3>2. CASE pc # "fetch"
      <4>1. pc \in {"exit0", "exit1", "pushed"}
        BY <3>2
      <4>2. q = [r EXCEPT !.pc = pc]
        OBVIOUS
      <4> HIDE DEF q, pc
      <4>3. QED
        BY <1>1, <1>2, <2>1, <4>1, <4>2, StoppedOK
    <3>3. QED
      BY <3>1, <3>2
  <2> HIDE DEF q
  <2>3. QED
    BY <1>3, <2>1, <2>2
<1>5. CASE Fetch(c)
  <2> DEFINE q == Fetched(r, publishedDocs)
  <2>1. /\ r.pc = "fetch" /\ clone' = [clone EXCEPT ![c] = q]
        /\ released' = released /\ publishedDocs' = publishedDocs
    BY <1>2, <1>5 DEF Fetch, Command, Fetched
  <2>2. CloneOK(q, publishedDocs)
    BY <1>1, <1>2, <2>1, FetchOK
  <2> HIDE DEF q
  <2>3. QED
    BY <1>3, <2>1, <2>2
<1>6. CASE Detach(c)
  <2> DEFINE q == [Detached(r) EXCEPT !.pc = "reset"]
  <2>1. /\ r.pc = "detach" /\ clone' = [clone EXCEPT ![c] = q]
        /\ released' = released /\ publishedDocs' = publishedDocs
    BY <1>2, <1>6 DEF Detach, Command
  <2>2. CloneOK(q, publishedDocs)
    BY <1>1, <1>2, <2>1, DetachOK
  <2> HIDE DEF q
  <2>3. QED
    BY <1>3, <2>1, <2>2
<1>7. CASE ResetSoft(c)
  <2> DEFINE q == [Reset(r) EXCEPT !.pc = "checkout"]
  <2>1. /\ r.pc = "reset" /\ clone' = [clone EXCEPT ![c] = q]
        /\ released' = released /\ publishedDocs' = publishedDocs
    BY <1>2, <1>7 DEF ResetSoft, Command
  <2>2. CloneOK(q, publishedDocs)
    BY <1>1, <1>2, <2>1, ResetOK
  <2> HIDE DEF q
  <2>3. QED
    BY <1>3, <2>1, <2>2
<1>8. CASE CheckoutDocs(c)
  <2> DEFINE docs == IF r.docs = <<>> THEN r.remoteDocs ELSE r.docs
             from == IF r.head = "release" THEN r.release ELSE r.detached
             q == CheckedOut(r, docs, from)
  <2>1. /\ r.pc = "checkout" /\ clone' = [clone EXCEPT ![c] = q]
        /\ released' = released /\ publishedDocs' = publishedDocs
    BY <1>2, <1>8 DEF CheckoutDocs, Command, CheckedOut
  <2>2. CloneOK(q, publishedDocs)
    BY <1>1, <1>2, <2>1, CheckoutOK
  <2> HIDE DEF q
  <2>3. QED
    BY <1>3, <2>1, <2>2
<1>9. CASE CommitDocs(c)
  <2> DEFINE tree == Tree(r.index.version, TRUE)
             q == Committed(r, tree)
  <2>1. /\ r.pc = "commit" /\ clone' = [clone EXCEPT ![c] = q]
        /\ released' = released /\ publishedDocs' = publishedDocs
    BY <1>2, <1>9 DEF CommitDocs, Command, Committed
  <2>2. CloneOK(q, publishedDocs)
    BY <1>1, <1>2, <2>1, CommitOK
  <2> HIDE DEF q
  <2>3. QED
    BY <1>3, <2>1, <2>2
<1>10. CASE CheckoutBack(c)
  <2> DEFINE q == [OnRelease(r) EXCEPT !.pc = "exit0"]
  <2>1. /\ r.pc = "back" /\ clone' = [clone EXCEPT ![c] = q]
        /\ released' = released /\ publishedDocs' = publishedDocs
    BY <1>2, <1>10 DEF CheckoutBack, Command
  <2>2. CloneOK(q, publishedDocs)
    BY <1>1, <1>2, <2>1, BackOK
  <2> HIDE DEF q
  <2>3. QED
    BY <1>3, <2>1, <2>2
<1>11. CASE FailJob(c)
  <2> DEFINE q == [r EXCEPT !.pc = "exit1"]
  <2>1. /\ r.pc # "none" /\ clone' = [clone EXCEPT ![c] = q]
        /\ released' = released /\ publishedDocs' = publishedDocs
    BY <1>1, <1>2, <1>11 DEF FailJob
  <2>2. CloneOK(q, publishedDocs)
    BY <1>1, <1>2, <2>1, StoppedOK
  <2> HIDE DEF q
  <2>3. QED
    BY <1>3, <2>1, <2>2
<1>12. CASE Rerun(c)
  <2>1. PICK pc \in {"exit1", "pushed"} :
          \/ Command(c, pc, [OnRelease(r) EXCEPT !.pc = "start"])
          \/ Command(c, pc, FreshClone(r.version))
    BY <1>2, <1>12 DEF Rerun
  <2>2. PICK q : /\ q \in {[OnRelease(r) EXCEPT !.pc = "start"],
                           FreshClone(r.version)}
                 /\ Command(c, pc, q)
    BY <2>1
  <2>3. /\ r.pc # "none" /\ clone' = [clone EXCEPT ![c] = q]
        /\ released' = released /\ publishedDocs' = publishedDocs
    BY <1>2, <2>2 DEF Command
  <2>4. CASE q = FreshClone(r.version)
    <3>1. CloneOK(q, publishedDocs)
      BY <1>1, <1>2, <2>3, <2>4, FreshOK DEF CloneRecords
    <3>2. QED
      BY <1>3, <2>3, <3>1
  <2>5. CASE q = [OnRelease(r) EXCEPT !.pc = "start"]
    <3>1. CloneOK(q, publishedDocs)
      BY <1>1, <1>2, <2>3, <2>5, BackOK
    <3>2. QED
      BY <1>3, <2>3, <3>1
  <2>6. QED
    BY <2>2, <2>4, <2>5
<1>13. QED
  BY <1>4, <1>5, <1>6, <1>7, <1>8, <1>9, <1>10, <1>11, <1>12

(* So does every step, which adds at most one page to what is published.    *)
LEMMA NextDocsIInv ==
  DocsIInv /\ [DocsNext]_docsVars
    => DocsIInv' /\ AddsNoMoreThanAPage
<1> SUFFICES ASSUME DocsIInv, [DocsNext]_docsVars
             PROVE  DocsIInv' /\ AddsNoMoreThanAPage
  OBVIOUS
<1>1. CASE UNCHANGED docsVars
  BY <1>1 DEF docsVars, DocsIInv, AddsNoMoreThanAPage
<1>2. ASSUME NEW c \in Clones, NEW m \in Minors, Release(c, m)
      PROVE  DocsIInv' /\ publishedDocs' = publishedDocs
  BY <1>2, ReleaseOK DEF Release
<1>3. ASSUME NEW c \in Clones, Compare(c)
      PROVE  DocsIInv' /\ publishedDocs' = publishedDocs
  <2>1. publishedDocs' = publishedDocs
    BY <1>3 DEF Compare, Command
  <2>2. QED
    BY <1>3, <2>1, CompareOK
<1>4. ASSUME NEW c \in Clones, Push(c)
      PROVE  DocsIInv' /\ AddsNoMoreThanAPage
  BY <1>4, PushOK
<1>5. QED
  BY <1>1, <1>2, <1>3, <1>4, CommandOK
  DEF DocsNext, AddsNoMoreThanAPage

(* The release branch of a clone stays where it was cloned, in any number   *)
(* of jobs, failures and repetitions: ReleaseStays.                         *)
THEOREM ReleaseBranchStays == DocsSpec => []ReleaseStays
<1>1. DocsIInv => ReleaseStays
  <2> SUFFICES ASSUME DocsIInv, NEW c \in Clones, clone[c].pc # "none"
               PROVE  clone[c].release = <<Tree(clone[c].version, FALSE)>>
    BY DEF ReleaseStays
  <2>1. CloneOK(clone[c], publishedDocs)
    BY ClonePast
  <2>2. QED
    BY <2>1 DEF CloneOK, CloneType
<1>2. QED
  BY <1>1, InitDocsIInv, NextDocsIInv, PTL DEF DocsSpec

(* Where minor versions are written with as many digits, the docs branch of *)
(* the origin is a DocsSite: ImplementsDocsSite. (Where they are not, it is *)
(* none, as the run docs_two_digits shows.)                                 *)
THEOREM DocsBranchImplementsDocsSite == SameDigits => (DocsSpec => ImplementsDocsSite)
<1> SUFFICES ASSUME SameDigits PROVE DocsSpec => ImplementsDocsSite
  OBVIOUS
<1>1. DocsInit => Site!Init
  BY DEF DocsInit, Site!Init
<1>2. DocsIInv /\ [DocsNext]_docsVars => [Site!Next]_publishedDocs
  BY NextDocsIInv DEF AddsNoMoreThanAPage
<1>3. QED
  BY <1>1, <1>2, InitDocsIInv, NextDocsIInv, PTL
  DEF DocsSpec, ImplementsDocsSite, Site!Spec

=============================================================================
