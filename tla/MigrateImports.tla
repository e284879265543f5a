--------------------------- MODULE MigrateImports ---------------------------
(***************************************************************************)
(* scripts/migrate-imports.js, which rewrites the paths of contracts that  *)
(* were moved, in every .sol file below the paths it is given.             *)
(*                                                                         *)
(* A file is the sequence of the contracts its text mentions, in imports   *)
(* or comments. The script may be killed between any two of its steps, and *)
(* run again. writeFile empties a file before it fills it.                 *)
(* Faulty variants of a definition precede it; no specification uses them. *)
(***************************************************************************)
EXTENDS Integers, Sequences

CONSTANTS
  pathUpdates,   \* the entries of the table: old and new path
  Listing,       \* the names in each directory
  Contracts,     \* the .sol files
  Others,        \* all other files
  Contents,      \* what a file may contain at first
  ArgLists,      \* the lists of paths the script is run with
  MaxCrashes     \* bound on how often it is killed

Rows == 1 .. Len(pathUpdates)
Files == Contracts \cup Others
Dirs == DOMAIN Listing

\* In the second package, names of contracts end in Upgradeable.
Packages == {"contracts", "contracts-upgradeable"}

PathIn(package, file) == [package |-> package, file |-> file]

\* Keys of an object are distinct, and nothing was moved to a path something
\* else was moved from. A name is one of a contract, another file or a directory.
ASSUME MigrateAssumption ==
  /\ pathUpdates \in Seq([old : STRING, new : STRING])
  /\ \A r, s \in Rows : /\ pathUpdates[r].old = pathUpdates[s].old => r = s
                        /\ pathUpdates[r].new # pathUpdates[s].old
  /\ Contents \subseteq Seq([package : Packages, file : STRING])
  /\ ArgLists \subseteq Seq(STRING) /\ \A d \in Dirs : Listing[d] \in Seq(STRING)
  /\ Contracts \cap Others = {} /\ Files \cap Dirs = {}

VARIABLES
  disk,           \* what the files contain
  doing,          \* what the script is doing
  args,           \* the paths it was given
  queue, files,   \* of listFilesRecursively
  updatedFiles,
  next,           \* the number of the file it is at
  held,           \* that file's text in memory, as far as it is updated
  row,            \* the entry of the table it applies next
  report,         \* how the last run ended
  before,         \* what the files contained at first
  lost,           \* the files the script was killed in the middle of writing
  crashes

migrationVars == <<disk, doing, args, queue, files, updatedFiles, next, held, row,
                   report, before, lost, crashes>>

memory == <<queue, files, updatedFiles, next, held, row>>

-----------------------------------------------------------------------------
(* The text *)

\* String.replace with a string replaces its first occurrence.
Replaced(content, old, new) ==
  [i \in DOMAIN content |->
     IF content[i] = old /\ \A j \in 1 .. i - 1 : content[j] # old
       THEN new ELSE content[i]]

UpdatedPackageOnly(content, r) ==
  Replaced(Replaced(content, PathIn("contracts", pathUpdates[r].old),
                             PathIn("contracts", pathUpdates[r].new)),
           PathIn("contracts-upgradeable", pathUpdates[r].old),
           PathIn("contracts", pathUpdates[r].new))

\* One round of the loop of updateImportPaths.
Updated(content, r) ==
  Replaced(Replaced(content, PathIn("contracts", pathUpdates[r].old),
                             PathIn("contracts", pathUpdates[r].new)),
           PathIn("contracts-upgradeable", pathUpdates[r].old),
           PathIn("contracts-upgradeable", pathUpdates[r].new))

-----------------------------------------------------------------------------
(* The script *)

MigrationInit ==
  /\ before \in [Files -> Contents]
  /\ disk = before
  /\ doing = "off"
  /\ args \in ArgLists
  /\ queue = <<>> /\ files = <<>> /\ updatedFiles = <<>>
  /\ next = 0 /\ held = <<>> /\ row = 0
  /\ report = "none"
  /\ lost = {} /\ crashes = 0

\* main
Start ==
  /\ doing = "off"
  /\ doing' = "list"
  /\ queue' = args
  /\ files' = <<>> /\ updatedFiles' = <<>>
  /\ next' = 1 /\ held' = <<>> /\ row' = 1
  /\ report' = "none"
  /\ UNCHANGED <<disk, args, before, lost, crashes>>

QueuedInstead(top) == Listing[top]

\* The names in a directory go to the end of the queue.
Queued(top) == Tail(queue) \o Listing[top]

\* A round of listFilesRecursively.
ListFile ==
  /\ doing = "list" /\ queue # <<>>
  /\ Head(queue) \in Files
  /\ files' = IF Head(queue) \in Contracts THEN Append(files, Head(queue))
                                           ELSE files
  /\ queue' = Tail(queue)
  /\ UNCHANGED <<disk, doing, args, updatedFiles, next, held, row, report, before,
                 lost, crashes>>

ListDirectory ==
  /\ doing = "list" /\ queue # <<>>
  /\ Head(queue) \in Dirs
  /\ queue' = Queued(Head(queue))
  /\ UNCHANGED <<disk, doing, args, files, updatedFiles, next, held, row, report,
                 before, lost, crashes>>

\* fs.stat fails and main rejects.
ListMissing ==
  /\ doing = "list" /\ queue # <<>>
  /\ Head(queue) \notin Files \cup Dirs
  /\ doing' = "off"
  /\ report' = "error"
  /\ UNCHANGED <<disk, args, memory, before, lost, crashes>>

ListDone ==
  /\ doing = "list" /\ queue = <<>>
  /\ doing' = "next"
  /\ UNCHANGED <<disk, args, memory, report, before, lost, crashes>>

\* updateFile, for the file the loop of main has come to.
ReadFile ==
  /\ doing = "next" /\ next <= Len(files)
  /\ doing' = "update"
  /\ held' = disk[files[next]]
  /\ row' = 1
  /\ UNCHANGED <<disk, args, queue, files, updatedFiles, next, report, before,
                 lost, crashes>>

UpdateRow ==
  /\ doing = "update" /\ row \in Rows
  /\ held' = Updated(held, row)
  /\ row' = row + 1
  /\ UNCHANGED <<disk, doing, args, queue, files, updatedFiles, next, report,
                 before, lost, crashes>>

WorthWritingAlways(content) == TRUE
WorthWriting(content) == held # content

LeaveFile ==
  /\ doing = "update" /\ row \notin Rows
  /\ ~WorthWriting(disk[files[next]])
  /\ doing' = "next"
  /\ next' = next + 1
  /\ UNCHANGED <<disk, args, queue, files, updatedFiles, held, row, report,
                 before, lost, crashes>>

\* writeFile, first half.
EmptyFile ==
  /\ doing = "update" /\ row \notin Rows
  /\ WorthWriting(disk[files[next]])
  /\ doing' = "write"
  /\ disk' = [disk EXCEPT ![files[next]] = <<>>]
  /\ UNCHANGED <<args, memory, report, before, lost, crashes>>

WriteFile ==
  /\ doing = "write"
  /\ doing' = "next"
  /\ disk' = [disk EXCEPT ![files[next]] = held]
  /\ updatedFiles' = Append(updatedFiles, files[next])
  /\ next' = next + 1
  /\ UNCHANGED <<args, queue, files, held, row, report, before, lost, crashes>>

\* 'No files were updated', or '... file(s) were updated'.
Report ==
  /\ doing = "next" /\ next > Len(files)
  /\ doing' = "off"
  /\ report' = IF updatedFiles = <<>> THEN "none_updated" ELSE "updated"
  /\ UNCHANGED <<disk, args, memory, before, lost, crashes>>

Killed ==
  /\ doing # "off"
  /\ crashes < MaxCrashes
  /\ doing' = "off"
  /\ report' = "killed"
  /\ lost' = IF doing = "write" THEN lost \cup {files[next]} ELSE lost
  /\ crashes' = crashes + 1
  /\ UNCHANGED <<disk, args, memory, before>>

Running ==
  \/ ListFile \/ ListDirectory \/ ListMissing \/ ListDone
  \/ ReadFile \/ UpdateRow \/ LeaveFile \/ EmptyFile \/ WriteFile
  \/ Report

MigrationNext == Start \/ Running \/ Killed

MigrationSpec == MigrationInit /\ [][MigrationNext]_migrationVars

-----------------------------------------------------------------------------
(* Properties *)

Migrated(path) ==
  IF \E r \in Rows : path.file = pathUpdates[r].old
    THEN PathIn(path.package,
                pathUpdates[CHOOSE r \in Rows : path.file = pathUpdates[r].old].new)
    ELSE path

\* The text c with some of its paths migrated, and everything where it was.
PartlyMigrated(c, content) ==
  /\ DOMAIN content = DOMAIN c
  /\ \A i \in DOMAIN c : content[i] \in {c[i], Migrated(c[i])}

BeingWritten(f) == doing = "write" /\ f = files[next]

(* However often the script is killed and run again, every file has what it *)
(* had at first, some of it migrated, except one that is being written and  *)
(* those the script was killed in the middle of writing; files that are not *)
(* contracts are as they were.                                              *)
FilesIntact ==
  /\ \A f \in Files :
       BeingWritten(f) \/ f \in lost \/ PartlyMigrated(before[f], disk[f])
  /\ \A f \in Others : disk[f] = before[f]

\* What is below the paths of a list, however deep: the names in each set that
\* has these paths and, with a directory, all that is listed in it.
Names(s) == {s[i] : i \in DOMAIN s}
Closed(names) == \A d \in names \cap Dirs : Names(Listing[d]) \subseteq names

ReachableFrom(list) ==
  LET all == Names(list) \cup UNION {Names(Listing[d]) : d \in Dirs}
      closures == {names \in SUBSET all : Names(list) \subseteq names /\ Closed(names)}
  IN  {n \in all : \A names \in closures : n \in names}

Below == ReachableFrom(args) \cap Contracts

FullyMigrated(f) == \A i \in DOMAIN disk[f] : Migrated(disk[f][i]) = disk[f][i]

(* A run that says there was nothing to update saw every contract below the *)
(* given paths, and left no old path in any of them.                        *)
NothingLeft ==
  report = "none_updated" => \A f \in Below : FullyMigrated(f)

(* Whoever runs it again until it finds nothing to do gets there.           *)
ReachesTheEnd ==
  (\A i \in DOMAIN args : args[i] \in Files \cup Dirs)
     => <>(report = "none_updated")

=============================================================================
