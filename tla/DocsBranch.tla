----------------------------- MODULE DocsBranch -----------------------------
(***************************************************************************)
(* scripts/update-docs-branch.js, as .github/workflows/docs.yml runs it:   *)
(* each push to a release branch makes a job clone the repository, commit  *)
(* the docs of that release to the docs branch, and push. Several jobs run *)
(* at once. Any command of a job may fail, and someone may then go back to *)
(* the release branch in its clone and run the script again.               *)
(*                                                                         *)
(* A commit is the sequence of the trees from the first commit to it, a    *)
(* tree a version of the sources with or without the generated docs. The   *)
(* history of a release branch before the release is left out. <<>> is a   *)
(* branch that does not exist.                                             *)
(* Faulty variants of a definition precede it; no specification uses them. *)
(***************************************************************************)
EXTENDS Integers, Sequences, FiniteSets, SequencesExt

CONSTANTS
  Clones,
  Minors,         \* minor versions
  MaxPatch,       \* bound on the patches of each
  MaxFailedJobs   \* bound on how many commands fail

\* Versions of the branches are written with at most two digits.
ASSUME DocsAssumption ==
  /\ Minors \subseteq 0 .. 99
  /\ MaxPatch \in Nat

DocsVersions == [minor : Minors, patch : 0 .. MaxPatch, prerelease : BOOLEAN]

Tree(version, docs) == [version |-> version, docs |-> docs]

VARIABLES
  released,        \* at the origin: the head of each release branch, by minor
  publishedDocs,   \* at the origin: the docs branch
  clone,
  failedJobs

docsVars == <<released, publishedDocs, clone, failedJobs>>

\* A clone of the branch of a release, as actions/checkout makes it.
FreshClone(version) ==
  [pc |-> "start",
   version |-> version,                      \* package.json
   head |-> "release",                       \* what HEAD points to
   release |-> <<Tree(version, FALSE)>>,     \* the release branch
   detached |-> <<>>,                        \* HEAD, when on no branch
   docs |-> <<>>,                            \* the docs branch
   remoteDocs |-> <<>>,                      \* origin/ the docs branch
   publishedRef |-> <<>>,
   index |-> Tree(version, FALSE)]

DocsInit ==
  /\ released = [m \in Minors |-> <<>>]
  /\ publishedDocs = <<>>
  /\ clone = [c \in Clones |-> [pc |-> "none"]]
  /\ failedJobs = 0

\* The next release of a branch: first a prerelease, then the final one, then
\* patches.
NextVersion(m) ==
  LET version(patch, pre) == [minor |-> m, patch |-> patch, prerelease |-> pre]
  IN  IF released[m] = <<>> THEN version(0, TRUE)
      ELSE LET last == Last(released[m]) IN
           IF last.prerelease THEN version(0, FALSE)
                              ELSE version(last.patch + 1, FALSE)

Release(c, m) ==
  /\ clone[c].pc \in {"none", "pushed", "exit1"}
  /\ NextVersion(m).patch <= MaxPatch
  /\ released' = [released EXCEPT ![m] = Append(@, NextVersion(m))]
  /\ clone' = [clone EXCEPT ![c] = FreshClone(NextVersion(m))]
  /\ UNCHANGED <<publishedDocs, failedJobs>>

\* One command of the script in clone c, which leaves the clone as r.
Command(c, pc, r) ==
  /\ clone[c].pc = pc
  /\ clone' = [clone EXCEPT ![c] = r]
  /\ UNCHANGED <<released, publishedDocs, failedJobs>>

-----------------------------------------------------------------------------
(* The script *)

\* The regular expression only matches a release branch.
StartScript(c) ==
  Command(c, "start",
          [clone[c] EXCEPT !.pc = IF clone[c].head # "release" THEN "exit1"
                                  ELSE IF clone[c].version.prerelease THEN "exit0"
                                  ELSE "fetch"])

\* git fetch
Fetch(c) ==
  Command(c, "fetch", [clone[c] EXCEPT !.pc = "compare", !.remoteDocs = publishedDocs])

Digits(n) == IF n < 10 THEN <<n>> ELSE <<n \div 10, n % 10>>

\* Less than, of strings.
SmallerString(s, t) ==
  \/ IsStrictPrefix(s, t)
  \/ \E i \in DOMAIN s \cap DOMAIN t :
       s[i] < t[i] /\ \A j \in 1 .. i - 1 : s[j] = t[j]

OlderNever(minor, publishedMinor) == FALSE
Older(minor, publishedMinor) ==
  SmallerString(Digits(minor), Digits(publishedMinor))

MatchingDocsBranches(c) == {clone[c].docs, clone[c].remoteDocs} \ {<<>>}

Compare(c) ==
  LET refs == MatchingDocsBranches(c)
      publishedRef == CHOOSE ref \in refs : TRUE
  IN  Command(c, "compare",
        IF refs = {}
          \* git checkout --orphan: the index stays
          THEN [clone[c] EXCEPT !.pc = "commit", !.head = "docs"]
        ELSE IF Cardinality(refs) > 1
          THEN [clone[c] EXCEPT !.pc = "exit1"]
        ELSE IF Older(clone[c].version.minor, Last(publishedRef).version.minor)
          THEN [clone[c] EXCEPT !.pc = "exit0"]
        ELSE [clone[c] EXCEPT !.pc = "detach", !.publishedRef = publishedRef])

DetachedNot(r) == r
Detached(r) == [r EXCEPT !.head = "detached", !.detached = r.release]

\* git checkout --detach
Detach(c) ==
  Command(c, "detach", [Detached(clone[c]) EXCEPT !.pc = "reset"])

\* Moves what HEAD points to, and leaves the index.
Reset(r) ==
  IF r.head = "release" THEN [r EXCEPT !.release = r.publishedRef]
                        ELSE [r EXCEPT !.detached = r.publishedRef]

\* git reset --soft
ResetSoft(c) ==
  Command(c, "reset", [Reset(clone[c]) EXCEPT !.pc = "checkout"])

\* git checkout of the docs branch. It is created from origin's if need be.
\* Between two names of one commit the index stays as it is, else it takes
\* what the branch has.
CheckoutDocs(c) ==
  LET r == clone[c]
      docs == IF r.docs = <<>> THEN r.remoteDocs ELSE r.docs
      from == IF r.head = "release" THEN r.release ELSE r.detached
  IN  Command(c, "checkout",
        [r EXCEPT !.pc = "commit", !.head = "docs", !.docs = docs,
                  !.index = IF from = docs THEN @ ELSE Last(docs)])

\* npm run prepare-docs, git add, and git commit, which fails when the tree
\* is the one committed before.
CommitDocs(c) ==
  LET r == clone[c]
      tree == Tree(r.index.version, TRUE)
  IN  Command(c, "commit",
        IF r.docs # <<>> /\ tree = Last(r.docs)
          THEN [r EXCEPT !.pc = "exit1", !.index = tree]
          ELSE [r EXCEPT !.pc = "back", !.index = tree,
                         !.docs = Append(r.docs, tree)])

\* git checkout of the release branch
OnRelease(r) == [r EXCEPT !.head = "release", !.index = Last(r.release)]

CheckoutBack(c) == Command(c, "back", [OnRelease(clone[c]) EXCEPT !.pc = "exit0"])

-----------------------------------------------------------------------------
(* Around the script *)

\* git push --all: the origin accepts what extends its docs branch. (What the
\* release branch has, it has already.)
Push(c) ==
  LET accepted == clone[c].docs # <<>> /\ IsPrefix(publishedDocs, clone[c].docs) IN
  /\ clone[c].pc = "exit0"
  /\ publishedDocs' = IF accepted THEN clone[c].docs ELSE publishedDocs
  /\ clone' = [clone EXCEPT ![c].pc = IF accepted \/ clone[c].docs = <<>>
                                        THEN "pushed" ELSE "exit1",
                            ![c].remoteDocs = IF accepted THEN clone[c].docs ELSE @]
  /\ UNCHANGED <<released, failedJobs>>

\* A command of the script fails, and with it the job.
FailJob(c) ==
  /\ failedJobs < MaxFailedJobs
  /\ clone[c].pc \in {"fetch", "compare", "detach", "reset", "checkout",
                      "commit", "back"}
  /\ clone' = [clone EXCEPT ![c].pc = "exit1"]
  /\ failedJobs' = failedJobs + 1
  /\ UNCHANGED <<released, publishedDocs>>

\* Someone goes back to the release branch and runs the script again, or has
\* the job run again, which makes a new clone.
Rerun(c) ==
  \E pc \in {"exit1", "pushed"} :
    \/ Command(c, pc, [OnRelease(clone[c]) EXCEPT !.pc = "start"])
    \/ Command(c, pc, FreshClone(clone[c].version))

DocsNext ==
  \E c \in Clones :
    \/ \E m \in Minors : Release(c, m)
    \/ StartScript(c) \/ Fetch(c) \/ Compare(c) \/ Detach(c) \/ ResetSoft(c)
    \/ CheckoutDocs(c) \/ CommitDocs(c) \/ CheckoutBack(c)
    \/ Push(c) \/ FailJob(c) \/ Rerun(c)

DocsSpec == DocsInit /\ [][DocsNext]_docsVars

-----------------------------------------------------------------------------
(* Properties *)

(* Whatever fails, and however often the script is run again, the release   *)
(* branch of a clone stays where it was cloned, though the script resets    *)
(* what HEAD points to.                                                     *)
ReleaseStays ==
  \A c \in Clones :
    clone[c].pc # "none" => clone[c].release = <<Tree(clone[c].version, FALSE)>>

Site == INSTANCE DocsSite WITH pages <- publishedDocs, Versions <- DocsVersions

(* The docs branch of the origin only gets pages made from the sources of a *)
(* final release, none from an older minor version than the last, though    *)
(* jobs overlap, fail and are repeated.                                     *)
ImplementsDocsSite == Site!Spec

OlderVersion(v, w) == v.minor < w.minor \/ (v.minor = w.minor /\ v.patch < w.patch)

(* 'Refusing to update docs: newer version is published': docs of an older  *)
(* version do not follow those of a newer one.                              *)
NewerVersionStays ==
  \A i, j \in DOMAIN publishedDocs :
    i < j => ~OlderVersion(publishedDocs[j].version, publishedDocs[i].version)

=============================================================================
