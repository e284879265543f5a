------------------------------ MODULE Releases ------------------------------
(***************************************************************************)
(* scripts/release: release.sh, which a maintainer runs in a clone, and    *)
(* the scripts that npm version runs on the way (version.sh): they date    *)
(* the changelog, copy the version to the package of the contracts, and    *)
(* write in each contract that changed which version changed it.           *)
(*                                                                         *)
(* Two minor versions on release branches of their own, and their patches, *)
(* in any order. Any command may fail, and the maintainer then discards    *)
(* what was not committed, or runs release.sh again, with any of its       *)
(* arguments. A commit is the tree it leaves.                              *)
(* Faulty variants of a definition precede it; no specification uses them. *)
(***************************************************************************)
EXTENDS Integers, Sequences, FiniteSets, SequencesExt

CONSTANTS
  Released,     \* files of the contracts directory
  Mocks,        \* those whose path matches /mock/i
  MaxPatches,   \* bound on the patches of a minor version
  MaxRc,        \* bound on the prereleases of a version, numbered from 0
  MaxEdits,     \* bound on the changes committed to contracts
  MaxFails      \* bound on the commands that fail for no reason of the clone

ASSUME ReleaseAssumption ==
  MaxPatches \in Nat /\ MaxRc \in Nat /\ Mocks \subseteq Released

\* A final version comes after its prereleases, also those beyond the bound.
Final == MaxRc + 2

Versions ==
  [minor : 0 .. 1, patch : 0 .. MaxPatches, pre : (0 .. MaxRc) \cup {Final}]

IsFinal(v) == v.pre = Final
FinalOf(v) == [v EXCEPT !.pre = Final]

\* X.Y.0-rc.N; the prereleases that npm makes of a patch are called X.Y.Z-N.
IsRc(v) == ~IsFinal(v) /\ v.patch = 0

\* The last release before these.
Base == [minor |-> 0, patch |-> 0, pre |-> Final]

\* semver.lt
Lt(v, w) ==
  \/ v.minor < w.minor
  \/ v.minor = w.minor /\ v.patch < w.patch
  \/ v.minor = w.minor /\ v.patch = w.patch /\ v.pre < w.pre

\* No version: the comment of a new contract, a dist-tag that is not set.
None == [minor |-> -1, patch |-> 0, pre |-> 0]

\* A heading of the changelog that has no date is open to be released; the
\* heading Unreleased names no version.
Unreleased == [version |-> None, dated |-> FALSE]

\* Branches: master, the one that "start" works on, and the release branch of
\* a minor version, by its number.
Master == -2
Temp == -1

VARIABLES
  pc, command,    \* release.sh and its argument
  heads,          \* the branches of the clone, with the trees of their last commits
  branch, work,   \* the branch that is checked out, and the working tree
  tags,           \* the tags of the clone, with the trees they name
  upstreamTags,   \* those at upstream
  published,      \* the versions on npm
  dist,           \* the dist-tags on npm
  edits, fails

releaseVars == <<pc, command, heads, branch, work, tags, upstreamTags, published,
                 dist, edits, fails>>

git == <<heads, branch, tags, upstreamTags>>
npm == <<published, dist>>

\* A contract that does not exist yet has no body.
ReleaseInit ==
  /\ pc = "idle" /\ command = "none"
  /\ branch = Master
  /\ \E present \in SUBSET Released :
       work = [version |-> Base, contractsVersion |-> Base,
               changelog |-> <<Unreleased>>,
               contract |-> [f \in Released |->
                 [comment |-> IF f \in present \ Mocks THEN Base ELSE None,
                  body |-> IF f \in present THEN 1 ELSE 0]]]
  /\ heads = [b \in {Master, Base.minor} |-> work]
  /\ tags = {[version |-> Base, tree |-> work]}
  /\ upstreamTags = tags
  /\ published = {Base}
  /\ dist = [latest |-> Base, next |-> None]
  /\ edits = 0 /\ fails = 0

head == heads[branch]

TagIn(tgs, v) == CHOOSE t \in tgs : t.version = v
TagOf(v) == TagIn(tags, v)
Tagged == {t.version : t \in tags}

-----------------------------------------------------------------------------
(* The maintainer *)

\* Commits a change to a contract or a new one, and lists it in the changelog:
\* below the first heading if that is open, or below a new one. No two changes
\* leave the same body.
Edit(f) ==
  /\ pc = "idle" /\ work = head
  /\ branch # Temp
  /\ edits < MaxEdits
  /\ \E log \in {head.changelog, <<Unreleased>> \o head.changelog} :
       /\ ~Head(log).dated
       /\ work' = [head EXCEPT !.contract[f].body = edits + 2, !.changelog = log]
  /\ heads' = [heads EXCEPT ![branch] = work']
  /\ edits' = edits + 1
  /\ UNCHANGED <<pc, command, branch, tags, upstreamTags, npm, fails>>

\* git reset --hard
Discard ==
  /\ pc = "idle" /\ work # head
  /\ work' = head
  /\ UNCHANGED <<pc, command, git, npm, edits, fails>>

Checkout(b) ==
  /\ pc = "idle" /\ work = head
  /\ branch # Temp /\ b \in DOMAIN heads \ {branch}
  /\ branch' = b
  /\ work' = heads[b]
  /\ UNCHANGED <<pc, command, heads, tags, upstreamTags, npm, edits, fails>>

\* git branch --move, of the branch "start" works on.
TempMovedTo(m) ==
  [b \in (DOMAIN heads \ {Temp}) \cup {m} |-> IF b = m THEN heads[Temp] ELSE heads[b]]

\* If "start" stopped on its branch: by hand, the branch is deleted, or renamed
\* to the release branch if anything was committed.
LeaveTemp ==
  /\ pc = "idle" /\ work = head
  /\ branch = Temp
  /\ \/ /\ branch' = Master
        /\ heads' = Restrict(heads, DOMAIN heads \ {Temp})
     \/ /\ head.version # Base /\ head.version.minor \notin DOMAIN heads
        /\ branch' = head.version.minor
        /\ heads' = TempMovedTo(branch')
  /\ work' = heads'[branch']
  /\ UNCHANGED <<pc, command, tags, upstreamTags, npm, edits, fails>>

-----------------------------------------------------------------------------
(* release.sh *)

\* What npm version makes of the version: preminor, prerelease and patch.
Bumped(v, c) ==
  CASE c = "start" -> [minor |-> v.minor + 1, patch |-> 0, pre |-> 0]
    [] c = "rc"    -> IF IsFinal(v) THEN [v EXCEPT !.patch = @ + 1, !.pre = 0]
                                    ELSE [v EXCEPT !.pre = @ + 1]
    [] c = "final" -> IF IsFinal(v) THEN [v EXCEPT !.patch = @ + 1]
                                    ELSE FinalOf(v)

Run(c) ==
  /\ pc = "idle"
  /\ command' = c
  /\ c = "start" => branch = Master
  /\ c \in {"rc", "final"} => branch = work.version.minor
  \* the bounds on patches and prereleases
  /\ c # "push" => Bumped(work.version, c) \in Versions
  /\ pc' = IF c = "push" THEN "push" ELSE "bump"
  /\ IF c = "start"
       THEN /\ branch' = Temp
            /\ heads' = [b \in DOMAIN heads \cup {Temp} |->
                           IF b = Temp THEN head ELSE heads[b]]
       ELSE UNCHANGED <<branch, heads>>
  /\ UNCHANGED <<work, tags, upstreamTags, npm, edits, fails>>

\* A step of the clone that may find that it cannot go on.
Step(from, possible, to) ==
  /\ pc = from
  /\ pc' = IF possible THEN to ELSE "idle"
  /\ command' = IF pc' = "idle" THEN "none" ELSE command
  /\ UNCHANGED <<edits, fails>>

\* npm version starts from a clean working tree.
Bump ==
  /\ Step("bump", work = head, "changelog")
  /\ work' = IF work = head
               THEN [work EXCEPT !.version = Bumped(@, command)] ELSE work
  /\ UNCHANGED <<git, npm>>

-----------------------------------------------------------------------------
(* version.sh *)

\* The changelog has one heading for a release and its candidates -rc.N.
HeadingOf(v) == IF IsRc(v) THEN FinalOf(v) ELSE v

NewHeadingDated(v) == [version |-> HeadingOf(v), dated |-> TRUE]
NewHeading(v) == [version |-> HeadingOf(v), dated |-> ~IsRc(v)]

\* Where the headings are that the version can take over.
Matching(log, v) ==
  {i \in DOMAIN log : log[i] \in {Unreleased, [version |-> HeadingOf(v), dated |-> FALSE]}}

\* update-changelog-release-date.js
UpdateChangelog ==
  LET matching == Matching(work.changelog, work.version)
      first == CHOOSE i \in matching : \A j \in matching : i <= j
  IN  /\ Step("changelog", matching # {}, "synchronize")
      /\ work' = IF matching = {} THEN work
                 ELSE [work EXCEPT !.changelog[first] = NewHeading(work.version)]
      /\ UNCHANGED <<git, npm>>

\* synchronize-versions.js
SynchronizeVersions ==
  /\ Step("synchronize", TRUE, "comment")
  /\ work' = [work EXCEPT !.contractsVersion = work.version]
  /\ UNCHANGED <<git, npm>>

OlderTagsUncoerced(version) == {v \in Tagged : Lt(v, version)}

\* Tags are compared without the number of their prerelease.
OlderTags(version) == {v \in Tagged : Lt(FinalOf(v), version)}

\* update-comment.js
UpdateComment ==
  LET older == OlderTags(work.version)
      latest == CHOOSE v \in older : \A w \in older : ~Lt(v, w)
      changed == {f \in Released \ Mocks :
                    /\ head.contract[f].body # 0
                    /\ head.contract[f] # TagOf(latest).tree.contract[f]}
  IN  /\ Step("comment", work.contract = head.contract, "commit")
      /\ work' = IF work.contract # head.contract THEN work
                 ELSE [work EXCEPT !.contract = [f \in Released |->
                        IF f \in changed THEN [@[f] EXCEPT !.comment = work.version]
                                         ELSE @[f]]]
      /\ UNCHANGED <<git, npm>>

-----------------------------------------------------------------------------
(* release.sh goes on *)

Commit ==
  /\ Step("commit", TRUE, "tag")
  /\ heads' = [heads EXCEPT ![branch] = work]
  /\ UNCHANGED <<work, branch, tags, upstreamTags, npm>>

Tag ==
  /\ Step("tag", head.version \notin Tagged,
                 IF command = "start" THEN "rename" ELSE "push")
  /\ tags' = IF head.version \in Tagged THEN tags
             ELSE tags \cup {[version |-> head.version, tree |-> head]}
  /\ UNCHANGED <<work, branch, heads, upstreamTags, npm>>

\* git refuses a name that is taken.
RenameBranch ==
  LET m == work.version.minor
      possible == m \notin DOMAIN heads
  IN  /\ Step("rename", possible, "push")
      /\ branch' = IF possible THEN m ELSE branch
      /\ heads' = IF possible THEN TempMovedTo(m) ELSE heads
      /\ UNCHANGED <<work, tags, upstreamTags, npm>>

PushedBranchOnly(version) == upstreamTags
Pushed(version) == upstreamTags \cup {TagOf(version)}

\* The branch and the tag of the version in the working tree, whatever branch
\* is checked out; "final" does this twice.
PushReleaseBranchAndTag ==
  LET possible == work.version.minor \in DOMAIN heads /\ work.version \in Tagged
  IN  /\ Step("push", possible, "publish")
      /\ upstreamTags' = IF possible THEN Pushed(work.version) ELSE upstreamTags
      /\ UNCHANGED <<work, branch, heads, tags, npm>>

DistTagAlwaysLatest == "latest"
DistTag == IF command = "final" THEN "latest" ELSE "next"

\* npm publish, in the contracts directory; npm takes a version once.
Publish ==
  LET version == work.contractsVersion
      possible == version \notin published
  IN  /\ Step("publish", possible, IF DistTag = "latest" THEN "untag" ELSE "idle")
      /\ published' = published \cup {version}
      /\ dist' = IF possible THEN [dist EXCEPT ![DistTag] = version] ELSE dist
      /\ UNCHANGED <<work, git>>

\* npm dist-tag rm next
RemoveNext ==
  /\ Step("untag", TRUE, "idle")
  /\ dist' = [dist EXCEPT !.next = None]
  /\ UNCHANGED <<work, git, published>>

\* errexit: the script stops at a command that fails.
Fail ==
  /\ pc # "idle"
  /\ fails < MaxFails
  /\ fails' = fails + 1
  /\ pc' = "idle" /\ command' = "none"
  /\ UNCHANGED <<work, git, npm, edits>>

ReleaseNext ==
  \/ \E f \in Released : Edit(f)
  \/ Discard
  \/ \E b \in DOMAIN heads : Checkout(b)
  \/ LeaveTemp
  \/ \E c \in {"start", "rc", "final", "push"} : Run(c)
  \/ Bump \/ UpdateChangelog \/ SynchronizeVersions \/ UpdateComment
  \/ Commit \/ Tag \/ RenameBranch
  \/ PushReleaseBranchAndTag \/ Publish \/ RemoveNext
  \/ Fail

ReleaseSpec == ReleaseInit /\ [][ReleaseNext]_releaseVars

-----------------------------------------------------------------------------
(* Properties *)

FinalTags == {t \in tags : IsFinal(t.version)}

\* The final release of the same minor version before that of t.
IsPrevious(u, t) ==
  /\ u \in FinalTags /\ u.version.minor = t.version.minor
  /\ Lt(u.version, t.version)
  /\ ~\E w \in FinalTags : /\ w.version.minor = t.version.minor
                           /\ Lt(u.version, w.version) /\ Lt(w.version, t.version)

(* '(last updated vX)' in a contract of a final release names a final        *)
(* release that has the contract as it is; within a minor version, the one   *)
(* that last changed it: prereleases in between, releases on the other       *)
(* branch, and releases that failed half-way and were started again, do not  *)
(* show in it.                                                               *)
CommentsNameLastChange ==
  \A t \in FinalTags : \A f \in Released \ Mocks :
    LET file == t.tree.contract[f] IN file.body # 0 =>
      /\ \E u \in FinalTags : u.version = file.comment /\ u.tree.contract[f] = file
      /\ \A u \in FinalTags : IsPrevious(u, t) =>
           file.comment = IF u.tree.contract[f].body = file.body
                            THEN u.tree.contract[f].comment ELSE t.version

(* The package of the contracts has the version of the tag, and the          *)
(* changelog of every tag has a heading for its release, which has a date    *)
(* when the version does not end in -rc.N: for final releases, and for the   *)
(* prereleases of a patch, which 'rc' makes after a final release.           *)
TagsTellTheirVersion ==
  \A t \in tags \ {TagOf(Base)} :
    LET named == {h \in ToSet(t.tree.changelog) : h.version = HeadingOf(t.version)}
    IN  /\ t.tree.version = t.version /\ t.tree.contractsVersion = t.version
        /\ named # {}
        /\ (\E h \in named : h.dated) <=> ~IsRc(t.version)

(* Whatever failed and was repeated: what is on npm was tagged and pushed    *)
(* before, under the same version.                                           *)
PublishedAreTagged == published \subseteq {t.version : t \in upstreamTags}

(* What npm installs by default never is a prerelease, and when it changes   *)
(* it is newer than all that its minor version published before. It may be   *)
(* older than what it replaces, if that was of the newer minor version.      *)
LatestIsNewestOfItsMinor ==
  [][dist'.latest # dist.latest =>
       /\ IsFinal(dist'.latest)
       /\ \A v \in published : v.minor = dist'.latest.minor => Lt(v, dist'.latest)
    ]_releaseVars

=============================================================================
