--------------------------- MODULE ReleasesProofs ---------------------------
(***************************************************************************)
(* Theorems about the release scripts, for every number of patches,        *)
(* prereleases, edits and failures: tags tell their versions, what is      *)
(* published is tagged, latest moves to the newest of a minor version, and *)
(* comments name the version of the last change.                           *)
(***************************************************************************)
EXTENDS Releases, SequenceTheorems, FiniteSetTheorems, WellFoundedInduction, TLAPS

Leq(v, w) == v = w \/ Lt(v, w)

Heading == [version : Versions \cup {None}, dated : BOOLEAN]
SourceFile == [comment : Versions \cup {None}, body : Nat]
ReleaseTree == [version : Versions, contractsVersion : Versions,
                changelog : Seq(Heading), contract : [Released -> SourceFile]]
ReleaseTag == [version : Versions, tree : ReleaseTree]

\* What "start" makes of the version of master.
FirstRc == [minor |-> 1, patch |-> 0, pre |-> 0]

ReleaseBranches == 0 .. 1

\* The minor version that is released from a branch other than master.
MinorOf(b) == IF b = Temp THEN 1 ELSE b

\* The changelog has a heading for the version, dated as it should be, and no
\* heading dated for a later version.
HasHeading(log, v) == \E h \in ToSet(log) : h.version = HeadingOf(v)
HasDated(log, v) == \E h \in ToSet(log) : h.version = HeadingOf(v) /\ h.dated
Told(log, v) == HasHeading(log, v) /\ (HasDated(log, v) <=> ~IsRc(v))
DatedBy(log, v) == \A h \in ToSet(log) : h.dated => Leq(h.version, v)

Steps == {"idle", "bump", "changelog", "synchronize", "comment", "commit", "tag",
          "rename", "push", "publish", "untag"}
Bumping == {"bump", "changelog", "synchronize", "comment", "commit", "tag", "rename"}
Commands == {"none", "start", "rc", "final", "push"}

ReleaseType ==
  /\ pc \in Steps /\ command \in Commands
  /\ heads \in [DOMAIN heads -> ReleaseTree] /\ work \in ReleaseTree
  /\ tags \subseteq ReleaseTag
  /\ published \subseteq Versions
  /\ dist \in [latest : Versions, next : Versions \cup {None}]

\* The changelog of what is committed tells its version.
TreeOK(tree) ==
  /\ tree.contractsVersion = tree.version
  /\ DatedBy(tree.changelog, tree.version)
  /\ tree.version # Base => Told(tree.changelog, tree.version)

\* Master stays at the last release before these; "start" leads to the first
\* prerelease of the next minor version.
BranchesOK(hs, b) ==
  /\ {Master, 0} \subseteq DOMAIN hs /\ DOMAIN hs \subseteq {Master, Temp, 0, 1}
  /\ b \in DOMAIN hs /\ (Temp \in DOMAIN hs => b = Temp)
  /\ hs[Master].version = Base
  /\ Temp \in DOMAIN hs => hs[Temp].version \in {Base, FirstRc}
  /\ \A m \in ReleaseBranches \cap DOMAIN hs : hs[m].version.minor = m
  /\ \A c \in DOMAIN hs : TreeOK(hs[c])

\* Tags name versions one by one, up to that of the last commit on the branch.
TagOfBranch(hs, v) ==
  IF v.minor \in DOMAIN hs THEN Leq(v, hs[v.minor].version) ELSE v = FirstRc

TagsOK(tgs, hs) ==
  /\ \A t, u \in tgs : t.version = u.version => t = u
  /\ \A t \in tgs : /\ TagOfBranch(hs, t.version)
                    /\ t.tree.version = t.version /\ TreeOK(t.tree)
  /\ \E t \in tgs : t.version = Base

\* What npm version and its scripts have done to the working tree.
WorkOK ==
  /\ work # head => /\ branch # Master
                    /\ work.version.minor = MinorOf(branch)
                    /\ Lt(head.version, work.version)
                    /\ branch = Temp => work.version = FirstRc
  /\ work.contractsVersion \in {head.version, work.version}
  /\ pc \in {"changelog", "synchronize", "comment", "commit"} =>
       /\ work # head
       /\ ~IsFinal(head.version) => FinalOf(work.version) = FinalOf(head.version)
  /\ pc = "changelog" => work.changelog = head.changelog
  /\ pc \in {"synchronize", "comment", "commit"} =>
       Told(work.changelog, work.version) /\ DatedBy(work.changelog, work.version)
  /\ pc \in {"comment", "commit"} => work.contractsVersion = work.version
  /\ pc \in {"tag", "rename"} => work = head /\ head.version # Base

CommandOK ==
  /\ pc \in Bumping =>
       /\ command \in {"start", "rc", "final"}
       /\ command = "start" => branch = Temp
       /\ command # "start" => branch \in ReleaseBranches
  /\ pc = "bump" => /\ Bumped(work.version, command) \in Versions
                    /\ command = "start" => work.version = Base
                    /\ command # "start" => branch = work.version.minor
  /\ pc = "rename" => command = "start"
  /\ command = "final" /\ pc \notin {"idle", "bump"} =>
       IsFinal(work.version) /\ branch = work.version.minor
  /\ command = "final" /\ pc \in {"push", "publish"} => work = head
  /\ pc = "publish" =>
       /\ work.contractsVersion \in {t.version : t \in upstreamTags}
       /\ work # head => branch = Temp

NpmOK ==
  /\ upstreamTags \subseteq tags
  /\ Base \in {t.version : t \in upstreamTags}
  /\ published \subseteq {t.version : t \in upstreamTags}

ReleaseIInv ==
  /\ ReleaseType /\ BranchesOK(heads, branch) /\ TagsOK(tags, heads)
  /\ WorkOK /\ CommandOK /\ NpmOK

-----------------------------------------------------------------------------
(* Versions *)

\* Also what is no version.
AnyVersion == [minor : Int, patch : Int, pre : Int]

(* The versions that are computed from versions are versions.               *)
LEMMA VersionFacts ==
  /\ Versions \subseteq AnyVersion /\ None \in AnyVersion
  /\ Base \in Versions /\ FirstRc \in Versions /\ None \notin Versions
  /\ \A v \in Versions : FinalOf(v) \in Versions /\ HeadingOf(v) \in Versions
  /\ MaxRc \in Nat /\ MaxPatches \in Nat /\ Final \in Nat /\ Final > MaxRc
  /\ IsFinal(Base) /\ ~IsFinal(FirstRc) /\ Base # FirstRc
<1>1. MaxRc \in Nat /\ MaxPatches \in Nat /\ Final \in Nat /\ Final > MaxRc
  BY ReleaseAssumption DEF Final
<1>2. Versions \subseteq AnyVersion /\ None \in AnyVersion /\ None \notin Versions
  BY <1>1 DEF Versions, AnyVersion, None
<1>3. Base \in Versions /\ FirstRc \in Versions
  BY <1>1 DEF Versions, Base, FirstRc
<1>4. \A v \in Versions : FinalOf(v) \in Versions
  BY <1>1 DEF Versions, FinalOf
<1>5. QED
  BY <1>1, <1>2, <1>3, <1>4 DEF HeadingOf, IsFinal, Base, FirstRc

(* A version is what its numbers say.                                       *)
LEMMA VersionFields ==
  ASSUME NEW v \in AnyVersion
  PROVE  /\ v.minor \in Int /\ v.patch \in Int /\ v.pre \in Int
         /\ v = [minor |-> v.minor, patch |-> v.patch, pre |-> v.pre]
BY DEF AnyVersion

(* Lt is a strict order of all versions.                                    *)
LEMMA LtFacts ==
  ASSUME NEW u \in AnyVersion, NEW v \in AnyVersion, NEW w \in AnyVersion
  PROVE  /\ ~Lt(u, u)
         /\ Lt(u, v) => ~Leq(v, u)
         /\ Lt(u, v) \/ Lt(v, u) \/ u = v
         /\ Lt(u, v) /\ Lt(v, w) => Lt(u, w)
         /\ Leq(u, v) /\ Lt(v, w) => Lt(u, w)
         /\ Lt(u, v) /\ Leq(v, w) => Lt(u, w)
         /\ Leq(u, v) /\ Leq(v, w) => Leq(u, w)
BY VersionFields DEF Lt, Leq

(* The final version of a release comes after its prereleases, and before   *)
(* every later version.                                                     *)
LEMMA FinalFacts ==
  ASSUME NEW u \in Versions, NEW v \in Versions
  PROVE  /\ IsFinal(FinalOf(v)) /\ FinalOf(v).minor = v.minor /\ Leq(v, FinalOf(v))
         /\ IsFinal(v) <=> FinalOf(v) = v
         /\ Lt(FinalOf(u), v) => Lt(u, v)
         /\ FinalOf(u) = FinalOf(v) => u.minor = v.minor /\ u.patch = v.patch
         /\ Lt(u, v) /\ IsFinal(u) => Lt(FinalOf(u), v)
         /\ Lt(u, v) /\ u.minor = v.minor => Lt(FinalOf(u), v) \/ FinalOf(u) = FinalOf(v)
         /\ ~Lt(FinalOf(v), v)
         /\ Leq(u, v) => Leq(FinalOf(u), FinalOf(v))
<1>1. /\ u.minor \in Int /\ u.patch \in Int /\ u.pre \in (0 .. MaxRc) \cup {Final}
      /\ v.minor \in Int /\ v.patch \in Int /\ v.pre \in (0 .. MaxRc) \cup {Final}
      /\ u = [minor |-> u.minor, patch |-> u.patch, pre |-> u.pre]
      /\ v = [minor |-> v.minor, patch |-> v.patch, pre |-> v.pre]
      /\ Final \in Nat /\ MaxRc \in Nat /\ Final > MaxRc
  BY VersionFacts DEF Versions
<1>2. /\ FinalOf(u) = [minor |-> u.minor, patch |-> u.patch, pre |-> Final]
      /\ FinalOf(v) = [minor |-> v.minor, patch |-> v.patch, pre |-> Final]
  BY DEF FinalOf, Versions
<1>3. QED
  BY <1>1, <1>2 DEF Lt, Leq, IsFinal

(* npm version only goes up, and within the minor version but for "start".  *)
LEMMA BumpedGrows ==
  ASSUME NEW v \in Versions, NEW c \in {"start", "rc", "final"},
         Bumped(v, c) \in Versions
  PROVE  /\ Lt(v, Bumped(v, c))
         /\ c = "final" => IsFinal(Bumped(v, c))
         /\ c # "start" => /\ Bumped(v, c).minor = v.minor
                           /\ ~IsFinal(v) => FinalOf(Bumped(v, c)) = FinalOf(v)
         /\ c = "start" /\ v = Base => Bumped(v, c) = FirstRc
<1>1. /\ v.minor \in 0 .. 1 /\ v.patch \in 0 .. MaxPatches
      /\ v.pre \in (0 .. MaxRc) \cup {Final}
      /\ v = [minor |-> v.minor, patch |-> v.patch, pre |-> v.pre]
      /\ Final \in Nat /\ MaxRc \in Nat /\ MaxPatches \in Nat /\ Final > MaxRc
  BY VersionFacts DEF Versions
<1>2. CASE c = "start"
  <2>1. Bumped(v, c) = [minor |-> v.minor + 1, patch |-> 0, pre |-> 0]
    BY <1>2 DEF Bumped
  <2>2. QED
    BY <1>1, <1>2, <2>1 DEF Lt, Base, FirstRc
<1>3. CASE c = "rc" /\ IsFinal(v)
  <2>1. Bumped(v, c) = [minor |-> v.minor, patch |-> v.patch + 1, pre |-> 0]
    BY <1>1, <1>3 DEF Bumped
  <2>2. QED
    BY <1>1, <1>3, <2>1 DEF Lt
<1>4. CASE c = "rc" /\ ~IsFinal(v)
  <2>1. Bumped(v, c) = [minor |-> v.minor, patch |-> v.patch, pre |-> v.pre + 1]
    BY <1>1, <1>4 DEF Bumped
  <2>2. /\ FinalOf(Bumped(v, c)) = [minor |-> v.minor, patch |-> v.patch, pre |-> Final]
        /\ FinalOf(v) = [minor |-> v.minor, patch |-> v.patch, pre |-> Final]
    BY <1>1, <2>1 DEF FinalOf
  <2>3. QED
    BY <1>1, <1>4, <2>1, <2>2 DEF Lt
<1>5. CASE c = "final" /\ IsFinal(v)
  <2>1. Bumped(v, c) = [minor |-> v.minor, patch |-> v.patch + 1, pre |-> v.pre]
    BY <1>1, <1>5 DEF Bumped
  <2>2. QED
    BY <1>1, <1>5, <2>1 DEF Lt, IsFinal
<1>6. CASE c = "final" /\ ~IsFinal(v)
  <2>1. /\ Bumped(v, c) = [minor |-> v.minor, patch |-> v.patch, pre |-> Final]
        /\ FinalOf(v) = [minor |-> v.minor, patch |-> v.patch, pre |-> Final]
    BY <1>1, <1>6 DEF Bumped, FinalOf
  <2>2. FinalOf(Bumped(v, c)) = [minor |-> v.minor, patch |-> v.patch, pre |-> Final]
    BY <1>1, <2>1 DEF FinalOf
  <2>3. QED
    BY <1>1, <1>6, <2>1, <2>2 DEF Lt, IsFinal
<1>7. QED
  BY <1>2, <1>3, <1>4, <1>5, <1>6

-----------------------------------------------------------------------------
(* Changelogs *)

(* A set of positions has a first.                                          *)
LEMMA FirstExists ==
  ASSUME NEW S, S \subseteq Nat, S # {}
  PROVE  \E i \in S : \A j \in S : i <= j
<1> DEFINE R == OpToRel(<, Nat)
<1>1. \A i, j \in Nat : j < i => <<j, i>> \in R
  BY DEF OpToRel
<1>2. IsWellFoundedOn(R, Nat)
  BY NatLessThanWellFounded DEF OpToRel
<1> HIDE DEF R
<1>3. PICK i \in S : \A j \in S : <<j, i>> \notin R
  BY <1>2, WFMin
<1>4. \A j \in S : ~(j < i)
  BY <1>1, <1>3
<1>5. QED
  BY <1>3, <1>4

(* A heading that takes the place of another is in the changelog.           *)
LEMMA HeadingReplaced ==
  ASSUME NEW log \in Seq(Heading), NEW i \in DOMAIN log, NEW h \in Heading,
         NEW log1, log1 = [log EXCEPT ![i] = h]
  PROVE  /\ log1 \in Seq(Heading)
         /\ h \in ToSet(log1)
         /\ ToSet(log1) \subseteq ToSet(log) \cup {h}
<1>1. log1 \in Seq(Heading) /\ DOMAIN log1 = DOMAIN log
  BY ExceptSeq
<1>2. \A j \in DOMAIN log : log1[j] = IF j = i THEN h ELSE log[j]
  OBVIOUS
<1>3. QED
  BY <1>1, <1>2 DEF ToSet

(* The script dates the changelog as the version says.                      *)
LEMMA ChangelogTells ==
  ASSUME NEW log \in Seq(Heading), NEW v \in Versions, NEW before \in Versions,
         DatedBy(log, before), Lt(before, v),
         NEW i \in DOMAIN log, NEW log1, log1 = [log EXCEPT ![i] = NewHeading(v)]
  PROVE  log1 \in Seq(Heading) /\ Told(log1, v) /\ DatedBy(log1, v)
<1> DEFINE h == NewHeading(v)
<1>1. h \in Heading /\ h.version = HeadingOf(v) /\ (h.dated <=> ~IsRc(v))
  <2> DEFINE name == HeadingOf(v)
             date == ~IsRc(v)
  <2>1. name \in Versions /\ date \in BOOLEAN /\ h = [version |-> name, dated |-> date]
    BY VersionFacts DEF NewHeading, IsRc
  <2> HIDE DEF h, name, date
  <2>2. h \in Heading /\ h.version = name /\ h.dated = date
    BY <2>1 DEF Heading
  <2>3. QED
    BY <2>2 DEF name, date
<1>2. log1 = [log EXCEPT ![i] = h]
  OBVIOUS
<1> HIDE DEF h
<1>3. /\ log1 \in Seq(Heading) /\ h \in ToSet(log1)
      /\ ToSet(log1) \subseteq ToSet(log) \cup {h}
  BY <1>1, <1>2, HeadingReplaced
<1>4. ToSet(log) \subseteq Heading
  BY ElementOfSeq DEF ToSet
<1>5. \A g \in ToSet(log) : g.dated => Lt(g.version, v)
  <2> SUFFICES ASSUME NEW g \in ToSet(log), g.dated PROVE Lt(g.version, v)
    OBVIOUS
  <2>1. g.version \in AnyVersion /\ Leq(g.version, before)
    BY <1>4, VersionFacts DEF DatedBy, Heading
  <2>2. QED
    BY <2>1, VersionFacts, LtFacts
<1>6. IsRc(v) => \A g \in ToSet(log1) : g.version = HeadingOf(v) => ~g.dated
  <2> SUFFICES ASSUME IsRc(v), NEW g \in ToSet(log1), g.version = HeadingOf(v), g.dated
               PROVE  FALSE
    OBVIOUS
  <2>1. g \in ToSet(log) /\ g.version = FinalOf(v)
    BY <1>1, <1>3 DEF HeadingOf
  <2>2. QED
    BY <1>5, <2>1, FinalFacts
<1>7. Told(log1, v)
  BY <1>1, <1>3, <1>6 DEF Told, HasHeading, HasDated
<1>8. DatedBy(log1, v)
  <2>1. h.dated => h.version = v
    BY <1>1 DEF HeadingOf
  <2>2. QED
    BY <1>3, <1>5, <2>1 DEF DatedBy, Leq
<1>9. QED
  BY <1>3, <1>7, <1>8

(* A heading that is open does not change what the changelog tells.         *)
LEMMA OpenHeading ==
  ASSUME NEW log \in Seq(Heading), NEW v \in Versions,
         NEW log1 \in {log, <<Unreleased>> \o log}
  PROVE  /\ log1 \in Seq(Heading)
         /\ Told(log, v) => Told(log1, v)
         /\ DatedBy(log, v) => DatedBy(log1, v)
<1>1. Unreleased \in Heading /\ ~Unreleased.dated /\ Unreleased.version # HeadingOf(v)
  BY VersionFacts DEF Unreleased, Heading
<1>2. <<Unreleased>> \in Seq(Heading)
  BY <1>1
<1>3. /\ log1 \in Seq(Heading)
      /\ \A h : h \in ToSet(log) => h \in ToSet(log1)
      /\ \A h : h \in ToSet(log1) => h \in ToSet(log) \/ h = Unreleased
  <2>1. CASE log1 = log
    BY <2>1
  <2>2. CASE log1 = <<Unreleased>> \o log
    <3> DEFINE one == <<Unreleased>>
    <3>1. one \in Seq(Heading) /\ Len(one) = 1 /\ one[1] = Unreleased
      BY <1>2
    <3> HIDE DEF one
    <3>2. /\ log1 \in Seq(Heading) /\ Len(log1) = Len(log) + 1
          /\ log1[1] = Unreleased
          /\ \A i \in 1 .. Len(log) : log1[i + 1] = log[i]
          /\ Len(log) \in Nat
      <4>1. log1 = one \o log
        BY <2>2 DEF one
      <4>2. QED
        BY <3>1, <4>1, ConcatProperties
    <3>3. /\ DOMAIN log1 = 1 .. Len(log) + 1 /\ DOMAIN log = 1 .. Len(log)
          /\ \A j \in 2 .. Len(log) + 1 : j - 1 \in 1 .. Len(log) /\ log1[j] = log[j - 1]
      BY <3>2
    <3>4. ASSUME NEW h, h \in ToSet(log) PROVE h \in ToSet(log1)
      <4>1. PICK i \in 1 .. Len(log) : h = log[i]
        BY <3>3, <3>4 DEF ToSet
      <4>2. h = log1[i + 1] /\ i + 1 \in DOMAIN log1
        BY <3>2, <3>3, <4>1
      <4>3. QED
        BY <4>2 DEF ToSet
    <3>5. ASSUME NEW h, h \in ToSet(log1) PROVE h \in ToSet(log) \/ h = Unreleased
      <4>1. PICK j \in 1 .. Len(log) + 1 : h = log1[j]
        BY <3>3, <3>5 DEF ToSet
      <4>2. CASE j = 1
        BY <3>2, <4>1, <4>2
      <4>3. CASE j # 1
        <5>1. j \in 2 .. Len(log) + 1
          BY <3>2, <4>3
        <5>2. QED
          BY <3>3, <4>1, <5>1 DEF ToSet
      <4>4. QED
        BY <4>2, <4>3
    <3>6. QED
      BY <3>2, <3>4, <3>5
  <2>3. QED
    BY <2>1, <2>2
<1>4. QED
  BY <1>1, <1>3 DEF Told, HasHeading, HasDated, DatedBy

-----------------------------------------------------------------------------
(* The invariant *)

(* The branches hold trees, and what is checked out is one of them.         *)
LEMMA BranchFacts ==
  ASSUME ReleaseIInv
  PROVE  /\ branch \in DOMAIN heads /\ branch \in {Master, Temp, 0, 1}
         /\ head \in ReleaseTree /\ work \in ReleaseTree
         /\ head.version \in Versions /\ work.version \in Versions
         /\ heads[Master].version = Base
         /\ branch = Master => head.version = Base
         /\ branch = Temp => head.version \in {Base, FirstRc}
         /\ branch \in ReleaseBranches => head.version.minor = branch
         /\ TreeOK(head)
         /\ \A t \in tags : t.version \in Versions /\ t.tree \in ReleaseTree
<1>1. /\ branch \in DOMAIN heads /\ heads \in [DOMAIN heads -> ReleaseTree]
      /\ DOMAIN heads \subseteq {Master, Temp, 0, 1} /\ work \in ReleaseTree
      /\ tags \subseteq ReleaseTag
  BY DEF ReleaseIInv, ReleaseType, BranchesOK
<1>2. head \in ReleaseTree
  BY <1>1 DEF head
<1>3. \A t \in tags : t.version \in Versions /\ t.tree \in ReleaseTree
  BY <1>1 DEF ReleaseTag
<1>4. \A tree \in ReleaseTree : tree.version \in Versions
  BY DEF ReleaseTree
<1>5. QED
  BY <1>1, <1>2, <1>3, <1>4 DEF ReleaseIInv, BranchesOK, head, ReleaseBranches

(* A later version at the head of a branch leaves the others as they are.   *)
LEMMA HeadMoves ==
  ASSUME ReleaseIInv, NEW tree \in ReleaseTree, TreeOK(tree),
         Leq(head.version, tree.version),
         branch = Master => tree.version = Base,
         branch = Temp => tree.version \in {Base, FirstRc},
         branch \in ReleaseBranches => tree.version.minor = branch,
         NEW hs, hs = [heads EXCEPT ![branch] = tree]
  PROVE  /\ hs \in [DOMAIN hs -> ReleaseTree] /\ DOMAIN hs = DOMAIN heads
         /\ hs[branch] = tree /\ \A b \in DOMAIN heads \ {branch} : hs[b] = heads[b]
         /\ BranchesOK(hs, branch) /\ TagsOK(tags, hs)
<1>1. heads \in [DOMAIN heads -> ReleaseTree] /\ branch \in DOMAIN heads
  BY BranchFacts DEF ReleaseIInv, ReleaseType
<1>2. /\ hs \in [DOMAIN hs -> ReleaseTree] /\ DOMAIN hs = DOMAIN heads
      /\ hs[branch] = tree /\ \A b \in DOMAIN heads \ {branch} : hs[b] = heads[b]
  BY <1>1
<1>3. BranchesOK(hs, branch)
  BY <1>2 DEF ReleaseIInv, BranchesOK
<1>4. \A t \in tags : TagOfBranch(hs, t.version)
  <2> SUFFICES ASSUME NEW t \in tags PROVE TagOfBranch(hs, t.version)
    OBVIOUS
  <2>1. TagOfBranch(heads, t.version)
    BY DEF ReleaseIInv, TagsOK
  <2>2. CASE t.version.minor = branch
    <3>1. Leq(t.version, head.version)
      BY <1>1, <2>1, <2>2 DEF TagOfBranch, head
    <3>2. Leq(t.version, tree.version)
      <4>1. /\ t.version \in AnyVersion /\ head.version \in AnyVersion
            /\ tree.version \in AnyVersion
        BY BranchFacts, VersionFacts DEF ReleaseTree
      <4>2. QED
        BY <3>1, <4>1, LtFacts
    <3>3. QED
      BY <1>1, <1>2, <2>2, <3>2 DEF TagOfBranch
  <2>3. CASE t.version.minor # branch
    BY <1>2, <2>1, <2>3 DEF TagOfBranch
  <2>4. QED
    BY <2>2, <2>3
<1>5. TagsOK(tags, hs)
  BY <1>4 DEF ReleaseIInv, TagsOK
<1>6. QED
  BY <1>2, <1>3, <1>5

(* The branch that "start" works on becomes the first release branch of its *)
(* minor version.                                                           *)
LEMMA TempMoves ==
  ASSUME ReleaseIInv, branch = Temp, head.version = FirstRc, 1 \notin DOMAIN heads,
         NEW hs, hs = TempMovedTo(1)
  PROVE  /\ hs \in [DOMAIN hs -> ReleaseTree]
         /\ DOMAIN hs = (DOMAIN heads \ {Temp}) \cup {1}
         /\ hs[1] = head /\ \A b \in DOMAIN heads \ {Temp} : hs[b] = heads[b]
         /\ BranchesOK(hs, 1) /\ TagsOK(tags, hs)
<1>1. /\ heads \in [DOMAIN heads -> ReleaseTree] /\ Temp \in DOMAIN heads
      /\ BranchesOK(heads, Temp) /\ TagsOK(tags, heads)
      /\ head = heads[Temp] /\ FirstRc.minor = 1
      /\ Temp # 0 /\ Temp # 1 /\ Temp # Master /\ Master # 1 /\ Master # 0
  BY BranchFacts DEF ReleaseIInv, ReleaseType, head, FirstRc, Temp, Master
<1>2. /\ DOMAIN hs = (DOMAIN heads \ {Temp}) \cup {1}
      /\ \A b \in DOMAIN hs : hs[b] = IF b = 1 THEN heads[Temp] ELSE heads[b]
      /\ hs = [b \in DOMAIN hs |-> hs[b]]
  BY DEF TempMovedTo
<1>3. /\ hs[1] = head /\ \A b \in DOMAIN heads \ {Temp} : hs[b] = heads[b]
      /\ \A b \in DOMAIN hs : hs[b] \in ReleaseTree
  BY <1>1, <1>2
<1>4. BranchesOK(hs, 1)
  <2>1. /\ {Master, 0} \subseteq DOMAIN hs /\ DOMAIN hs \subseteq {Master, Temp, 0, 1}
        /\ 1 \in DOMAIN hs /\ Temp \notin DOMAIN hs
    BY <1>1, <1>2 DEF BranchesOK
  <2>2. hs[Master].version = Base
    BY <1>1, <1>3 DEF BranchesOK
  <2>3. \A m \in ReleaseBranches \cap DOMAIN hs : hs[m].version.minor = m
    BY <1>1, <1>2, <1>3 DEF BranchesOK, ReleaseBranches
  <2>4. \A c \in DOMAIN hs : TreeOK(hs[c])
    BY <1>1, <1>2, <1>3 DEF BranchesOK
  <2>5. QED
    BY <2>1, <2>2, <2>3, <2>4 DEF BranchesOK
<1>5. \A t \in tags : TagOfBranch(hs, t.version)
  <2> SUFFICES ASSUME NEW t \in tags PROVE TagOfBranch(hs, t.version)
    OBVIOUS
  <2>1. TagOfBranch(heads, t.version) /\ t.version.minor \in 0 .. 1
    BY <1>1, BranchFacts DEF TagsOK, Versions
  <2>2. CASE t.version.minor = 1
    BY <1>1, <1>2, <1>3, <2>1, <2>2 DEF TagOfBranch, Leq
  <2>3. CASE t.version.minor = 0
    BY <1>1, <1>2, <1>3, <2>1, <2>3 DEF TagOfBranch, BranchesOK
  <2>4. QED
    BY <2>1, <2>2, <2>3
<1>6. TagsOK(tags, hs)
  BY <1>1, <1>5 DEF TagsOK
<1>7. QED
  BY <1>2, <1>3, <1>4, <1>6

(* Before anything is released, what there is has the version of the last   *)
(* release.                                                                 *)
LEMMA InitReleaseIInv == ReleaseInit => ReleaseIInv
<1> SUFFICES ASSUME ReleaseInit PROVE ReleaseIInv
  OBVIOUS
<1>1. PICK present \in SUBSET Released :
        work = [version |-> Base, contractsVersion |-> Base,
                changelog |-> <<Unreleased>>,
                contract |-> [f \in Released |->
                  [comment |-> IF f \in present \ Mocks THEN Base ELSE None,
                   body |-> IF f \in present THEN 1 ELSE 0]]]
  BY DEF ReleaseInit
<1>2. Unreleased \in Heading /\ ~Unreleased.dated
  BY DEF Unreleased, Heading
<1>3. <<Unreleased>> \in Seq(Heading) /\ ToSet(<<Unreleased>>) = {Unreleased}
  BY <1>2 DEF ToSet
<1>4. work \in ReleaseTree
  <2> DEFINE contract == [f \in Released |->
                  [comment |-> IF f \in present \ Mocks THEN Base ELSE None,
                   body |-> IF f \in present THEN 1 ELSE 0]]
  <2>1. contract \in [Released -> SourceFile]
    BY VersionFacts DEF SourceFile
  <2> HIDE DEF contract
  <2>2. work = [version |-> Base, contractsVersion |-> Base,
                changelog |-> <<Unreleased>>, contract |-> contract]
    BY <1>1 DEF contract
  <2>3. QED
    BY <1>3, <2>1, <2>2, VersionFacts DEF ReleaseTree
<1>5. /\ work.version = Base /\ work.contractsVersion = Base
      /\ work.changelog = <<Unreleased>>
  BY <1>1
<1>6. TreeOK(work)
  BY <1>2, <1>3, <1>5 DEF TreeOK, DatedBy
<1>7. /\ pc = "idle" /\ command = "none" /\ branch = Master
      /\ heads = [b \in {Master, 0} |-> work]
      /\ tags = {[version |-> Base, tree |-> work]}
      /\ upstreamTags = tags /\ published = {Base}
      /\ dist = [latest |-> Base, next |-> None]
      /\ Base.minor = 0 /\ Master # Temp /\ Temp # 0 /\ Master # 0 /\ Master # 1
  BY DEF ReleaseInit, Base, Master, Temp
<1>8. /\ DOMAIN heads = {Master, 0} /\ \A b \in DOMAIN heads : heads[b] = work
      /\ head = work /\ heads \in [DOMAIN heads -> ReleaseTree]
  BY <1>4, <1>7 DEF head
<1>9. ReleaseType
  <2>1. [version |-> Base, tree |-> work] \in ReleaseTag
    BY <1>4, VersionFacts DEF ReleaseTag
  <2>2. QED
    BY <1>4, <1>7, <1>8, <2>1, VersionFacts DEF ReleaseType, Steps, Commands
<1>10. BranchesOK(heads, branch)
  BY <1>5, <1>6, <1>7, <1>8 DEF BranchesOK, ReleaseBranches
<1>11. TagsOK(tags, heads)
  BY <1>5, <1>6, <1>7, <1>8 DEF TagsOK, TagOfBranch, Leq
<1>12. WorkOK /\ CommandOK /\ NpmOK
  BY <1>5, <1>7, <1>8 DEF WorkOK, CommandOK, NpmOK, Bumping
<1>13. QED
  BY <1>9, <1>10, <1>11, <1>12 DEF ReleaseIInv

(* What npm version has not committed is on a branch of its own kind; only  *)
(* on the branch of "start" may its version have a tag.                     *)
LEMMA TaggedIsHead ==
  ASSUME ReleaseIInv, work.version \in Tagged
  PROVE  work = head \/ branch = Temp
<1> SUFFICES ASSUME work # head, branch # Temp PROVE FALSE
  OBVIOUS
<1>1. /\ work.version.minor = branch /\ branch \in DOMAIN heads
      /\ Lt(head.version, work.version)
  BY BranchFacts DEF ReleaseIInv, WorkOK, MinorOf
<1>2. PICK t \in tags : t.version = work.version
  BY DEF Tagged
<1>3. Leq(work.version, head.version)
  BY <1>1, <1>2 DEF ReleaseIInv, TagsOK, TagOfBranch, head
<1>4. work.version \in AnyVersion /\ head.version \in AnyVersion
  BY BranchFacts, VersionFacts
<1>5. QED
  BY <1>1, <1>3, <1>4, LtFacts

(* A step that leaves the branches and the tags alone.                      *)
LEMMA GitStays ==
  ASSUME ReleaseIInv, UNCHANGED <<heads, branch, tags>>
  PROVE  /\ head' = head /\ BranchesOK(heads, branch)' /\ TagsOK(tags, heads)'
         /\ (heads \in [DOMAIN heads -> ReleaseTree])' /\ tags' \subseteq ReleaseTag
BY DEF ReleaseIInv, ReleaseType, head

(* A change to a contract.                                                  *)
LEMMA EditOK ==
  ASSUME ReleaseIInv, NEW f \in Released, Edit(f), edits \in Nat
  PROVE  ReleaseIInv'
<1>1. PICK log \in {head.changelog, <<Unreleased>> \o head.changelog} :
        work' = [head EXCEPT !.contract[f].body = edits + 2, !.changelog = log]
  BY DEF Edit
<1>2. /\ pc = "idle" /\ work = head /\ heads' = [heads EXCEPT ![branch] = work']
      /\ UNCHANGED <<pc, command, branch, tags, upstreamTags, published, dist>>
  BY DEF Edit, npm
<1>3. /\ head \in ReleaseTree /\ head.version \in Versions
      /\ head.changelog \in Seq(Heading) /\ TreeOK(head)
  BY BranchFacts DEF ReleaseTree
<1>4. /\ log \in Seq(Heading)
      /\ Told(head.changelog, head.version) => Told(log, head.version)
      /\ DatedBy(head.changelog, head.version) => DatedBy(log, head.version)
  BY <1>3, OpenHeading
<1>5. /\ work' \in ReleaseTree /\ work'.version = head.version
      /\ work'.contractsVersion = head.contractsVersion /\ work'.changelog = log
  <2> DEFINE files == [head.contract EXCEPT ![f].body = edits + 2]
  <2>1. head.contract \in [Released -> SourceFile]
    BY <1>3 DEF ReleaseTree
  <2>2. files \in [Released -> SourceFile]
    BY <2>1 DEF SourceFile
  <2>3. work' = [head EXCEPT !.contract = files, !.changelog = log]
    BY <1>1
  <2> HIDE DEF files
  <2>4. QED
    BY <1>3, <1>4, <2>2, <2>3 DEF ReleaseTree
<1>6. TreeOK(work')
  BY <1>3, <1>4, <1>5 DEF TreeOK
<1>7. Leq(head.version, work'.version)
  BY <1>5 DEF Leq
<1>8. /\ (heads \in [DOMAIN heads -> ReleaseTree])' /\ heads'[branch] = work'
      /\ BranchesOK(heads', branch) /\ TagsOK(tags, heads')
  BY <1>2, <1>5, <1>6, <1>7, BranchFacts, HeadMoves
<1>9. head' = work'
  BY <1>2, <1>8 DEF head
<1>10. ReleaseType' /\ NpmOK'
  BY <1>2, <1>5, <1>8 DEF ReleaseIInv, ReleaseType, NpmOK
<1>11. BranchesOK(heads, branch)' /\ TagsOK(tags, heads)'
  BY <1>2, <1>8
<1>12. WorkOK' /\ CommandOK'
  BY <1>2, <1>5, <1>6, <1>9 DEF WorkOK, CommandOK, TreeOK, Bumping
<1>13. QED
  BY <1>10, <1>11, <1>12 DEF ReleaseIInv

(* What else the maintainer does between runs.                              *)
LEMMA MaintainerOK ==
  ASSUME ReleaseIInv, Discard \/ (\E b \in DOMAIN heads : Checkout(b)) \/ LeaveTemp
  PROVE  ReleaseIInv'
<1>1. /\ pc = "idle"
      /\ UNCHANGED <<pc, command, tags, upstreamTags, published, dist>>
  BY DEF Discard, Checkout, LeaveTemp, git, npm
<1>2. /\ (heads \in [DOMAIN heads -> ReleaseTree])'
      /\ BranchesOK(heads', branch') /\ TagsOK(tags, heads') /\ work' = heads'[branch']
  <2>1. CASE Discard
    BY <2>1 DEF Discard, git, ReleaseIInv, ReleaseType, head
  <2>2. ASSUME NEW b \in DOMAIN heads, Checkout(b)
        PROVE  /\ (heads \in [DOMAIN heads -> ReleaseTree])'
               /\ BranchesOK(heads', branch') /\ TagsOK(tags, heads')
               /\ work' = heads'[branch']
    <3>1. /\ branch # Temp /\ branch' = b /\ work' = heads[b] /\ heads' = heads
          /\ b \in DOMAIN heads
      BY <2>2 DEF Checkout
    <3>2. Temp \notin DOMAIN heads
      BY <3>1 DEF ReleaseIInv, BranchesOK
    <3>3. BranchesOK(heads, b)
      BY <3>1, <3>2 DEF ReleaseIInv, BranchesOK
    <3>4. QED
      BY <3>1, <3>3 DEF ReleaseIInv, ReleaseType
  <2>3. CASE LeaveTemp /\ branch' = Master /\ heads' = Restrict(heads, DOMAIN heads \ {Temp})
    <3>1. /\ heads' = [b \in DOMAIN heads \ {Temp} |-> heads[b]]
          /\ heads \in [DOMAIN heads -> ReleaseTree] /\ work' = heads'[branch']
      BY <2>3 DEF Restrict, LeaveTemp, ReleaseIInv, ReleaseType
    <3>2. /\ DOMAIN heads' = DOMAIN heads \ {Temp}
          /\ \A b \in DOMAIN heads' : heads'[b] = heads[b]
          /\ heads' \in [DOMAIN heads' -> ReleaseTree]
      BY <3>1
    <3>3. Temp # Master /\ Temp # 0 /\ Temp # 1 /\ Temp \notin ReleaseBranches
      BY DEF Temp, Master, ReleaseBranches
    <3>4. BranchesOK(heads', branch')
      BY <2>3, <3>2, <3>3 DEF ReleaseIInv, BranchesOK
    <3>5. \A t \in tags : t.version.minor \in ReleaseBranches
      BY BranchFacts DEF Versions, ReleaseBranches
    <3>6. TagsOK(tags, heads')
      BY <3>2, <3>3, <3>5 DEF ReleaseIInv, TagsOK, TagOfBranch
    <3>7. QED
      BY <3>1, <3>2, <3>4, <3>6
  <2>4. CASE /\ LeaveTemp /\ head.version # Base /\ head.version.minor \notin DOMAIN heads
             /\ branch' = head.version.minor /\ heads' = TempMovedTo(branch')
    <3>1. branch = Temp /\ head.version = FirstRc /\ work' = heads'[branch']
      BY <2>4, BranchFacts DEF LeaveTemp
    <3>2. branch' = 1
      BY <2>4, <3>1 DEF FirstRc
    <3>3. QED
      BY <2>4, <3>1, <3>2, TempMoves
  <2>5. QED
    BY <2>1, <2>2, <2>3, <2>4 DEF LeaveTemp
<1>3. branch' \in DOMAIN heads' /\ work' \in ReleaseTree /\ TreeOK(work')
  BY <1>2 DEF BranchesOK
<1>4. head' = work'
  BY <1>2 DEF head
<1>5. ReleaseType' /\ NpmOK'
  BY <1>1, <1>2, <1>3 DEF ReleaseIInv, ReleaseType, NpmOK
<1>6. WorkOK' /\ CommandOK'
  BY <1>1, <1>3, <1>4 DEF WorkOK, CommandOK, TreeOK, Bumping
<1>7. BranchesOK(heads, branch)' /\ TagsOK(tags, heads)'
  BY <1>1, <1>2
<1>8. QED
  BY <1>5, <1>6, <1>7 DEF ReleaseIInv

(* release.sh starts: on the branch of the version, or on a new branch.     *)
LEMMA RunOK ==
  ASSUME ReleaseIInv, NEW c \in {"start", "rc", "final", "push"}, Run(c)
  PROVE  ReleaseIInv'
<1>1. /\ pc = "idle" /\ command' = c
      /\ pc' = IF c = "push" THEN "push" ELSE "bump"
      /\ c = "start" => branch = Master
      /\ c \in {"rc", "final"} => branch = work.version.minor
      /\ c # "push" => Bumped(work.version, c) \in Versions
      /\ UNCHANGED <<work, tags, upstreamTags, published, dist>>
  BY DEF Run, npm
<1>2. CASE c = "start"
  <2>1. /\ branch' = Temp /\ pc' = "bump" /\ branch = Master
        /\ heads' = [b \in DOMAIN heads \cup {Temp} |-> IF b = Temp THEN head ELSE heads[b]]
    BY <1>1, <1>2 DEF Run
  <2>2. /\ work = head /\ head.version = Base /\ head \in ReleaseTree /\ TreeOK(head)
        /\ Temp \notin DOMAIN heads /\ heads \in [DOMAIN heads -> ReleaseTree]
        /\ Temp # Master /\ Temp # 0 /\ Temp # 1 /\ Temp \notin ReleaseBranches
    BY <2>1, BranchFacts
    DEF ReleaseIInv, ReleaseType, WorkOK, BranchesOK, Temp, Master, ReleaseBranches
  <2>3. /\ DOMAIN heads' = DOMAIN heads \cup {Temp} /\ heads'[Temp] = head
        /\ \A b \in DOMAIN heads : heads'[b] = heads[b]
        /\ heads' \in [DOMAIN heads' -> ReleaseTree]
    BY <2>1, <2>2
  <2>4. BranchesOK(heads', branch')
    BY <2>1, <2>2, <2>3 DEF ReleaseIInv, BranchesOK
  <2>5. \A t \in tags : t.version.minor # Temp
    BY <2>2, BranchFacts DEF Versions
  <2>6. TagsOK(tags, heads')
    BY <2>3, <2>5 DEF ReleaseIInv, TagsOK, TagOfBranch
  <2>7. head' = head
    BY <2>1, <2>3 DEF head
  <2>8. ReleaseType' /\ NpmOK'
    BY <1>1, <1>2, <2>1, <2>3 DEF ReleaseIInv, ReleaseType, NpmOK, Steps, Commands
  <2>9. WorkOK' /\ CommandOK'
    BY <1>1, <1>2, <2>1, <2>2, <2>7 DEF WorkOK, CommandOK, TreeOK, Bumping
  <2>10. BranchesOK(heads, branch)' /\ TagsOK(tags, heads)'
    BY <1>1, <2>4, <2>6
  <2>11. QED
    BY <2>8, <2>9, <2>10 DEF ReleaseIInv
<1>3. CASE c # "start"
  <2>1. UNCHANGED <<heads, branch>>
    BY <1>3 DEF Run
  <2>2. /\ head' = head /\ BranchesOK(heads, branch)' /\ TagsOK(tags, heads)'
        /\ (heads \in [DOMAIN heads -> ReleaseTree])'
    BY <1>1, <2>1, GitStays
  <2>3. c # "push" => branch \in ReleaseBranches
    BY <1>1, <1>3, BranchFacts DEF Versions, ReleaseBranches
  <2>4. ReleaseType' /\ NpmOK'
    BY <1>1, <2>2 DEF ReleaseIInv, ReleaseType, NpmOK, Steps, Commands
  <2>5. WorkOK'
    BY <1>1, <2>1, <2>2 DEF ReleaseIInv, WorkOK
  <2>6. CommandOK'
    BY <1>1, <1>3, <2>1, <2>2, <2>3 DEF CommandOK, Bumping
  <2>7. QED
    BY <2>2, <2>4, <2>5, <2>6 DEF ReleaseIInv
<1>4. QED
  BY <1>2, <1>3

(* npm version starts from what is committed, and bumps the version.        *)
LEMMA BumpOK ==
  ASSUME ReleaseIInv, Bump
  PROVE  ReleaseIInv'
<1>1. /\ pc = "bump" /\ pc' = IF work = head THEN "changelog" ELSE "idle"
      /\ command' = IF pc' = "idle" THEN "none" ELSE command
      /\ work' = IF work = head
                   THEN [work EXCEPT !.version = Bumped(@, command)] ELSE work
      /\ UNCHANGED <<heads, branch, tags, upstreamTags, published, dist>>
  BY DEF Bump, Step, git, npm
<1>2. /\ head' = head /\ BranchesOK(heads, branch)' /\ TagsOK(tags, heads)'
      /\ (heads \in [DOMAIN heads -> ReleaseTree])'
  BY <1>1, GitStays
<1>3. NpmOK'
  BY <1>1 DEF ReleaseIInv, NpmOK
<1>4. CASE work = head
  <2>1. /\ work \in ReleaseTree /\ work.version \in Versions /\ TreeOK(head)
        /\ command \in {"start", "rc", "final"}
        /\ Bumped(work.version, command) \in Versions
        /\ command = "start" => work.version = Base /\ branch = Temp
        /\ command # "start" => branch = work.version.minor /\ branch \in ReleaseBranches
        /\ Temp \notin ReleaseBranches /\ Master \notin ReleaseBranches /\ Temp # Master
    BY <1>1, <1>4, BranchFacts
    DEF ReleaseIInv, CommandOK, Bumping, ReleaseBranches, Temp, Master
  <2> DEFINE bumped == Bumped(work.version, command)
  <2>2. /\ work' \in ReleaseTree /\ work'.version = bumped
        /\ work'.changelog = work.changelog
        /\ work'.contractsVersion = work.contractsVersion
    BY <1>1, <1>4, <2>1 DEF ReleaseTree
  <2>3. /\ Lt(work.version, bumped)
        /\ command = "final" => IsFinal(bumped)
        /\ command # "start" => /\ bumped.minor = work.version.minor
                                /\ ~IsFinal(work.version) => FinalOf(bumped) = FinalOf(work.version)
        /\ command = "start" => bumped = FirstRc
    BY <2>1, BumpedGrows
  <2> HIDE DEF bumped
  <2>4. work' # head
    <3>1. ~Lt(work.version, work.version)
      BY <2>1, VersionFacts, LtFacts
    <3>2. QED
      BY <1>4, <2>2, <2>3, <3>1
  <2>5. ReleaseType'
    BY <1>1, <1>2, <1>4, <2>2 DEF ReleaseIInv, ReleaseType, Steps
  <2>6. WorkOK'
    <3>1. bumped.minor = MinorOf(branch) /\ branch # Master
      BY <2>1, <2>3 DEF MinorOf, FirstRc
    <3>2. branch = Temp => command = "start"
      BY <2>1
    <3>3. IsFinal(Base)
      BY VersionFacts
    <3>4. QED
      BY <1>1, <1>2, <1>4, <2>1, <2>2, <2>3, <2>4, <3>1, <3>2, <3>3 DEF WorkOK, TreeOK
  <2>7. CommandOK'
    BY <1>1, <1>4, <2>1, <2>2, <2>3 DEF CommandOK, Bumping
  <2>8. QED
    BY <1>2, <1>3, <2>5, <2>6, <2>7 DEF ReleaseIInv
<1>5. CASE work # head
  <2>1. ReleaseType' /\ WorkOK' /\ CommandOK'
    BY <1>1, <1>2, <1>5
    DEF ReleaseIInv, ReleaseType, WorkOK, CommandOK, Steps, Commands, Bumping
  <2>2. QED
    BY <1>2, <1>3, <2>1 DEF ReleaseIInv
<1>6. QED
  BY <1>4, <1>5

(* A script that stops leaves the working tree as it is.                    *)
LEMMA StopOK ==
  ASSUME ReleaseIInv, pc' = "idle", command' = "none",
         UNCHANGED <<heads, branch, tags, upstreamTags, published, dist>>,
         work' = work
  PROVE  ReleaseIInv'
<1>1. /\ head' = head /\ BranchesOK(heads, branch)' /\ TagsOK(tags, heads)'
      /\ (heads \in [DOMAIN heads -> ReleaseTree])'
  BY GitStays
<1>2. ReleaseType' /\ WorkOK' /\ CommandOK' /\ NpmOK'
  BY <1>1
  DEF ReleaseIInv, ReleaseType, WorkOK, CommandOK, NpmOK, Steps, Commands, Bumping
<1>3. QED
  BY <1>1, <1>2 DEF ReleaseIInv

(* The changelog is dated, or the script stops.                             *)
LEMMA ChangelogOK ==
  ASSUME ReleaseIInv, UpdateChangelog
  PROVE  ReleaseIInv'
<1> DEFINE matching == Matching(work.changelog, work.version)
           first == CHOOSE i \in matching : \A j \in matching : i <= j
           log == [work.changelog EXCEPT ![first] = NewHeading(work.version)]
<1>1. /\ pc = "changelog"
      /\ pc' = IF matching # {} THEN "synchronize" ELSE "idle"
      /\ command' = IF pc' = "idle" THEN "none" ELSE command
      /\ work' = IF matching = {} THEN work
                 ELSE [work EXCEPT !.changelog[first] = NewHeading(work.version)]
      /\ UNCHANGED <<heads, branch, tags, upstreamTags, published, dist>>
  BY DEF UpdateChangelog, Step, git, npm
<1>2. /\ head' = head /\ BranchesOK(heads, branch)' /\ TagsOK(tags, heads)'
      /\ (heads \in [DOMAIN heads -> ReleaseTree])'
  BY <1>1, GitStays
<1>3. /\ work \in ReleaseTree /\ work.changelog \in Seq(Heading)
      /\ work.version \in Versions /\ head.version \in Versions
      /\ Lt(head.version, work.version) /\ DatedBy(work.changelog, head.version)
  BY <1>1, BranchFacts DEF ReleaseIInv, ReleaseTree, WorkOK, TreeOK
<1>4. CASE matching = {}
  <2>1. pc' = "idle" /\ command' = "none" /\ work' = work
    BY <1>1, <1>4
  <2>2. QED
    BY <1>1, <2>1, StopOK
<1>5. CASE matching # {}
  <2>1. matching \subseteq DOMAIN work.changelog /\ matching \subseteq Nat
    BY <1>3 DEF Matching
  <2>2. first \in DOMAIN work.changelog
    BY <1>5, <2>1, FirstExists
  <2>3. work' = [work EXCEPT !.changelog = log]
    BY <1>1, <1>3, <1>5 DEF ReleaseTree
  <2> HIDE DEF first
  <2>4. log \in Seq(Heading) /\ Told(log, work.version) /\ DatedBy(log, work.version)
    BY <1>3, <2>2, ChangelogTells
  <2> HIDE DEF log, matching
  <2>5. /\ work' \in ReleaseTree /\ work'.version = work.version
        /\ work'.contractsVersion = work.contractsVersion
        /\ work'.changelog = log
    BY <1>3, <2>3, <2>4 DEF ReleaseTree
  <2>6. ReleaseType' /\ NpmOK'
    BY <1>1, <1>2, <1>5, <2>5 DEF ReleaseIInv, ReleaseType, NpmOK, Steps
  <2>7. WorkOK'
    <3>1. work' # head
      BY <1>3, <2>5, VersionFacts, LtFacts
    <3>2. QED
      BY <1>1, <1>2, <1>5, <2>4, <2>5, <3>1 DEF ReleaseIInv, WorkOK
  <2>8. CommandOK'
    BY <1>1, <1>5, <2>5 DEF ReleaseIInv, CommandOK, Bumping
  <2>9. QED
    BY <1>2, <2>6, <2>7, <2>8 DEF ReleaseIInv
<1>6. QED
  BY <1>4, <1>5

(* The package of the contracts gets the version.                           *)
LEMMA SynchronizeOK ==
  ASSUME ReleaseIInv, SynchronizeVersions
  PROVE  ReleaseIInv'
<1>1. /\ pc = "synchronize" /\ pc' = "comment" /\ command' = command
      /\ work' = [work EXCEPT !.contractsVersion = work.version]
      /\ UNCHANGED <<heads, branch, tags, upstreamTags, published, dist>>
  BY DEF SynchronizeVersions, Step, git, npm
<1>2. /\ head' = head /\ BranchesOK(heads, branch)' /\ TagsOK(tags, heads)'
      /\ (heads \in [DOMAIN heads -> ReleaseTree])'
  BY <1>1, GitStays
<1>3. /\ work' \in ReleaseTree /\ work'.version = work.version
      /\ work'.changelog = work.changelog /\ work'.contractsVersion = work.version
      /\ Lt(head.version, work.version) /\ work.version \in Versions
      /\ head.version \in Versions
  BY <1>1, BranchFacts DEF ReleaseTree, ReleaseIInv, WorkOK
<1>4. work' # head
  BY <1>3, VersionFacts, LtFacts
<1>5. ReleaseType' /\ NpmOK' /\ CommandOK'
  BY <1>1, <1>2, <1>3 DEF ReleaseIInv, ReleaseType, NpmOK, CommandOK, Steps, Bumping
<1>6. WorkOK'
  BY <1>1, <1>2, <1>3, <1>4 DEF ReleaseIInv, WorkOK
<1>7. QED
  BY <1>2, <1>5, <1>6 DEF ReleaseIInv

(* Comments change nothing else in the working tree.                        *)
LEMMA CommentOK ==
  ASSUME ReleaseIInv, UpdateComment
  PROVE  ReleaseIInv'
<1>1. /\ pc = "comment" /\ pc' = IF work.contract = head.contract THEN "commit" ELSE "idle"
      /\ command' = IF pc' = "idle" THEN "none" ELSE command
      /\ UNCHANGED <<heads, branch, tags, upstreamTags, published, dist>>
  BY DEF UpdateComment, Step, git, npm
<1>2. PICK changed :
        work' = IF work.contract # head.contract THEN work
                ELSE [work EXCEPT !.contract = [f \in Released |->
                        IF f \in changed THEN [@[f] EXCEPT !.comment = work.version]
                                         ELSE @[f]]]
  BY DEF UpdateComment
<1>3. CASE work.contract # head.contract
  <2>1. pc' = "idle" /\ command' = "none" /\ work' = work
    BY <1>1, <1>2, <1>3
  <2>2. QED
    BY <1>1, <2>1, StopOK
<1>4. CASE work.contract = head.contract
  <2>1. /\ head' = head /\ BranchesOK(heads, branch)' /\ TagsOK(tags, heads)'
        /\ (heads \in [DOMAIN heads -> ReleaseTree])'
    BY <1>1, GitStays
  <2>2. /\ work' \in ReleaseTree /\ work'.version = work.version
        /\ work'.changelog = work.changelog
        /\ work'.contractsVersion = work.contractsVersion
    <3> DEFINE files == [f \in Released |->
                 IF f \in changed THEN [work.contract[f] EXCEPT !.comment = work.version]
                                  ELSE work.contract[f]]
    <3>1. work \in ReleaseTree /\ work.contract \in [Released -> SourceFile]
      BY BranchFacts DEF ReleaseTree
    <3>2. files \in [Released -> SourceFile]
      BY <3>1 DEF SourceFile, ReleaseTree
    <3>3. work' = [work EXCEPT !.contract = files]
      BY <1>2, <1>4
    <3> HIDE DEF files
    <3>4. QED
      BY <3>1, <3>2, <3>3 DEF ReleaseTree
  <2>3. work' # head
    <3>1. Lt(head.version, work.version)
      BY <1>1 DEF ReleaseIInv, WorkOK
    <3>2. QED
      BY <2>2, <3>1, BranchFacts, VersionFacts, LtFacts
  <2>4. ReleaseType' /\ NpmOK' /\ CommandOK'
    BY <1>1, <1>4, <2>1, <2>2
    DEF ReleaseIInv, ReleaseType, NpmOK, CommandOK, Steps, Bumping
  <2>5. WorkOK'
    BY <1>1, <1>4, <2>1, <2>2, <2>3 DEF ReleaseIInv, WorkOK
  <2>6. QED
    BY <2>1, <2>4, <2>5 DEF ReleaseIInv
<1>5. QED
  BY <1>3, <1>4

(* No branch is behind the last release before these.                       *)
LEMMA BaseFirst ==
  ASSUME ReleaseIInv
  PROVE  Leq(Base, head.version)
<1>1. /\ branch \in DOMAIN heads /\ branch \in {Master, Temp, 0, 1}
      /\ branch \in ReleaseBranches => head.version.minor = branch
  BY BranchFacts
<1>2. PICK t \in tags : t.version = Base
  BY DEF ReleaseIInv, TagsOK
<1>3. CASE branch = 0
  BY <1>1, <1>2, <1>3 DEF ReleaseIInv, TagsOK, TagOfBranch, Base, head
<1>4. CASE branch = 1
  BY <1>1, <1>4 DEF Leq, Lt, Base, ReleaseBranches
<1>5. CASE branch \in {Master, Temp}
  BY <1>5, BranchFacts DEF Leq, Lt, Base, FirstRc
<1>6. QED
  BY <1>1, <1>3, <1>4, <1>5

(* What is committed is what the scripts made of the working tree.          *)
LEMMA CommitReleaseOK ==
  ASSUME ReleaseIInv, Commit
  PROVE  ReleaseIInv'
<1>1. /\ pc = "commit" /\ pc' = "tag" /\ command' = command
      /\ heads' = [heads EXCEPT ![branch] = work]
      /\ UNCHANGED <<work, branch, tags, upstreamTags, published, dist>>
  BY DEF Commit, Step, npm
<1>2. /\ Lt(head.version, work.version) /\ work.contractsVersion = work.version
      /\ Told(work.changelog, work.version) /\ DatedBy(work.changelog, work.version)
      /\ branch # Master /\ work.version.minor = MinorOf(branch)
      /\ branch = Temp => work.version = FirstRc
  BY <1>1 DEF ReleaseIInv, WorkOK
<1>3. /\ work \in ReleaseTree /\ TreeOK(work) /\ Leq(head.version, work.version)
      /\ branch \in ReleaseBranches => work.version.minor = branch
      /\ branch \in DOMAIN heads
  BY <1>2, BranchFacts DEF TreeOK, Leq, MinorOf, ReleaseBranches, Temp
<1>4. /\ (heads \in [DOMAIN heads -> ReleaseTree])'
      /\ BranchesOK(heads', branch) /\ TagsOK(tags, heads') /\ heads'[branch] = work
  BY <1>1, <1>2, <1>3, HeadMoves
<1>5. head' = work
  BY <1>1, <1>4 DEF head
<1>6. work.version # Base
  BY <1>2, BaseFirst, BranchFacts, VersionFacts, LtFacts
<1>7. ReleaseType' /\ NpmOK' /\ CommandOK'
  BY <1>1, <1>4 DEF ReleaseIInv, ReleaseType, NpmOK, CommandOK, Steps, Bumping
<1>8. WorkOK'
  BY <1>1, <1>2, <1>5, <1>6 DEF WorkOK
<1>9. BranchesOK(heads, branch)' /\ TagsOK(tags, heads)'
  BY <1>1, <1>4
<1>10. QED
  BY <1>7, <1>8, <1>9 DEF ReleaseIInv

(* A tag is for a version that has none.                                    *)
LEMMA TagOK ==
  ASSUME ReleaseIInv, Tag
  PROVE  ReleaseIInv'
<1>1. /\ pc = "tag"
      /\ pc' = IF head.version \notin Tagged
                 THEN IF command = "start" THEN "rename" ELSE "push" ELSE "idle"
      /\ command' = IF pc' = "idle" THEN "none" ELSE command
      /\ tags' = IF head.version \in Tagged THEN tags
                 ELSE tags \cup {[version |-> head.version, tree |-> head]}
      /\ UNCHANGED <<heads, branch, work, upstreamTags, published, dist>>
  BY DEF Tag, Step, npm
<1>2. CASE head.version \in Tagged
  <2>1. pc' = "idle" /\ command' = "none" /\ tags' = tags
    BY <1>1, <1>2
  <2>2. QED
    BY <1>1, <2>1, StopOK
<1>3. CASE head.version \notin Tagged
  <2> DEFINE new == [version |-> head.version, tree |-> head]
  <2>1. /\ new \in ReleaseTag /\ new.version = head.version /\ new.tree = head
        /\ tags' = tags \cup {new}
    BY <1>1, <1>3, BranchFacts DEF ReleaseTag
  <2> HIDE DEF new
  <2>2. \A t \in tags : t.version # head.version
    BY <1>3 DEF Tagged
  <2>3. /\ head' = head /\ work = head /\ command \in {"start", "rc", "final"}
        /\ command = "start" => branch = Temp
        /\ command # "start" => branch \in ReleaseBranches
        /\ head.version # Base /\ pc' # "idle"
    BY <1>1, <1>3 DEF head, ReleaseIInv, WorkOK, CommandOK, Bumping
  <2>4. TagOfBranch(heads, head.version)
    <3>1. CASE branch = Temp
      <4>1. head.version = FirstRc
        BY <2>3, <3>1, BranchFacts
      <4>2. 1 \in DOMAIN heads => Leq(FirstRc, heads[1].version)
        <5> SUFFICES ASSUME 1 \in DOMAIN heads PROVE Leq(FirstRc, heads[1].version)
          OBVIOUS
        <5>1. heads[1].version \in Versions /\ heads[1].version.minor = 1
          BY DEF ReleaseIInv, ReleaseType, ReleaseTree, BranchesOK, ReleaseBranches
        <5>2. QED
          BY <5>1, VersionFacts DEF Versions, FirstRc, Leq, Lt
      <4>3. QED
        BY <4>1, <4>2 DEF TagOfBranch, FirstRc
    <3>2. CASE branch \in ReleaseBranches
      <4>1. head.version.minor = branch /\ branch \in DOMAIN heads
        BY <3>2, BranchFacts
      <4>2. QED
        BY <4>1 DEF TagOfBranch, Leq, head
    <3>3. QED
      BY <2>3, <3>1, <3>2
  <2>5. TagsOK(tags', heads)
    BY <2>1, <2>2, <2>4, BranchFacts DEF ReleaseIInv, TagsOK
  <2>6. ReleaseType' /\ NpmOK' /\ WorkOK'
    BY <1>1, <1>3, <2>1, <2>3 DEF ReleaseIInv, ReleaseType, NpmOK, WorkOK, Steps
  <2>7. CommandOK'
    BY <1>1, <1>3, <2>3 DEF ReleaseIInv, CommandOK, Bumping
  <2>8. BranchesOK(heads, branch)' /\ TagsOK(tags, heads)'
    BY <1>1, <2>5 DEF ReleaseIInv
  <2>9. QED
    BY <2>6, <2>7, <2>8 DEF ReleaseIInv
<1>4. QED
  BY <1>2, <1>3

(* The branch of "start" gets the name of a release branch, or the script   *)
(* stops because there is one.                                              *)
LEMMA RenameOK ==
  ASSUME ReleaseIInv, RenameBranch
  PROVE  ReleaseIInv'
<1> DEFINE possible == work.version.minor \notin DOMAIN heads
<1>1. /\ pc = "rename" /\ pc' = IF possible THEN "push" ELSE "idle"
      /\ command' = IF pc' = "idle" THEN "none" ELSE command
      /\ branch' = IF possible THEN work.version.minor ELSE branch
      /\ heads' = IF possible THEN TempMovedTo(work.version.minor) ELSE heads
      /\ UNCHANGED <<work, tags, upstreamTags, published, dist>>
  BY DEF RenameBranch, Step, npm
<1>2. CASE ~possible
  <2>1. pc' = "idle" /\ command' = "none" /\ UNCHANGED <<heads, branch>>
    BY <1>1, <1>2
  <2>2. QED
    BY <1>1, <2>1, StopOK
<1>3. CASE possible
  <2>1. /\ command = "start" /\ branch = Temp /\ work = head /\ head.version = FirstRc
        /\ work.version.minor = 1
    <3>1. command = "start" /\ branch = Temp /\ work = head /\ head.version # Base
      BY <1>1 DEF ReleaseIInv, CommandOK, WorkOK, Bumping
    <3>2. QED
      BY <3>1, BranchFacts DEF FirstRc
  <2>2. /\ (heads \in [DOMAIN heads -> ReleaseTree])' /\ heads'[1] = head
        /\ BranchesOK(heads', 1) /\ TagsOK(tags, heads') /\ branch' = 1
    BY <1>1, <1>3, <2>1, TempMoves
  <2>3. head' = head /\ TreeOK(head) /\ pc' = "push" /\ command' = command
    BY <1>1, <1>3, <2>2, BranchFacts DEF head
  <2>4. ReleaseType' /\ NpmOK'
    BY <1>1, <2>2, <2>3 DEF ReleaseIInv, ReleaseType, NpmOK, Steps
  <2>5. WorkOK' /\ CommandOK'
    BY <1>1, <2>1, <2>3 DEF WorkOK, CommandOK, TreeOK, Bumping
  <2>6. BranchesOK(heads, branch)' /\ TagsOK(tags, heads)'
    BY <1>1, <2>2
  <2>7. QED
    BY <2>4, <2>5, <2>6 DEF ReleaseIInv
<1>4. QED
  BY <1>2, <1>3

(* What is pushed is a tag of the clone, and the package that is published  *)
(* next has its version, or that of the last release before these.          *)
LEMMA PushReleaseOK ==
  ASSUME ReleaseIInv, PushReleaseBranchAndTag
  PROVE  ReleaseIInv'
<1> DEFINE possible == work.version.minor \in DOMAIN heads /\ work.version \in Tagged
<1>1. /\ pc = "push" /\ pc' = IF possible THEN "publish" ELSE "idle"
      /\ command' = IF pc' = "idle" THEN "none" ELSE command
      /\ upstreamTags' = IF possible THEN upstreamTags \cup {TagOf(work.version)}
                                     ELSE upstreamTags
      /\ UNCHANGED <<heads, branch, work, tags, published, dist>>
  BY DEF PushReleaseBranchAndTag, Step, Pushed, npm
<1>2. CASE ~possible
  <2>1. pc' = "idle" /\ command' = "none" /\ UNCHANGED upstreamTags
    BY <1>1, <1>2
  <2>2. QED
    BY <1>1, <2>1, StopOK
<1>3. CASE possible
  <2>1. /\ TagOf(work.version) \in tags /\ TagOf(work.version).version = work.version
        /\ work = head \/ branch = Temp
    BY <1>3, TaggedIsHead DEF Tagged, TagOf, TagIn
  <2>2. /\ head' = head /\ BranchesOK(heads, branch)' /\ TagsOK(tags, heads)'
        /\ (heads \in [DOMAIN heads -> ReleaseTree])'
    BY <1>1, GitStays
  <2>3. /\ pc' = "publish" /\ command' = command
        /\ upstreamTags' = upstreamTags \cup {TagOf(work.version)}
    BY <1>1, <1>3
  <2> HIDE DEF possible
  <2>4. ReleaseType' /\ WorkOK' /\ NpmOK'
    BY <1>1, <2>1, <2>2, <2>3 DEF ReleaseIInv, ReleaseType, WorkOK, NpmOK, Steps
  <2>5. work.contractsVersion \in {Base, work.version}
    <3>1. work.contractsVersion \in {head.version, work.version}
      BY DEF ReleaseIInv, WorkOK
    <3>2. CASE work = head
      BY <3>1, <3>2
    <3>3. CASE work # head
      <4>1. /\ work.version = FirstRc /\ Lt(head.version, FirstRc)
            /\ head.version \in {Base, FirstRc}
        BY <2>1, <3>3, BranchFacts DEF ReleaseIInv, WorkOK
      <4>2. head.version = Base
        BY <4>1, VersionFacts, LtFacts
      <4>3. QED
        BY <3>1, <4>2
    <3>4. QED
      BY <3>2, <3>3
  <2>6. work.contractsVersion \in {t.version : t \in upstreamTags'}
    BY <2>1, <2>3, <2>5 DEF ReleaseIInv, NpmOK
  <2>7. CommandOK'
    BY <1>1, <2>1, <2>2, <2>3, <2>6 DEF ReleaseIInv, CommandOK, Bumping
  <2>8. QED
    BY <2>2, <2>4, <2>7 DEF ReleaseIInv
<1>4. QED
  BY <1>2, <1>3

\* The dist-tag latest stays, or moves to a final version that is newer than
\* all that its minor version published before.
LatestMoves ==
  dist'.latest # dist.latest =>
    /\ IsFinal(dist'.latest)
    /\ \A v \in published : v.minor = dist'.latest.minor => Lt(v, dist'.latest)

(* npm takes each version once, and latest moves on with final ones.        *)
LEMMA PublishOK ==
  ASSUME ReleaseIInv, Publish
  PROVE  ReleaseIInv' /\ LatestMoves
<1> DEFINE version == work.contractsVersion
           possible == version \notin published
           distTag == IF command = "final" THEN "latest" ELSE "next"
<1>1. /\ pc = "publish"
      /\ pc' = IF possible THEN IF distTag = "latest" THEN "untag" ELSE "idle" ELSE "idle"
      /\ command' = IF pc' = "idle" THEN "none" ELSE command
      /\ published' = published \cup {version}
      /\ dist' = IF possible THEN [dist EXCEPT ![distTag] = version] ELSE dist
      /\ UNCHANGED <<heads, branch, work, tags, upstreamTags>>
  BY DEF Publish, Step, DistTag, git
<1>2. /\ version \in Versions /\ version \in {t.version : t \in upstreamTags}
      /\ dist \in [latest : Versions, next : Versions \cup {None}]
      /\ command \in Commands
  BY <1>1, BranchFacts DEF ReleaseTree, ReleaseIInv, ReleaseType, CommandOK
<1>3. /\ head' = head /\ BranchesOK(heads, branch)' /\ TagsOK(tags, heads)'
      /\ (heads \in [DOMAIN heads -> ReleaseTree])'
  BY <1>1, GitStays
<1>4. command = "final" =>
        /\ work = head /\ IsFinal(version) /\ version = head.version
        /\ branch = head.version.minor
  BY <1>1, BranchFacts DEF ReleaseIInv, CommandOK, TreeOK
<1> HIDE DEF version
<1>5. /\ dist' \in [latest : Versions, next : Versions \cup {None}]
      /\ dist'.latest # dist.latest =>
           dist'.latest = version /\ possible /\ command = "final"
      /\ pc' \in {"untag", "idle"} /\ command' \in {"none", command}
  BY <1>1, <1>2
<1>6. ReleaseType' /\ NpmOK' /\ WorkOK'
  BY <1>1, <1>2, <1>3, <1>5 DEF ReleaseIInv, ReleaseType, NpmOK, WorkOK, Steps, Commands
<1>7. CommandOK'
  BY <1>1, <1>5 DEF ReleaseIInv, CommandOK, Bumping
<1>8. LatestMoves
  <2> SUFFICES ASSUME dist'.latest # dist.latest,
                      NEW v \in published, v.minor = dist'.latest.minor
               PROVE  IsFinal(dist'.latest) /\ Lt(v, dist'.latest)
    BY <1>4, <1>5 DEF LatestMoves
  <2>1. /\ dist'.latest = version /\ v # version /\ command = "final"
        /\ IsFinal(version) /\ version = head.version /\ branch = head.version.minor
    BY <1>4, <1>5
  <2>2. PICK t \in tags : t.version = v
    BY DEF ReleaseIInv, NpmOK
  <2>3. Leq(v, version)
    BY <2>1, <2>2, BranchFacts DEF ReleaseIInv, TagsOK, TagOfBranch, head
  <2>4. QED
    BY <2>1, <2>3 DEF Leq
<1>9. QED
  BY <1>3, <1>6, <1>7, <1>8 DEF ReleaseIInv

(* Every step keeps the invariant, and moves latest to the newest version   *)
(* of its minor version or not at all.                                      *)
LEMMA NextReleaseIInv ==
  ReleaseIInv /\ edits \in Nat /\ [ReleaseNext]_releaseVars
    => ReleaseIInv' /\ (edits \in Nat)' /\ LatestMoves
<1> SUFFICES ASSUME ReleaseIInv, edits \in Nat, [ReleaseNext]_releaseVars
             PROVE  ReleaseIInv' /\ (edits \in Nat)' /\ LatestMoves
  OBVIOUS
<1>1. ASSUME dist' = dist PROVE LatestMoves
  BY <1>1 DEF LatestMoves
<1>2. ASSUME NEW f \in Released, Edit(f)
      PROVE  ReleaseIInv' /\ (edits \in Nat)' /\ LatestMoves
  <2>1. dist' = dist /\ edits' = edits + 1
    BY <1>2 DEF Edit, npm
  <2>2. QED
    BY <1>1, <1>2, <2>1, EditOK
<1>3. CASE Discard \/ (\E b \in DOMAIN heads : Checkout(b)) \/ LeaveTemp
  <2>1. dist' = dist /\ edits' = edits
    BY <1>3 DEF Discard, Checkout, LeaveTemp, npm
  <2>2. QED
    BY <1>1, <1>3, <2>1, MaintainerOK
<1>4. ASSUME NEW c \in {"start", "rc", "final", "push"}, Run(c)
      PROVE  ReleaseIInv' /\ (edits \in Nat)' /\ LatestMoves
  <2>1. dist' = dist /\ edits' = edits
    BY <1>4 DEF Run, npm
  <2>2. QED
    BY <1>1, <1>4, <2>1, RunOK
<1>5. CASE Bump \/ UpdateChangelog \/ SynchronizeVersions \/ UpdateComment
  <2>1. dist' = dist /\ edits' = edits
    BY <1>5 DEF Bump, UpdateChangelog, SynchronizeVersions, UpdateComment, npm, Step
  <2>2. QED
    BY <1>1, <1>5, <2>1, BumpOK, ChangelogOK, SynchronizeOK, CommentOK
<1>6. CASE Commit \/ Tag \/ RenameBranch \/ PushReleaseBranchAndTag
  <2>1. dist' = dist /\ edits' = edits
    BY <1>6 DEF Commit, Tag, RenameBranch, PushReleaseBranchAndTag, npm, Step
  <2>2. QED
    BY <1>1, <1>6, <2>1, CommitReleaseOK, TagOK, RenameOK, PushReleaseOK
<1>7. CASE Publish
  <2>1. edits' = edits
    BY <1>7 DEF Publish, Step
  <2>2. QED
    BY <1>7, <2>1, PublishOK
<1>8. CASE RemoveNext
  <2>1. /\ pc' = "idle" /\ command' = "none" /\ edits' = edits
        /\ dist' = [dist EXCEPT !.next = None]
        /\ UNCHANGED <<heads, branch, work, tags, upstreamTags, published>>
    BY <1>8 DEF RemoveNext, Step, git
  <2>2. /\ dist' \in [latest : Versions, next : Versions \cup {None}]
        /\ dist'.latest = dist.latest
    BY <2>1 DEF ReleaseIInv, ReleaseType
  <2>3. /\ head' = head /\ BranchesOK(heads, branch)' /\ TagsOK(tags, heads)'
        /\ (heads \in [DOMAIN heads -> ReleaseTree])'
    BY <2>1, GitStays
  <2>4. ReleaseIInv'
    BY <2>1, <2>2, <2>3
    DEF ReleaseIInv, ReleaseType, WorkOK, CommandOK, NpmOK, Steps, Commands, Bumping
  <2>5. QED
    BY <2>1, <2>2, <2>4 DEF LatestMoves
<1>9. CASE Fail
  <2>1. /\ pc' = "idle" /\ command' = "none" /\ edits' = edits
        /\ UNCHANGED <<heads, branch, work, tags, upstreamTags, published, dist>>
    BY <1>9 DEF Fail, git, npm
  <2>2. QED
    BY <1>1, <2>1, StopOK
<1>10. CASE UNCHANGED releaseVars
  <2>1. UNCHANGED <<pc, command, heads, branch, work, tags, upstreamTags, published,
                    dist, edits>>
    BY <1>10 DEF releaseVars
  <2>2. /\ head' = head /\ BranchesOK(heads, branch)' /\ TagsOK(tags, heads)'
        /\ (heads \in [DOMAIN heads -> ReleaseTree])'
    BY <2>1, GitStays
  <2>3. ReleaseIInv'
    BY <2>1, <2>2 DEF ReleaseIInv, ReleaseType, WorkOK, CommandOK, NpmOK
  <2>4. QED
    BY <1>1, <2>1, <2>3
<1>11. QED
  BY <1>2, <1>3, <1>4, <1>5, <1>6, <1>7, <1>8, <1>9, <1>10 DEF ReleaseNext

(* Tags, branches, working tree and npm always agree about versions.        *)
THEOREM ReleaseInvariant == ReleaseSpec => [](ReleaseIInv /\ edits \in Nat)
<1>1. ReleaseInit => edits \in Nat
  BY DEF ReleaseInit
<1>2. QED
  BY <1>1, InitReleaseIInv, NextReleaseIInv, PTL DEF ReleaseSpec

(* The changelog of every tag but the first has a heading for its release,  *)
(* dated unless the version ends in -rc.N, and the package has the version  *)
(* of the tag: TagsTellTheirVersion.                                        *)
THEOREM TagsAlwaysTellTheirVersion == ReleaseSpec => []TagsTellTheirVersion
<1>1. ReleaseIInv => TagsTellTheirVersion
  <2> SUFFICES ASSUME ReleaseIInv, NEW t \in tags, t # TagOf(Base)
               PROVE  /\ t.tree.version = t.version
                      /\ t.tree.contractsVersion = t.version
                      /\ Told(t.tree.changelog, t.version)
    BY DEF TagsTellTheirVersion, Told, HasHeading, HasDated
  <2>1. TagOf(Base) \in tags /\ TagOf(Base).version = Base
    BY DEF ReleaseIInv, TagsOK, TagOf, TagIn
  <2>2. t.version # Base
    BY <2>1 DEF ReleaseIInv, TagsOK
  <2>3. QED
    BY <2>2 DEF ReleaseIInv, TagsOK, TreeOK
<1>2. QED
  BY <1>1, ReleaseInvariant, PTL

(* Whatever failed and was repeated, what is on npm was tagged and pushed   *)
(* before: PublishedAreTagged.                                              *)
THEOREM PublishedAreAlwaysTagged == ReleaseSpec => []PublishedAreTagged
<1>1. ReleaseIInv => PublishedAreTagged
  BY DEF ReleaseIInv, NpmOK, PublishedAreTagged
<1>2. QED
  BY <1>1, ReleaseInvariant, PTL

(* What npm installs by default changes only to a final version that is     *)
(* newer than all its minor version published: LatestIsNewestOfItsMinor.    *)
THEOREM LatestIsAlwaysNewest == ReleaseSpec => LatestIsNewestOfItsMinor
<1>1. ReleaseIInv /\ edits \in Nat /\ [ReleaseNext]_releaseVars
        => [LatestMoves]_releaseVars
  BY NextReleaseIInv
<1>2. QED
  BY <1>1, ReleaseInvariant, PTL
  DEF ReleaseSpec, LatestIsNewestOfItsMinor, LatestMoves

-----------------------------------------------------------------------------
(* What comments say *)

Body(tree, f) == tree.contract[f].body
Comment(tree, f) == tree.contract[f].comment

Finals(tgs) == {t \in tgs : IsFinal(t.version)}

\* The last final release of the minor version before version v.
LastBefore(tgs, u, v) ==
  /\ u \in Finals(tgs) /\ u.version.minor = v.minor /\ Lt(u.version, v)
  /\ ~\E w \in Finals(tgs) : /\ w.version.minor = v.minor
                             /\ Lt(u.version, w.version) /\ Lt(w.version, v)

\* The comment names a release that has the file as it is.
Named(tgs, tree, f) ==
  \E u \in tgs : u.version = Comment(tree, f) /\ u.tree.contract[f] = tree.contract[f]

Past(tree, f) == Leq(Comment(tree, f), tree.version)

\* Comments that name a prerelease do not outlive its release.
Settled(tree, f) ==
  LET c == Comment(tree, f)
  IN  \/ c = None
      \/ Body(tree, f) # 0 /\ IsFinal(c)
      \/ /\ Body(tree, f) # 0 /\ ~IsFinal(tree.version)
         /\ FinalOf(c) = FinalOf(tree.version)

\* A contract that is as in an earlier final release has its comment.
Kept(tgs, tree, f) ==
  \A u \in Finals(tgs) :
    u.version.minor = tree.version.minor /\ Leq(u.version, tree.version)
      /\ Body(u.tree, f) = Body(tree, f)
    => u.tree.contract[f] = tree.contract[f]

NamesChange(tgs, tree, f) ==
  \A u \in tgs : LastBefore(tgs, u, tree.version) =>
    Comment(tree, f) = IF Body(u.tree, f) = Body(tree, f)
                         THEN Comment(u.tree, f) ELSE tree.version

\* What the scripts have made of a tree that is about to be tagged.
Written(tgs, tree) ==
  \A f \in Released \ Mocks :
    /\ Settled(tree, f)
    /\ Body(tree, f) # 0 =>
         /\ Comment(tree, f) = tree.version \/ Named(tgs, tree, f)
         /\ Past(tree, f) /\ Kept(tgs, tree, f) /\ NamesChange(tgs, tree, f)

TagComments(tgs) ==
  \A t \in tgs : /\ Written(tgs, t.tree)
                 /\ \A f \in Released \ Mocks : Body(t.tree, f) # 0 => Named(tgs, t.tree, f)

HeadComments(hs, tgs) ==
  \A b \in DOMAIN hs : \A f \in Released \ Mocks :
    /\ Settled(hs[b], f)
    /\ b \in ReleaseBranches /\ Body(hs[b], f) # 0 => Kept(tgs, hs[b], f)

\* Changes are not taken back, and no two leave the same body. The first
\* prerelease need not be on the release branch.
BodiesGrow(hs, tgs, bound) ==
  /\ \A b \in DOMAIN hs : \A f \in Released : Body(hs[b], f) <= bound
  /\ \A t \in tgs : t.version # FirstRc =>
       \A f \in Released :
         /\ Body(t.tree, f) <= Body(hs[t.version.minor], f)
         /\ \A u \in tgs : u.version.minor = t.version.minor /\ Lt(t.version, u.version)
              => Body(t.tree, f) <= Body(u.tree, f)

CommentsIInv ==
  /\ BodiesGrow(heads, tags, edits + 1)
  /\ TagComments(tags) /\ HeadComments(heads, tags)
  /\ pc \in {"commit", "tag"} =>
       /\ Written(tags, work)
       /\ \A f \in Released : Body(work, f) = Body(head, f)

\* What a branch has when it is new, and what stays of the others.
OnlyNew(hs) ==
  /\ ReleaseBranches \cap DOMAIN heads \subseteq DOMAIN hs
  /\ \A b \in DOMAIN hs :
       IF b \in DOMAIN heads THEN hs[b] = heads[b]
       ELSE hs[b] = head /\ (b \in ReleaseBranches => head.version.minor = b)

(* Branches that come and go do not change what is known of the others.     *)
LEMMA BranchesChange ==
  ASSUME ReleaseIInv, CommentsIInv, NEW hs, OnlyNew(hs)
  PROVE  BodiesGrow(hs, tags, edits + 1) /\ HeadComments(hs, tags)
<1>1. \A t \in tags : /\ t.version.minor \in ReleaseBranches
                      /\ t.version # FirstRc => t.version.minor \in DOMAIN heads
  <2>1. \A t \in tags : t.version.minor \in ReleaseBranches
    BY BranchFacts DEF Versions, ReleaseBranches
  <2>2. QED
    BY <2>1 DEF ReleaseIInv, TagsOK, TagOfBranch
<1>2. branch \in DOMAIN heads
  BY BranchFacts
<1>3. BodiesGrow(hs, tags, edits + 1)
  <2>1. \A b \in DOMAIN hs : \A f \in Released : Body(hs[b], f) <= edits + 1
    BY <1>2 DEF CommentsIInv, BodiesGrow, OnlyNew, head
  <2>2. \A t \in tags : t.version # FirstRc => hs[t.version.minor] = heads[t.version.minor]
    BY <1>1 DEF OnlyNew
  <2>3. QED
    BY <2>1, <2>2 DEF CommentsIInv, BodiesGrow
<1>4. HeadComments(hs, tags)
  <2> SUFFICES ASSUME NEW b \in DOMAIN hs, NEW f \in Released \ Mocks
               PROVE  /\ Settled(hs[b], f)
                      /\ b \in ReleaseBranches /\ Body(hs[b], f) # 0
                           => Kept(tags, hs[b], f)
    BY DEF HeadComments
  <2>1. CASE b \in DOMAIN heads
    BY <2>1 DEF OnlyNew, CommentsIInv, HeadComments
  <2>2. CASE b \notin DOMAIN heads
    <3>1. hs[b] = head /\ Settled(head, f)
      BY <1>2, <2>2 DEF OnlyNew, CommentsIInv, HeadComments, head
    <3>2. b \in ReleaseBranches => \A u \in Finals(tags) : u.version.minor # head.version.minor
      BY <1>1, <2>2, VersionFacts DEF OnlyNew, Finals
    <3>3. QED
      BY <3>1, <3>2 DEF Kept
  <2>3. QED
    BY <2>1, <2>2
<1>5. QED
  BY <1>3, <1>4

(* A step that makes no new tag, and leaves what is about to be tagged.     *)
LEMMA QuietStep ==
  ASSUME ReleaseIInv, CommentsIInv, OnlyNew(heads'), UNCHANGED <<tags, edits>>,
         pc' \notin {"commit", "tag"}
  PROVE  CommentsIInv'
<1>1. BodiesGrow(heads', tags, edits + 1) /\ HeadComments(heads', tags)
  BY BranchesChange
<1>2. TagComments(tags)
  BY DEF CommentsIInv
<1>3. QED
  BY <1>1, <1>2 DEF CommentsIInv

(* A change has a new body, and leaves the comment.                         *)
LEMMA EditComments ==
  ASSUME ReleaseIInv, CommentsIInv, edits \in Nat, NEW g \in Released, Edit(g)
  PROVE  CommentsIInv'
<1>1. PICK log : work' = [head EXCEPT !.contract[g].body = edits + 2, !.changelog = log]
  BY DEF Edit
<1>2. /\ heads' = [heads EXCEPT ![branch] = work'] /\ edits' = edits + 1
      /\ UNCHANGED <<pc, tags, branch>> /\ pc = "idle"
  BY DEF Edit
<1>3. /\ heads \in [DOMAIN heads -> ReleaseTree] /\ branch \in DOMAIN heads
      /\ head \in ReleaseTree /\ head.contract \in [Released -> SourceFile]
      /\ head = heads[branch]
  BY BranchFacts DEF ReleaseIInv, ReleaseType, ReleaseTree, head
<1> DEFINE tree == work'
           hs == heads'
<1>4. /\ tree.version = head.version
      /\ Body(tree, g) = edits + 2
      /\ \A f \in Released : Comment(tree, f) = Comment(head, f)
      /\ \A f \in Released \ {g} : tree.contract[f] = head.contract[f]
  <2> DEFINE files == [head.contract EXCEPT ![g].body = edits + 2]
  <2>1. /\ files[g].body = edits + 2
        /\ \A f \in Released : files[f].comment = head.contract[f].comment
        /\ \A f \in Released \ {g} : files[f] = head.contract[f]
    BY <1>3 DEF SourceFile
  <2>2. work' = [head EXCEPT !.contract = files, !.changelog = log]
    BY <1>1
  <2> HIDE DEF files
  <2>3. tree.contract = files /\ tree.version = head.version
    BY <1>3, <2>2 DEF ReleaseTree
  <2>4. QED
    BY <2>1, <2>3 DEF Body, Comment
<1> HIDE DEF tree
<1>5. /\ DOMAIN hs = DOMAIN heads /\ hs[branch] = tree
      /\ \A b \in DOMAIN heads \ {branch} : hs[b] = heads[b]
  BY <1>2, <1>3 DEF tree
<1> HIDE DEF hs
<1>6. \A b \in DOMAIN heads : \A f \in Released :
        Body(heads[b], f) \in Nat /\ Body(heads[b], f) <= edits + 1
  BY <1>3 DEF CommentsIInv, BodiesGrow, Body, ReleaseTree, SourceFile
<1>7. \A b \in DOMAIN heads : \A f \in Released :
        /\ Body(hs[b], f) \in Nat /\ Body(hs[b], f) <= edits + 2
        /\ Body(heads[b], f) <= Body(hs[b], f)
  <2> SUFFICES ASSUME NEW b \in DOMAIN heads, NEW f \in Released
               PROVE  /\ Body(hs[b], f) \in Nat /\ Body(hs[b], f) <= edits + 2
                      /\ Body(heads[b], f) <= Body(hs[b], f)
    OBVIOUS
  <2>1. Body(hs[b], f) = Body(heads[b], f) \/ Body(hs[b], f) = edits + 2
    BY <1>3, <1>4, <1>5 DEF Body
  <2>2. QED
    BY <1>6, <2>1
<1>8. \A t \in tags : \A f \in Released : Body(t.tree, f) \in Nat
  BY BranchFacts DEF ReleaseTree, SourceFile, Body
<1>9. \A t \in tags : t.version # FirstRc => t.version.minor \in DOMAIN heads
  BY DEF ReleaseIInv, TagsOK, TagOfBranch
<1>10. BodiesGrow(hs, tags, edits + 2)
  <2>1. \A b \in DOMAIN hs : \A f \in Released : Body(hs[b], f) <= edits + 2
    BY <1>5, <1>7
  <2>2. \A t \in tags : t.version # FirstRc =>
          \A f \in Released : Body(t.tree, f) <= Body(hs[t.version.minor], f)
    <3> SUFFICES ASSUME NEW t \in tags, t.version # FirstRc, NEW f \in Released
                 PROVE  Body(t.tree, f) <= Body(hs[t.version.minor], f)
      OBVIOUS
    <3>1. /\ Body(t.tree, f) <= Body(heads[t.version.minor], f)
          /\ Body(heads[t.version.minor], f) <= Body(hs[t.version.minor], f)
          /\ Body(t.tree, f) \in Nat /\ Body(heads[t.version.minor], f) \in Nat
          /\ Body(hs[t.version.minor], f) \in Nat
      BY <1>6, <1>7, <1>8, <1>9 DEF CommentsIInv, BodiesGrow
    <3>2. QED
      BY <3>1
  <2>3. QED
    BY <2>1, <2>2 DEF CommentsIInv, BodiesGrow
<1>11. HeadComments(hs, tags)
  <2> SUFFICES ASSUME NEW b \in DOMAIN heads, NEW f \in Released \ Mocks
               PROVE  /\ Settled(hs[b], f)
                      /\ b \in ReleaseBranches /\ Body(hs[b], f) # 0
                           => Kept(tags, hs[b], f)
    BY <1>5 DEF HeadComments
  <2>1. /\ Settled(heads[b], f)
        /\ b \in ReleaseBranches /\ Body(heads[b], f) # 0 => Kept(tags, heads[b], f)
    BY DEF CommentsIInv, HeadComments
  <2>2. CASE b # branch
    BY <1>5, <2>1, <2>2
  <2>3. CASE b = branch /\ f # g
    BY <1>3, <1>4, <1>5, <2>1, <2>3 DEF Settled, Kept, Body, Comment
  <2>4. CASE b = branch /\ f = g
    <3>1. Settled(hs[b], f)
      BY <1>3, <1>4, <1>5, <2>1, <2>4 DEF Settled
    <3>2. ASSUME b \in ReleaseBranches PROVE Kept(tags, hs[b], f)
      <4> SUFFICES ASSUME NEW u \in Finals(tags), u.version.minor = tree.version.minor,
                          Body(u.tree, f) = Body(tree, f)
                   PROVE  FALSE
        BY <1>5, <2>4 DEF Kept
      <4>1. u \in tags /\ u.version # FirstRc /\ u.version.minor = branch
        BY <1>4, <2>4, <3>2, BranchFacts, VersionFacts DEF Finals
      <4>2. Body(u.tree, f) <= Body(heads[branch], f)
        BY <4>1 DEF CommentsIInv, BodiesGrow
      <4>3. QED
        BY <1>3, <1>4, <1>6, <2>4, <4>2
    <3>3. QED
      BY <3>1, <3>2
  <2>5. QED
    BY <2>2, <2>3, <2>4
<1>12. TagComments(tags)
  BY DEF CommentsIInv
<1>13. edits' + 1 = edits + 2 /\ hs = heads'
  BY <1>2 DEF hs
<1>14. QED
  BY <1>2, <1>10, <1>11, <1>12, <1>13 DEF CommentsIInv

(* A set of numbers up to some number has a last.                           *)
LEMMA LastExists ==
  ASSUME NEW N \in Nat, NEW S, S \subseteq 0 .. N, S # {}
  PROVE  \E i \in S : \A j \in S : j <= i
<1> DEFINE T == {n \in 0 .. N : N - n \in S}
<1>1. T \subseteq Nat /\ T # {}
  <2>1. PICK i : i \in S
    OBVIOUS
  <2>2. N - i \in 0 .. N /\ N - (N - i) = i
    BY <2>1
  <2>3. N - i \in T
    BY <2>1, <2>2
  <2>4. QED
    BY <2>3
<1>2. PICK m \in T : \A n \in T : m <= n
  BY <1>1, FirstExists
<1>3. N - m \in S /\ m \in 0 .. N
  BY <1>2
<1>4. ASSUME NEW j \in S PROVE j <= N - m
  <2>1. j \in 0 .. N /\ N - j \in 0 .. N /\ N - (N - j) = j
    OBVIOUS
  <2>2. N - j \in T
    BY <2>1
  <2>3. QED
    BY <1>2, <1>3, <2>1, <2>2
<1>5. QED
  BY <1>3, <1>4

(* Of versions, there is a last.                                            *)
LEMMA LastVersion ==
  ASSUME NEW S, S \subseteq Versions, S # {}
  PROVE  \E v \in S : \A w \in S : Leq(w, v)
<1> DEFINE minors == {v.minor : v \in S}
<1>1. minors \subseteq 0 .. 1 /\ minors # {}
  BY DEF Versions
<1> HIDE DEF minors
<1>2. PICK m \in minors : \A j \in minors : j <= m
  BY <1>1, LastExists
<1> DEFINE patches == {v.patch : v \in {w \in S : w.minor = m}}
<1>3. patches \subseteq 0 .. MaxPatches /\ patches # {}
  <2>1. \E v \in S : v.minor = m
    BY <1>2 DEF minors
  <2>2. QED
    BY <2>1 DEF Versions
<1> HIDE DEF patches
<1>4. PICK p \in patches : \A j \in patches : j <= p
  BY <1>3, LastExists, VersionFacts
<1> DEFINE pres == {v.pre : v \in {w \in S : w.minor = m /\ w.patch = p}}
<1>5. pres \subseteq 0 .. Final /\ pres # {}
  <2>1. \E v \in S : v.minor = m /\ v.patch = p
    BY <1>4 DEF patches
  <2>2. QED
    BY <2>1, VersionFacts DEF Versions
<1> HIDE DEF pres
<1>6. PICK c \in pres : \A j \in pres : j <= c
  BY <1>5, LastExists, VersionFacts
<1>7. PICK v \in S : v.minor = m /\ v.patch = p /\ v.pre = c
  BY <1>6 DEF pres
<1>8. ASSUME NEW w \in S PROVE Leq(w, v)
  <2>1. w.minor <= m
    BY <1>2 DEF minors
  <2>2. w.minor = m => w.patch <= p
    BY <1>4 DEF patches
  <2>3. w.minor = m /\ w.patch = p => w.pre <= c
    BY <1>6 DEF pres
  <2>4. w \in AnyVersion /\ v \in AnyVersion
    BY VersionFacts
  <2>5. QED
    BY <1>7, <2>1, <2>2, <2>3, <2>4, VersionFields DEF Leq, Lt
<1>9. QED
  BY <1>7, <1>8

\* The tag that update-comment.js compares with.
IsLatest(t, version) ==
  /\ t \in tags /\ Lt(FinalOf(t.version), version)
  /\ \A u \in tags : Lt(FinalOf(u.version), version) => Leq(u.version, t.version)

(* It finds the last tag of the earlier releases.                           *)
LEMMA LatestFound ==
  ASSUME ReleaseIInv, NEW version \in Versions, Lt(head.version, version),
         NEW latest,
         latest = CHOOSE v \in OlderTags(version) : \A w \in OlderTags(version) : ~Lt(v, w)
  PROVE  IsLatest(TagOf(latest), version)
<1> DEFINE older == OlderTags(version)
<1>1. older \subseteq Versions /\ \A v \in older : v \in Tagged /\ Lt(FinalOf(v), version)
  BY BranchFacts DEF OlderTags, Tagged
<1>2. \A v \in Tagged : Lt(FinalOf(v), version) => v \in older
  BY DEF OlderTags
<1>3. Base \in older
  <2>1. Base \in Tagged
    BY DEF ReleaseIInv, TagsOK, Tagged
  <2>2. Lt(Base, version)
    BY BaseFirst, BranchFacts, VersionFacts, LtFacts
  <2>3. FinalOf(Base) = Base
    BY VersionFacts, FinalFacts
  <2>4. QED
    BY <1>2, <2>1, <2>2, <2>3
<1> HIDE DEF older
<1>4. PICK v \in older : \A w \in older : Leq(w, v)
  BY <1>1, <1>3, LastVersion
<1>5. \A w \in older : ~Lt(v, w)
  BY <1>1, <1>4, VersionFacts, LtFacts
<1>6. latest \in older /\ \A w \in older : ~Lt(latest, w)
  BY <1>5 DEF older
<1>7. \A w \in older : Leq(w, latest)
  BY <1>1, <1>6, VersionFacts, LtFacts DEF Leq
<1>8. TagOf(latest) \in tags /\ TagOf(latest).version = latest
  BY <1>1, <1>6 DEF Tagged, TagOf, TagIn
<1>9. QED
  BY <1>1, <1>2, <1>6, <1>7, <1>8 DEF IsLatest, Tagged

(* Between two versions of one minor version are only versions of it.       *)
LEMMA MinorBetween ==
  ASSUME NEW u \in Versions, NEW v \in Versions, NEW w \in Versions,
         Leq(u, v), Lt(v, w), u.minor = w.minor
  PROVE  v.minor = u.minor
BY VersionFacts, VersionFields DEF Leq, Lt

(* The final releases before the version that is being made are behind the  *)
(* branch, and not behind the tag the contracts are compared with.          *)
LEMMA FinalsBefore ==
  ASSUME ReleaseIInv, pc = "comment", NEW last, IsLatest(last, work.version),
         NEW u \in Finals(tags), u.version.minor = work.version.minor,
         Leq(u.version, work.version)
  PROVE  /\ branch \in ReleaseBranches /\ head.version.minor = branch
         /\ work.version.minor = branch
         /\ Leq(u.version, head.version) /\ Lt(u.version, work.version)
         /\ Leq(u.version, last.version) /\ last.version.minor = branch
         /\ last.version # FirstRc
<1>1. /\ u \in tags /\ IsFinal(u.version) /\ u.version \in Versions
      /\ work.version \in Versions /\ head.version \in Versions
      /\ last \in tags /\ last.version \in Versions
      /\ u.version \in AnyVersion /\ FirstRc \in Versions
  BY BranchFacts, VersionFacts DEF Finals, IsLatest
<1>2. u.version.minor = 1 => ~Leq(u.version, FirstRc)
  BY <1>1, VersionFacts DEF Versions, FirstRc, Leq, Lt, IsFinal
<1>3. /\ branch # Master /\ branch \in DOMAIN heads
      /\ work.version.minor = MinorOf(branch) /\ Lt(head.version, work.version)
      /\ branch = Temp => work.version = FirstRc
  BY BranchFacts DEF ReleaseIInv, WorkOK
<1>4. branch # Temp
  BY <1>2, <1>3 DEF FirstRc
<1>5. /\ branch \in ReleaseBranches /\ head.version.minor = branch
      /\ work.version.minor = branch
  BY <1>3, <1>4, BranchFacts DEF MinorOf, ReleaseBranches
<1>6. Leq(u.version, head.version)
  BY <1>1, <1>3, <1>5 DEF ReleaseIInv, TagsOK, TagOfBranch, head
<1>7. Lt(u.version, work.version)
  BY <1>1, <1>3, <1>6, VersionFacts, LtFacts
<1>8. Leq(u.version, last.version)
  <2>1. Lt(FinalOf(u.version), work.version)
    BY <1>1, <1>7, FinalFacts
  <2>2. QED
    BY <1>1, <2>1 DEF IsLatest
<1>9. Lt(last.version, work.version)
  BY <1>1, FinalFacts DEF IsLatest
<1>10. last.version.minor = u.version.minor
  BY <1>1, <1>8, <1>9, MinorBetween
<1>11. last.version # FirstRc
  BY <1>2, <1>8, <1>10 DEF FirstRc
<1>12. QED
  BY <1>5, <1>6, <1>7, <1>8, <1>10, <1>11

\* What update-comment.js does to one file of the tree: it names the version
\* unless the file is as in the tag it compares with.
Recommented(tree, f, last) ==
  /\ tree.version = work.version
  /\ Body(tree, f) = Body(head, f)
  /\ Body(head, f) # 0 /\ head.contract[f] # last.tree.contract[f]
       => Comment(tree, f) = work.version
  /\ Body(head, f) = 0 \/ head.contract[f] = last.tree.contract[f]
       => tree.contract[f] = head.contract[f]

(* The comment is of the version, or of an earlier final release.           *)
LEMMA WrittenSettled ==
  ASSUME ReleaseIInv, CommentsIInv, pc = "comment",
         NEW tree \in ReleaseTree, NEW f \in Released \ Mocks,
         NEW last, IsLatest(last, work.version), Recommented(tree, f, last)
  PROVE  /\ Settled(tree, f)
         /\ Body(tree, f) # 0 =>
              /\ Comment(tree, f) = tree.version \/ Named(tags, tree, f)
              /\ Past(tree, f)
<1>1. /\ last \in tags /\ last.version \in Versions /\ last.tree.version = last.version
      /\ Lt(FinalOf(last.version), work.version)
      /\ work.version \in Versions /\ head.version \in Versions
  BY BranchFacts DEF IsLatest, ReleaseIInv, TagsOK
<1>2. /\ Settled(head, f)
      /\ ~IsFinal(head.version) => FinalOf(work.version) = FinalOf(head.version)
  BY BranchFacts DEF CommentsIInv, HeadComments, ReleaseIInv, WorkOK, head
<1>3. CASE Body(head, f) = 0
  BY <1>2, <1>3 DEF Recommented, Settled, Body, Comment
<1>4. CASE Body(head, f) # 0 /\ head.contract[f] # last.tree.contract[f]
  BY <1>4 DEF Recommented, Settled, Past, Leq
<1>5. CASE Body(head, f) # 0 /\ head.contract[f] = last.tree.contract[f]
  <2> DEFINE c == Comment(last.tree, f)
  <2>1. /\ tree.contract[f] = last.tree.contract[f] /\ Comment(tree, f) = c
        /\ Comment(head, f) = c /\ Body(last.tree, f) # 0 /\ Body(tree, f) # 0
    BY <1>5 DEF Recommented, Body, Comment
  <2>2. Named(tags, last.tree, f) /\ Past(last.tree, f)
    BY <1>1, <2>1 DEF CommentsIInv, TagComments, Written
  <2>3. Named(tags, tree, f)
    BY <2>1, <2>2 DEF Named
  <2>4. c \in Versions /\ Leq(c, last.version)
    BY <1>1, <2>2, BranchFacts DEF Named, Past
  <2> HIDE DEF c
  <2>5. Lt(c, work.version)
    <3>1. Lt(last.version, work.version)
      BY <1>1, FinalFacts
    <3>2. QED
      BY <1>1, <2>4, <3>1, VersionFacts, LtFacts
  <2>6. ~(~IsFinal(head.version) /\ FinalOf(c) = FinalOf(head.version))
    <3> SUFFICES ASSUME FinalOf(c) = FinalOf(work.version) PROVE FALSE
      BY <1>2
    <3>1. Leq(FinalOf(c), FinalOf(last.version))
      BY <1>1, <2>4, FinalFacts
    <3>2. /\ FinalOf(c) \in AnyVersion /\ FinalOf(last.version) \in AnyVersion
          /\ work.version \in AnyVersion
      BY <1>1, <2>4, VersionFacts
    <3>3. Lt(FinalOf(work.version), work.version)
      BY <1>1, <3>1, <3>2, LtFacts
    <3>4. QED
      BY <1>1, <3>3, FinalFacts
  <2>7. c # None
    BY <2>4, VersionFacts
  <2>8. IsFinal(c)
    BY <1>2, <2>1, <2>6, <2>7 DEF Settled
  <2>9. Settled(tree, f)
    BY <2>1, <2>8 DEF Settled
  <2>10. Past(tree, f)
    BY <2>1, <2>5 DEF Past, Recommented, Leq
  <2>11. QED
    BY <2>3, <2>9, <2>10
<1>6. QED
  BY <1>3, <1>4, <1>5

(* A contract that is as in an earlier final release keeps its comment, one *)
(* that is not names the version.                                           *)
LEMMA WrittenKept ==
  ASSUME ReleaseIInv, CommentsIInv, pc = "comment",
         NEW tree \in ReleaseTree, NEW f \in Released \ Mocks, Body(tree, f) # 0,
         NEW last, IsLatest(last, work.version), Recommented(tree, f, last)
  PROVE  Kept(tags, tree, f) /\ NamesChange(tags, tree, f)
<1>1. /\ last \in tags /\ last.version \in Versions /\ last.tree.version = last.version
      /\ Lt(FinalOf(last.version), work.version) /\ Lt(last.version, work.version)
      /\ work.version \in Versions /\ head.version \in Versions
      /\ tree.version = work.version /\ Body(tree, f) = Body(head, f)
      /\ branch \in DOMAIN heads
  BY BranchFacts, FinalFacts DEF IsLatest, ReleaseIInv, TagsOK, Recommented
<1>2. \A u \in Finals(tags) :
        /\ u \in tags /\ u.version \in Versions /\ u.version # FirstRc
        /\ IsFinal(u.version) /\ u.tree.version = u.version
  BY BranchFacts, VersionFacts DEF Finals, ReleaseIInv, TagsOK
<1>3. \A t \in tags : Body(t.tree, f) \in Nat
  BY BranchFacts DEF ReleaseTree, SourceFile, Body
<1>4. Body(head, f) \in Nat
  BY BranchFacts DEF ReleaseTree, SourceFile, Body
<1>5. Kept(tags, tree, f)
  <2> SUFFICES ASSUME NEW u \in Finals(tags), u.version.minor = tree.version.minor,
                      Leq(u.version, tree.version), Body(u.tree, f) = Body(tree, f)
               PROVE  u.tree.contract[f] = tree.contract[f]
    BY DEF Kept
  <2>1. /\ branch \in ReleaseBranches /\ head.version.minor = branch
        /\ work.version.minor = branch
        /\ Leq(u.version, head.version) /\ Leq(u.version, last.version)
        /\ last.version.minor = branch /\ last.version # FirstRc
    BY <1>1, FinalsBefore
  <2>2. u.tree.contract[f] = head.contract[f]
    <3>1. Kept(tags, head, f)
      BY <1>1, <2>1 DEF CommentsIInv, HeadComments, head
    <3>2. QED
      BY <1>1, <2>1, <3>1 DEF Kept
  <2>3. Body(last.tree, f) = Body(u.tree, f)
    <3>1. Body(u.tree, f) <= Body(last.tree, f)
      <4>1. CASE u.version = last.version
        BY <1>1, <1>2, <1>3, <4>1 DEF ReleaseIInv, TagsOK
      <4>2. CASE Lt(u.version, last.version)
        BY <1>1, <1>2, <2>1, <4>2 DEF CommentsIInv, BodiesGrow
      <4>3. QED
        BY <2>1, <4>1, <4>2 DEF Leq
    <3>2. Body(last.tree, f) <= Body(head, f)
      BY <1>1, <2>1 DEF CommentsIInv, BodiesGrow, head
    <3>3. QED
      BY <1>1, <1>2, <1>3, <3>1, <3>2
  <2>4. u.tree.contract[f] = last.tree.contract[f]
    <3>1. Kept(tags, last.tree, f)
      BY <1>1, <2>3 DEF CommentsIInv, TagComments, Written
    <3>2. QED
      BY <1>1, <2>1, <2>3, <3>1 DEF Kept
  <2>5. QED
    BY <2>2, <2>4 DEF Recommented
<1>6. NamesChange(tags, tree, f)
  <2> SUFFICES ASSUME NEW u \in tags, LastBefore(tags, u, tree.version)
               PROVE  /\ Body(u.tree, f) = Body(tree, f)
                           => Comment(tree, f) = Comment(u.tree, f)
                      /\ Body(u.tree, f) # Body(tree, f)
                           => Comment(tree, f) = tree.version
    BY DEF NamesChange
  <2>1. /\ u \in Finals(tags) /\ u.version.minor = tree.version.minor
        /\ Lt(u.version, tree.version)
    BY DEF LastBefore
  <2>2. ASSUME Body(u.tree, f) = Body(tree, f)
        PROVE  Comment(tree, f) = Comment(u.tree, f)
    BY <1>5, <2>1, <2>2 DEF Kept, Leq, Comment
  <2>3. ASSUME Body(u.tree, f) # Body(tree, f) PROVE Comment(tree, f) = tree.version
    <3> SUFFICES ASSUME head.contract[f] = last.tree.contract[f] PROVE FALSE
      BY <1>1 DEF Recommented
    <3>1. /\ branch \in ReleaseBranches /\ work.version.minor = branch
          /\ Leq(u.version, last.version) /\ last.version.minor = branch
      BY <1>1, <2>1, FinalsBefore DEF Leq
    <3>2. /\ Body(last.tree, f) = Body(tree, f) /\ Comment(last.tree, f) = Comment(head, f)
      BY <1>1 DEF Body, Comment
    <3>3. Lt(u.version, last.version)
      <4>1. u.version # last.version
        BY <1>1, <2>3, <3>2 DEF ReleaseIInv, TagsOK
      <4>2. QED
        BY <3>1, <4>1 DEF Leq
    <3>4. ~IsFinal(last.version)
      BY <1>1, <3>1, <3>3 DEF LastBefore, Finals
    <3>5. LastBefore(tags, u, last.version)
      <4>1. ASSUME NEW w \in Finals(tags), w.version.minor = last.version.minor,
                   Lt(u.version, w.version), Lt(w.version, last.version)
            PROVE  FALSE
        <5>1. Lt(w.version, work.version)
          BY <1>1, <1>2, <4>1, VersionFacts, LtFacts
        <5>2. QED
          BY <1>1, <3>1, <4>1, <5>1 DEF LastBefore
      <4>2. QED
        BY <1>1, <2>1, <3>1, <3>3, <4>1 DEF LastBefore
    <3>6. Comment(last.tree, f) = last.version
      <4>1. NamesChange(tags, last.tree, f)
        BY <1>1, <3>2 DEF CommentsIInv, TagComments, Written
      <4>2. QED
        BY <1>1, <2>3, <3>2, <3>5, <4>1 DEF NamesChange
    <3>7. /\ Settled(head, f)
          /\ ~IsFinal(head.version) => FinalOf(work.version) = FinalOf(head.version)
      BY <1>1 DEF CommentsIInv, HeadComments, ReleaseIInv, WorkOK, head
    <3>8. FinalOf(last.version) = FinalOf(work.version)
      BY <1>1, <3>2, <3>4, <3>6, <3>7, VersionFacts DEF Settled
    <3>9. QED
      BY <1>1, <3>8, FinalFacts
  <2>4. QED
    BY <2>2, <2>3
<1>7. QED
  BY <1>5, <1>6

(* The scripts write what may be tagged.                                    *)
LEMMA WriteComments ==
  ASSUME ReleaseIInv, ReleaseIInv', CommentsIInv, UpdateComment
  PROVE  CommentsIInv'
<1> DEFINE latest == CHOOSE v \in OlderTags(work.version) :
                       \A w \in OlderTags(work.version) : ~Lt(v, w)
           last == TagOf(latest)
           changed == {f \in Released \ Mocks :
                         /\ head.contract[f].body # 0
                         /\ head.contract[f] # last.tree.contract[f]}
<1>1. /\ pc = "comment" /\ UNCHANGED <<heads, branch, tags, edits>>
      /\ pc' = IF work.contract = head.contract THEN "commit" ELSE "idle"
      /\ work' = IF work.contract # head.contract THEN work
                 ELSE [work EXCEPT !.contract = [f \in Released |->
                        IF f \in changed THEN [@[f] EXCEPT !.comment = work.version]
                                         ELSE @[f]]]
  BY DEF UpdateComment, Step, git
<1>2. OnlyNew(heads') /\ head' = head
  BY <1>1 DEF OnlyNew, head
<1>3. CASE work.contract # head.contract
  BY <1>1, <1>2, <1>3, QuietStep
<1>4. CASE work.contract = head.contract
  <2>1. /\ work \in ReleaseTree /\ work.contract \in [Released -> SourceFile]
        /\ work.version \in Versions /\ Lt(head.version, work.version)
    BY <1>1, BranchFacts DEF ReleaseIInv, ReleaseTree, WorkOK
  <2>2. IsLatest(last, work.version)
    BY <2>1, LatestFound
  <2> HIDE DEF latest, last
  <2>3. /\ work' \in ReleaseTree /\ work'.version = work.version
        /\ \A f \in Released : work'.contract[f] =
             IF f \in changed THEN [head.contract[f] EXCEPT !.comment = work.version]
                              ELSE head.contract[f]
    <3> DEFINE files == [f \in Released |->
                 IF f \in changed THEN [work.contract[f] EXCEPT !.comment = work.version]
                                  ELSE work.contract[f]]
    <3>1. work' \in ReleaseTree
      BY BranchFacts DEF ReleaseIInv, ReleaseType
    <3> HIDE DEF changed
    <3>2. work' = [work EXCEPT !.contract = files]
      BY <1>1, <1>4
    <3>3. \A f \in Released : files[f] =
             IF f \in changed THEN [head.contract[f] EXCEPT !.comment = work.version]
                              ELSE head.contract[f]
      BY <1>4
    <3> HIDE DEF files
    <3>4. work'.contract = files /\ work'.version = work.version
      BY <2>1, <3>2 DEF ReleaseTree
    <3>5. QED
      BY <3>1, <3>3, <3>4
  <2>4. \A f \in Released : head.contract[f] \in SourceFile
    BY BranchFacts DEF ReleaseTree
  <2>5. \A f \in Released : Body(work', f) = Body(head, f)
    BY <2>3, <2>4 DEF Body, SourceFile
  <2>6. \A f \in Released \ Mocks : Recommented(work', f, last)
    <3> SUFFICES ASSUME NEW f \in Released \ Mocks PROVE Recommented(work', f, last)
      OBVIOUS
    <3>1. f \in changed <=> Body(head, f) # 0 /\ head.contract[f] # last.tree.contract[f]
      BY DEF Body
    <3> HIDE DEF changed
    <3>2. f \in changed => Comment(work', f) = work.version
      BY <2>3, <2>4 DEF Comment, SourceFile
    <3>3. f \notin changed => work'.contract[f] = head.contract[f]
      BY <2>3
    <3>4. QED
      BY <2>3, <2>5, <3>1, <3>2, <3>3 DEF Recommented
  <2> HIDE DEF changed
  <2>7. Written(tags, work')
    BY <1>1, <2>2, <2>3, <2>6, WrittenSettled, WrittenKept DEF Written
  <2>8. BodiesGrow(heads, tags, edits + 1) /\ TagComments(tags) /\ HeadComments(heads, tags)
    BY DEF CommentsIInv
  <2>9. QED
    BY <1>1, <1>2, <2>5, <2>7, <2>8 DEF CommentsIInv
<1>5. QED
  BY <1>3, <1>4

(* What the scripts wrote is the last commit of the branch.                 *)
LEMMA CommitComments ==
  ASSUME ReleaseIInv, CommentsIInv, Commit
  PROVE  CommentsIInv'
<1>1. /\ pc = "commit" /\ pc' = "tag" /\ heads' = [heads EXCEPT ![branch] = work]
      /\ UNCHANGED <<work, branch, tags, edits>>
  BY DEF Commit, Step
<1>2. branch \in DOMAIN heads /\ head = heads[branch]
  BY BranchFacts DEF head
<1>3. /\ DOMAIN heads' = DOMAIN heads /\ heads'[branch] = work
      /\ \A b \in DOMAIN heads \ {branch} : heads'[b] = heads[b]
      /\ head' = work
  <2>1. heads \in [DOMAIN heads -> ReleaseTree]
    BY DEF ReleaseIInv, ReleaseType
  <2>2. QED
    BY <1>1, <1>2, <2>1 DEF head
<1>4. Written(tags, work) /\ \A f \in Released : Body(work, f) = Body(head, f)
  BY <1>1 DEF CommentsIInv
<1>5. \A b \in DOMAIN heads : \A f \in Released : Body(heads'[b], f) = Body(heads[b], f)
  BY <1>2, <1>3, <1>4
<1>6. BodiesGrow(heads', tags, edits + 1)
  <2>1. \A t \in tags : t.version # FirstRc => t.version.minor \in DOMAIN heads
    BY DEF ReleaseIInv, TagsOK, TagOfBranch
  <2>2. QED
    BY <1>3, <1>5, <2>1 DEF CommentsIInv, BodiesGrow
<1>7. HeadComments(heads', tags)
  BY <1>3, <1>4 DEF CommentsIInv, HeadComments, Written
<1>8. TagComments(tags)
  BY DEF CommentsIInv
<1>9. QED
  BY <1>1, <1>3, <1>4, <1>6, <1>7, <1>8 DEF CommentsIInv

(* A tag that is new is the last of its minor version, or the first, which  *)
(* is no final one.                                                         *)
LEMMA NewTagIsLast ==
  ASSUME ReleaseIInv, pc = "tag", head.version \notin Tagged
  PROVE  /\ \A t \in tags : t.version # head.version
         /\ head.version # FirstRc =>
              /\ branch \in ReleaseBranches /\ branch = head.version.minor
              /\ \A t \in tags : t.version.minor = head.version.minor
                                   => ~Leq(head.version, t.version)
         /\ head.version = FirstRc =>
              /\ ~IsFinal(head.version)
              /\ \A t \in tags : t.version.minor = head.version.minor
                                   => ~Lt(t.version, head.version)
<1>1. \A t \in tags : t.version # head.version /\ t.version \in Versions
  BY BranchFacts DEF Tagged
<1>2. ASSUME head.version # FirstRc
      PROVE  /\ branch \in ReleaseBranches /\ branch = head.version.minor
             /\ \A t \in tags : t.version.minor = head.version.minor
                                  => ~Leq(head.version, t.version)
  <2>1. branch \in ReleaseBranches
    BY <1>2, BranchFacts DEF ReleaseIInv, WorkOK, CommandOK, Bumping
  <2>2. branch = head.version.minor /\ branch \in DOMAIN heads
    BY <2>1, BranchFacts
  <2>3. \A t \in tags : t.version.minor = head.version.minor => Leq(t.version, head.version)
    BY <2>2 DEF ReleaseIInv, TagsOK, TagOfBranch, head
  <2>4. QED
    BY <1>1, <2>1, <2>2, <2>3, BranchFacts, VersionFacts, LtFacts DEF Leq
<1>3. ASSUME head.version = FirstRc
      PROVE  /\ ~IsFinal(head.version)
             /\ \A t \in tags : t.version.minor = head.version.minor
                                  => ~Lt(t.version, head.version)
  BY <1>1, <1>3, VersionFacts DEF Versions, FirstRc, Lt
<1>4. QED
  BY <1>1, <1>2, <1>3

(* A new tag has the comments that the scripts wrote.                       *)
LEMMA TagCommentsOK ==
  ASSUME ReleaseIInv, CommentsIInv, Tag
  PROVE  CommentsIInv'
<1>1. /\ pc = "tag" /\ UNCHANGED <<work, branch, heads, edits>>
      /\ pc' \in {"rename", "push", "idle"}
      /\ tags' = IF head.version \in Tagged THEN tags
                 ELSE tags \cup {[version |-> head.version, tree |-> head]}
  BY DEF Tag, Step
<1>2. CASE head.version \in Tagged
  BY <1>1, <1>2, QuietStep DEF OnlyNew
<1>3. CASE head.version \notin Tagged
  <2> DEFINE new == [version |-> head.version, tree |-> head]
             tgs == tags \cup {new}
  <2>1. new.version = head.version /\ new.tree = head
    OBVIOUS
  <2>2. tags' = tgs /\ new \in tgs /\ \A t \in tgs : t \in tags \/ t = new
    BY <1>1, <1>3
  <2>3. tags \subseteq tgs
    OBVIOUS
  <2> HIDE DEF new, tgs
  <2>4. /\ Written(tags, head) /\ branch \in DOMAIN heads /\ head = heads[branch]
        /\ head.version \in Versions
    BY <1>1, BranchFacts DEF CommentsIInv, ReleaseIInv, WorkOK, head
  <2>5. ASSUME NEW tree, NEW f, Named(tags, tree, f)
        PROVE  Named(tgs, tree, f)
    BY <2>3, <2>5 DEF Named
  <2>6. Finals(tags) \subseteq Finals(tgs)
    BY <2>3 DEF Finals
  <2>7. \A u \in Finals(tgs) : u \in Finals(tags) \/ (u = new /\ IsFinal(head.version))
    BY <2>1, <2>2 DEF Finals
  <2>8. ASSUME NEW v, NEW u \in tags, LastBefore(tgs, u, v)
        PROVE  LastBefore(tags, u, v)
    <3>1. u \in Finals(tgs)
      BY <2>8 DEF LastBefore
    <3>2. u \in Finals(tags)
      BY <3>1 DEF Finals
    <3>3. QED
      BY <2>6, <2>8, <3>2 DEF LastBefore
  <2>9. IsFinal(head.version) => head.version # FirstRc
    BY VersionFacts
  <2>10. BodiesGrow(heads, tgs, edits + 1)
    <3>1. \A b \in DOMAIN heads : \A f \in Released : Body(heads[b], f) <= edits + 1
      BY DEF CommentsIInv, BodiesGrow
    <3>2. ASSUME NEW t \in tgs, t.version # FirstRc, NEW f \in Released
          PROVE  Body(t.tree, f) <= Body(heads[t.version.minor], f)
      <4>1. CASE t \in tags
        BY <3>2, <4>1 DEF CommentsIInv, BodiesGrow
      <4>2. CASE t = new
        <5>1. heads[t.version.minor] = head /\ t.tree = head
          BY <1>1, <1>3, <2>1, <2>4, <3>2, <4>2, NewTagIsLast
        <5>2. Body(head, f) \in Nat
          BY BranchFacts DEF Body, ReleaseTree, SourceFile
        <5>3. QED
          BY <5>1, <5>2
      <4>3. QED
        BY <2>2, <4>1, <4>2
    <3>3. ASSUME NEW t \in tgs, t.version # FirstRc, NEW f \in Released,
                 NEW u \in tgs, u.version.minor = t.version.minor,
                 Lt(t.version, u.version)
          PROVE  Body(t.tree, f) <= Body(u.tree, f)
      <4>1. CASE t \in tags /\ u \in tags
        BY <3>3, <4>1 DEF CommentsIInv, BodiesGrow
      <4>2. CASE t = new
        BY <1>1, <1>3, <2>1, <2>2, <2>4, <3>3, <4>2, NewTagIsLast,
           VersionFacts, LtFacts DEF Leq
      <4>3. CASE t \in tags /\ u = new
        <5>1. heads[t.version.minor] = head /\ u.tree = head
          BY <1>1, <1>3, <2>1, <2>4, <3>3, <4>3, NewTagIsLast
        <5>2. QED
          BY <3>3, <4>3, <5>1 DEF CommentsIInv, BodiesGrow
      <4>4. QED
        BY <2>2, <4>1, <4>2, <4>3
    <3>4. QED
      BY <3>1, <3>2, <3>3 DEF BodiesGrow
  <2>11. Written(tgs, head) /\ \A f \in Released \ Mocks :
                                 Body(head, f) # 0 => Named(tgs, head, f)
    <3> SUFFICES ASSUME NEW f \in Released \ Mocks
                 PROVE  /\ Settled(head, f)
                        /\ Body(head, f) # 0 =>
                             /\ Named(tgs, head, f) /\ Past(head, f)
                             /\ Kept(tgs, head, f) /\ NamesChange(tgs, head, f)
      BY DEF Written
    <3>1. Settled(head, f)
      BY <2>4 DEF Written
    <3>2. ASSUME Body(head, f) # 0
          PROVE  /\ Named(tgs, head, f) /\ Past(head, f)
                 /\ Kept(tgs, head, f) /\ NamesChange(tgs, head, f)
      <4>1. /\ Comment(head, f) = head.version \/ Named(tags, head, f)
            /\ Past(head, f) /\ Kept(tags, head, f) /\ NamesChange(tags, head, f)
        BY <2>4, <3>2 DEF Written
      <4>2. Named(tgs, head, f)
        <5>1. CASE Comment(head, f) = head.version
          BY <2>1, <2>2, <5>1 DEF Named
        <5>2. CASE Named(tags, head, f)
          BY <2>5, <5>2
        <5>3. QED
          BY <4>1, <5>1, <5>2
      <4>3. Kept(tgs, head, f)
        BY <2>1, <2>7, <4>1 DEF Kept
      <4>4. NamesChange(tgs, head, f)
        <5>1. ~Lt(head.version, head.version)
          BY <2>4, VersionFacts, LtFacts
        <5>2. \A u \in tgs : LastBefore(tgs, u, head.version) =>
                               u \in tags /\ LastBefore(tags, u, head.version)
          BY <2>1, <2>2, <2>8, <5>1 DEF LastBefore
        <5>3. QED
          BY <4>1, <5>2 DEF NamesChange
      <4>5. QED
        BY <4>1, <4>2, <4>3, <4>4
    <3>3. QED
      BY <3>1, <3>2
  <2>12. ASSUME NEW t \in tags
         PROVE  Written(tgs, t.tree) /\ \A f \in Released \ Mocks :
                                          Body(t.tree, f) # 0 => Named(tgs, t.tree, f)
    <3>1. /\ Written(tags, t.tree) /\ t.tree.version = t.version
          /\ \A f \in Released \ Mocks : Body(t.tree, f) # 0 => Named(tags, t.tree, f)
      BY DEF CommentsIInv, TagComments, ReleaseIInv, TagsOK
    <3>2. IsFinal(head.version) /\ head.version.minor = t.version.minor
            => ~Leq(head.version, t.version)
      BY <1>1, <1>3, <2>9, NewTagIsLast
    <3> SUFFICES ASSUME NEW f \in Released \ Mocks, Body(t.tree, f) # 0
                 PROVE  /\ Named(tgs, t.tree, f)
                        /\ Kept(tgs, t.tree, f) /\ NamesChange(tgs, t.tree, f)
      BY <3>1, <2>5 DEF Written
    <3>3. Named(tgs, t.tree, f)
      BY <2>5, <3>1
    <3>4. Kept(tgs, t.tree, f)
      BY <2>1, <2>7, <3>1, <3>2 DEF Kept, Written
    <3>5. \A u \in tgs : LastBefore(tgs, u, t.version) =>
                           u \in tags /\ LastBefore(tags, u, t.version)
      BY <2>1, <2>2, <2>8, <3>2 DEF LastBefore, Finals, Leq
    <3>6. NamesChange(tgs, t.tree, f)
      BY <3>1, <3>5 DEF NamesChange, Written
    <3>7. QED
      BY <3>3, <3>4, <3>6
  <2>13. TagComments(tgs)
    BY <2>1, <2>2, <2>11, <2>12 DEF TagComments
  <2>14. HeadComments(heads, tgs)
    <3> SUFFICES ASSUME NEW b \in DOMAIN heads, NEW f \in Released \ Mocks,
                        b \in ReleaseBranches, Body(heads[b], f) # 0
                 PROVE  Kept(tgs, heads[b], f)
      BY DEF HeadComments, CommentsIInv
    <3>1. Kept(tags, heads[b], f)
      BY DEF HeadComments, CommentsIInv
    <3>2. heads[b].version.minor = b
      BY DEF ReleaseIInv, BranchesOK
    <3>3. IsFinal(head.version) /\ head.version.minor = b => heads[b] = head
      BY <1>1, <1>3, <2>4, <2>9, NewTagIsLast
    <3>4. QED
      BY <2>1, <2>7, <3>1, <3>2, <3>3 DEF Kept
  <2>15. QED
    BY <1>1, <2>2, <2>10, <2>13, <2>14 DEF CommentsIInv
<1>4. QED
  BY <1>2, <1>3

(* At first every comment names the last release before these, or nothing.  *)
LEMMA InitCommentsIInv == ReleaseInit => CommentsIInv
<1> SUFFICES ASSUME ReleaseInit PROVE CommentsIInv
  OBVIOUS
<1>1. /\ pc = "idle" /\ edits = 0 /\ tags = {[version |-> Base, tree |-> work]}
      /\ heads = [b \in {Master, Base.minor} |-> work]
  BY DEF ReleaseInit
<1>2. PICK present \in SUBSET Released :
        work = [version |-> Base, contractsVersion |-> Base,
                changelog |-> <<Unreleased>>,
                contract |-> [f \in Released |->
                  [comment |-> IF f \in present \ Mocks THEN Base ELSE None,
                   body |-> IF f \in present THEN 1 ELSE 0]]]
  BY DEF ReleaseInit
<1>3. /\ work.version = Base
      /\ \A f \in Released : Body(work, f) = IF f \in present THEN 1 ELSE 0
      /\ \A f \in Released \ Mocks :
           Comment(work, f) = IF f \in present THEN Base ELSE None
  BY <1>2 DEF Body, Comment
<1>4. \A t \in tags : t.version = Base /\ t.tree = work
  BY <1>1
<1>5. \E t \in tags : t.version = Base /\ t.tree = work
  BY <1>1
<1>6. 0 \in DOMAIN heads /\ \A b \in DOMAIN heads : heads[b] = work
  BY <1>1 DEF Base
<1>7. ~Lt(Base, Base) /\ IsFinal(Base) /\ Base.minor = 0
  BY VersionFacts, LtFacts DEF Base
<1> HIDE DEF ReleaseInit
<1>8. BodiesGrow(heads, tags, edits + 1)
  BY <1>1, <1>3, <1>4, <1>6, <1>7 DEF BodiesGrow
<1>9. \A f \in Released \ Mocks :
        /\ Settled(work, f)
        /\ Kept(tags, work, f)
        /\ Body(work, f) # 0 =>
             Named(tags, work, f) /\ Past(work, f) /\ NamesChange(tags, work, f)
  <2> SUFFICES ASSUME NEW f \in Released \ Mocks
               PROVE  /\ Settled(work, f)
                      /\ Kept(tags, work, f)
                      /\ Body(work, f) # 0 =>
                           /\ Named(tags, work, f) /\ Past(work, f)
                           /\ NamesChange(tags, work, f)
    OBVIOUS
  <2>1. Settled(work, f)
    BY <1>3, <1>7 DEF Settled
  <2>2. Kept(tags, work, f)
    BY <1>4 DEF Kept, Finals
  <2>3. Body(work, f) # 0 => Named(tags, work, f) /\ Past(work, f)
    BY <1>3, <1>5 DEF Named, Past, Leq
  <2>4. NamesChange(tags, work, f)
    BY <1>3, <1>4, <1>7 DEF NamesChange, LastBefore
  <2>5. QED
    BY <2>1, <2>2, <2>3, <2>4
<1>10. TagComments(tags) /\ HeadComments(heads, tags)
  BY <1>4, <1>6, <1>9 DEF TagComments, HeadComments, Written
<1>11. QED
  BY <1>1, <1>8, <1>10 DEF CommentsIInv

(* Every step keeps what comments say.                                      *)
LEMMA NextCommentsIInv ==
  ReleaseIInv /\ ReleaseIInv' /\ edits \in Nat /\ CommentsIInv /\ [ReleaseNext]_releaseVars
    => CommentsIInv'
<1> SUFFICES ASSUME ReleaseIInv, ReleaseIInv', edits \in Nat, CommentsIInv,
                    [ReleaseNext]_releaseVars
             PROVE  CommentsIInv'
  OBVIOUS
<1>1. heads' = heads => OnlyNew(heads')
  BY DEF OnlyNew
<1>2. ASSUME NEW f \in Released, Edit(f) PROVE CommentsIInv'
  BY <1>2, EditComments
<1>3. CASE Discard
  BY <1>1, <1>3, QuietStep DEF Discard, git
<1>4. ASSUME NEW b \in DOMAIN heads, Checkout(b) PROVE CommentsIInv'
  BY <1>1, <1>4, QuietStep DEF Checkout
<1>5. ASSUME branch = Temp, head.version = FirstRc, 1 \notin DOMAIN heads,
             heads' = TempMovedTo(1)
      PROVE  OnlyNew(heads')
  <2>1. /\ DOMAIN heads' = (DOMAIN heads \ {Temp}) \cup {1}
        /\ heads'[1] = head /\ \A b \in DOMAIN heads \ {Temp} : heads'[b] = heads[b]
    BY <1>5, TempMoves
  <2>2. Temp \notin ReleaseBranches /\ FirstRc.minor = 1
    BY DEF Temp, ReleaseBranches, FirstRc
  <2>3. QED
    BY <1>5, <2>1, <2>2 DEF OnlyNew
<1>6. CASE LeaveTemp
  <2>1. /\ UNCHANGED <<pc, tags, edits>> /\ pc = "idle" /\ branch = Temp
    BY <1>6 DEF LeaveTemp
  <2>2. CASE heads' = Restrict(heads, DOMAIN heads \ {Temp})
    <3>1. DOMAIN heads' = DOMAIN heads \ {Temp} /\ \A b \in DOMAIN heads' : heads'[b] = heads[b]
      BY <2>2 DEF Restrict
    <3>2. Temp \notin ReleaseBranches
      BY DEF Temp, ReleaseBranches
    <3>3. OnlyNew(heads')
      BY <3>1, <3>2 DEF OnlyNew
    <3>4. QED
      BY <2>1, <3>3, QuietStep
  <2>3. CASE /\ head.version # Base /\ head.version.minor \notin DOMAIN heads
             /\ heads' = TempMovedTo(head.version.minor)
    <3>1. head.version = FirstRc /\ head.version.minor = 1
      BY <2>1, <2>3, BranchFacts DEF FirstRc
    <3>2. OnlyNew(heads')
      BY <1>5, <2>1, <2>3, <3>1
    <3>3. QED
      BY <2>1, <3>2, QuietStep
  <2>4. QED
    BY <1>6, <2>2, <2>3 DEF LeaveTemp
<1>7. ASSUME NEW c \in {"start", "rc", "final", "push"}, Run(c) PROVE CommentsIInv'
  <2>1. UNCHANGED <<tags, edits>> /\ pc' \in {"push", "bump"}
    BY <1>7 DEF Run
  <2>2. OnlyNew(heads')
    <3>1. CASE c = "start"
      <4>1. heads' = [b \in DOMAIN heads \cup {Temp} |-> IF b = Temp THEN head ELSE heads[b]]
        BY <1>7, <3>1 DEF Run
      <4>2. Temp \notin DOMAIN heads /\ Temp \notin ReleaseBranches
        BY <1>7, <3>1 DEF Run, ReleaseIInv, BranchesOK, Temp, Master, ReleaseBranches
      <4>3. QED
        BY <4>1, <4>2 DEF OnlyNew
    <3>2. CASE c # "start"
      BY <1>1, <1>7, <3>2 DEF Run
    <3>3. QED
      BY <3>1, <3>2
  <2>3. QED
    BY <2>1, <2>2, QuietStep
<1>8. CASE Bump \/ UpdateChangelog \/ SynchronizeVersions
  <2>1. /\ UNCHANGED <<heads, tags, edits>>
        /\ pc' \in {"changelog", "synchronize", "comment", "idle"}
    BY <1>8 DEF Bump, UpdateChangelog, SynchronizeVersions, Step, git
  <2>2. QED
    BY <1>1, <2>1, QuietStep
<1>9. CASE UpdateComment
  BY <1>9, WriteComments
<1>10. CASE Commit
  BY <1>10, CommitComments
<1>11. CASE Tag
  BY <1>11, TagCommentsOK
<1>12. CASE RenameBranch
  <2>1. /\ pc = "rename" /\ pc' \in {"push", "idle"} /\ UNCHANGED <<tags, edits>>
        /\ heads' = IF work.version.minor \notin DOMAIN heads
                      THEN TempMovedTo(work.version.minor) ELSE heads
    BY <1>12 DEF RenameBranch, Step
  <2>2. branch = Temp /\ work = head /\ head.version = FirstRc /\ work.version.minor = 1
    <3>1. branch = Temp /\ work = head /\ head.version # Base
      BY <2>1 DEF ReleaseIInv, CommandOK, WorkOK, Bumping
    <3>2. QED
      BY <3>1, BranchFacts DEF FirstRc
  <2>3. OnlyNew(heads')
    BY <1>1, <1>5, <2>1, <2>2
  <2>4. QED
    BY <2>1, <2>3, QuietStep
<1>13. CASE PushReleaseBranchAndTag \/ Publish \/ RemoveNext \/ Fail
  <2>1. UNCHANGED <<heads, tags, edits>> /\ pc' \in {"publish", "untag", "idle"}
    BY <1>13 DEF PushReleaseBranchAndTag, Publish, RemoveNext, Fail, Step, git
  <2>2. QED
    BY <1>1, <2>1, QuietStep
<1>14. CASE UNCHANGED releaseVars
  <2>1. UNCHANGED <<pc, heads, branch, work, tags, edits>>
    BY <1>14 DEF releaseVars
  <2>2. head' = head
    BY <2>1 DEF head
  <2>3. QED
    BY <2>1, <2>2 DEF CommentsIInv
<1>15. QED
  BY <1>2, <1>3, <1>4, <1>6, <1>7, <1>8, <1>9, <1>10, <1>11, <1>12, <1>13, <1>14
  DEF ReleaseNext

(* Through failures, retries, prereleases and releases of two minor         *)
(* versions, every comment in a final release names a final release that    *)
(* has the contract as it is, and within its minor version the one that     *)
(* last changed it: CommentsNameLastChange.                                 *)
THEOREM CommentsAlwaysNameLastChange == ReleaseSpec => []CommentsNameLastChange
<1>1. ReleaseIInv /\ CommentsIInv => CommentsNameLastChange
  <2> SUFFICES ASSUME ReleaseIInv, CommentsIInv, NEW t \in FinalTags,
                      NEW f \in Released \ Mocks, Body(t.tree, f) # 0
               PROVE  /\ \E u \in FinalTags : /\ u.version = Comment(t.tree, f)
                                              /\ u.tree.contract[f] = t.tree.contract[f]
                      /\ \A u \in FinalTags : IsPrevious(u, t) =>
                           Comment(t.tree, f) =
                             IF Body(u.tree, f) = Body(t.tree, f)
                               THEN Comment(u.tree, f) ELSE t.version
    BY DEF CommentsNameLastChange, Body, Comment
  <2>1. /\ t \in tags /\ IsFinal(t.version) /\ t.tree.version = t.version
        /\ Written(tags, t.tree) /\ Named(tags, t.tree, f)
    BY DEF FinalTags, ReleaseIInv, TagsOK, CommentsIInv, TagComments
  <2>2. PICK u \in tags : /\ u.version = Comment(t.tree, f)
                          /\ u.tree.contract[f] = t.tree.contract[f]
    BY <2>1 DEF Named
  <2>3. IsFinal(u.version)
    <3>1. u.version # None
      BY BranchFacts, VersionFacts
    <3>2. QED
      BY <2>1, <2>2, <3>1 DEF Written, Settled
  <2>4. ASSUME NEW w \in FinalTags, IsPrevious(w, t)
        PROVE  LastBefore(tags, w, t.tree.version) /\ w \in tags
    BY <2>1, <2>4 DEF IsPrevious, LastBefore, FinalTags, Finals
  <2>5. NamesChange(tags, t.tree, f)
    BY <2>1 DEF Written
  <2>6. QED
    BY <2>1, <2>2, <2>3, <2>4, <2>5 DEF FinalTags, NamesChange
<1>2. ReleaseSpec => [](ReleaseIInv /\ edits \in Nat /\ CommentsIInv)
  BY InitReleaseIInv, NextReleaseIInv, InitCommentsIInv, NextCommentsIInv,
     ReleaseInvariant, PTL DEF ReleaseSpec
<1>3. QED
  BY <1>1, <1>2, PTL

=============================================================================
