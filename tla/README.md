# Verification of the metasquare ticketing contracts

The repository holds three small Solidity contracts (`src/src`), a test and a
deployment script, and a whole copy of OpenZeppelin Contracts (`src/lib`) from
which they inherit.  This project models the three contracts and what they
inherit in TLA+, checks the models with TLC and proves theorems about them with
TLAPS.  A second part does the same for the JavaScript that came with the copy:
the generator templates of four libraries, and the scripts that check, migrate,
document and release the package.  **The ticketing contracts neither call these
libraries nor run these scripts**; they are in the repository, most of its
JavaScript, and have protocols of their own that are hard to test.  Line numbers
refer to the sources.

## 1. The system

### Components

| Component | Source | State | Operations that change it |
|---|---|---|---|
| `TicketFactory` | `src/src/ticketFactory.sol` | `event_To_ID` (id -> address, admin, created, used), `eventAddressToID`, `registeredEvents`, `Controller`, its ether | `createID` 49, `createEvent` 61, `changeController` 123, `withdrawFromChild` 133, `openWithdrawalChild` 142, `pauseWithdrawalChild` 150, `withdraw` 159, `receive` 169 |
| `iTicketing`, one per event | `src/src/ticket.sol` | counter `_tokenIds`, `eventDetails`, `totalEthFromTicket`, `OrganizersEthShare`, `platformFee`, `withdrawIsOpen`, sets `hasRegistered`, `attendedEvent`, `hasClaimed`, an ERC721 ledger of tickets, its ether | `register` 175, `setAttenders` 147, `claimAttendanceToken` 214, `withdrawEthEventAdmin` 287, `openWithdrawal` 273, `pauseWithdrawal` 280, `withdraw` 300, `setPoapAddr` 208, `receive` 321, the ERC721 transfers |
| `Poap`, one per event | `src/src/poap.sol` | an ERC721 ledger of attendance tokens, `Admin` | `safeMint` 19 (only from its `iTicketing`), the ERC721 transfers |
| inherited ledger | `src/lib/openzeppelin-contracts`: `ERC721`, `ERC721URIStorage`, `Counters` | owners, approvals, URIs, a counter | `_safeMint`, `_setTokenURI`, `transferFrom`, `safeTransferFrom`, `approve`, `setApprovalForAll` |
| interfaces | `ITicketing.sol`, `IPoap.sol` | none | declarations only |
| script, test, records | `src/script`, `src/test`, `src/broadcast`, `src/bin` | none | not part of the running system |

The vendored part, below `src/lib/openzeppelin-contracts/scripts`:

| Component | Source | State | Operations that change it |
|---|---|---|---|
| `EnumerableSet`, `EnumerableMap` | `generate/templates/EnumerableSet.js`, `EnumerableMap.js`, `conversion.js` | array `_values`, mapping `_indexes`; keys and mapping `_values` | `add`, `remove`, `set`, and the reads `at`, `values`, `get`, `tryGet` |
| `Checkpoints` | `generate/templates/Checkpoints.js` | an array of keys with values | `push`; lookups by binary search |
| `SafeCast` | `generate/templates/SafeCast.js` | none | casts that revert when a number does not fit |
| `migrate-imports.js` | the same | the files of a project | walks a tree, rewrites import paths |
| `inheritance-ordering.js` | `checks/inheritance-ordering.js` | a graph for each build, the exit code | reports contracts inherited in two orders |
| documentation branch | `update-docs-branch.js`, `.github/workflows/docs.yml` | git clones, the docs branch at the origin | fetch, compare, reset, commit, push |
| releases | `release/release.sh`, `version.sh` and the scripts it runs | a clone, upstream, npm | `start`, `rc`, `final`, `push` |
| gas reports, generator, navigation, build settings | `checks/compareGasReports.js`, `generate/run.js`, `gen-nav.js`, `hardhat.config.js` | none | formatting and file output |

### How they interact

The Controller of the factory hands out an event id to an organizer
(`createID`).  The organizer calls `createEvent`, which deploys an `iTicketing`
and a `Poap`, enters the event in the registry and tells the event where its
`Poap` is.  People `register` with the event, pay the fee and get a ticket; the
organizer marks who came (`setAttenders`); those `claimAttendanceToken`, which
mints in the `Poap`.  Tickets and attendance tokens of one event are numbered
from **one** counter.  The Controller opens and pauses withdrawal and draws the
platform's 5% through the factory; organizer or Controller draw the rest with
`withdrawEthEventAdmin` while withdrawal is open.

### What is hard about it

* **Callbacks.**  `_safeMint` and `safeTransferFrom` call `onERC721Received` of
  a receiver that is a contract, and paying a contract runs its `receive`.  In
  each case the receiver may call any function of any contract before the
  first call returns.  `register` and `Poap.safeMint` still have to set the
  token's URI at that point.
* **Reverts.**  A callback that refuses undoes the function that made it and
  everything called from within it, while calls that were completed earlier
  stay.  A nested call may fail without the outer one failing.
* **Recomputed money.**  The share and the fee are derived from all sales at
  the time of each withdrawal, by two different functions.
* **Boundaries.**  Seats are compared with `==`, the sum of sales times 5 and
  the token number can overflow, the counter's increment is unchecked.
* **Order.**  Registration, attendance, claim, opening and paying are separate
  transactions by different people.

In the vendored part: arrays that are reordered while somebody reads them and
sentinels that a stale value would betray (sets and maps); a binary search split
at a square root, about blocks that may still change (checkpoints); a script
killed in the middle of a write and run again (migration); jobs on several
clones that overlap, fail at any command and are repeated (docs and releases).

What makes each part correct: the *event* never oversells, gives each token its
own number and URI, loses no ether, lets people only move forward, and never
blocks a legitimate claim; the *registry* has one event per id, under the admin
the id was created for, connected to its `Poap`; the *platform* neither creates
nor loses ether between factory and events; the *ledger* moves a token only on
behalf of its owner.  A *set* or *map* answers as a mathematical one, a
*checkpointed value* as its history; the *migration* damages nothing and ends;
the *docs* and *releases* stay consistent between clone, origin and npm,
whatever fails.

`PROJECT.json` lists the hazards line by line, with the properties about them.

## 2. The modules

| Module | Models | State and actions |
|---|---|---|
| `TicketOps` | what each function reads and writes of one event | No variables.  A guard `CanF` (all checks that revert) and the storage `F` leaves, over records: `s` state variables of `iTicketing`, `tl`/`pl` the two ledgers, `v` the ether, `e` the constructor's arguments.  Also the named parts of consistency (`NumberingOK`, `HeadcountOK`, `MoneyOK`, `QuotasOK`). |
| `Calls` | transactions and callbacks | `stack` of the functions that wait for a callback, `gas`.  Starting, ending and nesting calls, used by the actions of `Ticketing` and `Platform`. |
| `Ticketing` | one event with its `Poap`, called by accounts and contracts | `event`, `store`, `tickets`, `poaps`, `vault`, `clock`, and the variables of `Calls`.  One action per function; `Unwind` and `Revert` end a function that had handed over control. |
| `Attendance` | what an event promises its public | `plan`, `stage`, `clock`; a transaction is one step. |
| `FactoryOps` | the registry of `TicketFactory` | No variables.  Guards and effects of `createID` and `createEvent` on `event_To_ID`, `registeredEvents`, `eventAddressToID`, what it passes to `iTicketing`, and the consistency of the registry with the events (`RegistryOK`). |
| `Platform` | the factory and all events it deployed | `Controller`, `registry`, `coffer` (the factory's ether), `events` (address -> the parts of `TicketOps`), `clock`, and the variables of `Calls`.  One action per function of the factory and of an event. |
| `Registry` | what the platform promises organizers | `owner`, `place` of an id, `terms` of an event; a transaction is one step. |
| `ERC721` | the ledger both contracts inherit, with balances, approvals and operators | `owners`, `balances`, `tokenApprovals`, `operatorApprovals`, the history `trusting` and `caller`, and the variables of `Calls`.  One action per function; `Accepted` and `Refused` are the receiver's answers. |
| `Enumerable` | storage and operations of sets and maps | No variables. |
| `EnumerableSetMock`, `EnumerableMapMock` | the generated contract of each type | `_set` or `_map`, the type, the last call with its result; for sets also someone who reads position after position between the changes |
| `Dictionary` | what a map, or a set, promises | `entries`, `call`, `result` |
| `Checkpoints` | arrays of checkpoints and the bounds of each lookup | No variables. |
| `CheckpointsMock` | the generated contracts, a `History` or a `Trace` | `kind`, `number` (of the block), `_totalCheckpoints`, the running `search` and its `answer`; a round of a search is a step |
| `Timeline` | what a checkpointed value promises | `writes`, `answer` |
| `SafeCast` | the casts and the mock that offers them | a number handed from cast to cast, with its sign and length, and the number it was at first |
| `MigrateImports` | the migration script | the files, the queue of the walk, the file in work, the report; `Killed` between any two steps |
| `InheritanceOrdering` | the compiler's linearizations and the check | the builds, the graph, the log, the exit code |
| `DocsBranch` | `update-docs-branch.js` in several clones, the workflow and the origin | `released`, `publishedDocs`, each `clone` with its branches, index and place in the script, `failedJobs` |
| `DocsSite` | what the docs branch promises | `pages` |
| `Releases` | `release.sh`, `npm version` and the scripts in it | the clone's branches, tree and tags, upstream's tags, what is on npm with its dist-tags |
| `MCTicketing`, `MCPlatform` | instances for TLC | the events and accounts of the runs |
| `MCLibraries`, `MCScripts` | the libraries, and the scripts, one at a time | `library` or `script` says which one moves; next to it all their variables, and the table and tree of the migration |
| `CallsProofs`, `TicketOpsProofs` | lemmas: on pushing and popping frames, on the operators of `TicketOps` | |
| `TicketingProofs`, `PlatformProofs` | theorems about one event and about the platform; `PlatformProofs` also the lemmas on `FactoryOps` | |
| `LibrariesProofs`, `CheckpointsProofs` | theorems about sets, maps, the ledger and casts; about checkpoints | |
| `ScriptsProofs`, `ReleasesProofs` | theorems about the migration, the search for inheritance conflicts and the docs branch; about releases | |

`MCLibraries` and `MCScripts` extend the modules they run, so the variables of
those are named apart, and what TLC checks is what the theorems are about.

**Transactions and callbacks.**  A call by an account starts a transaction.  A
function that does not hand over control is one step.  A function that does is
split where the code calls out: the first step does everything up to the
callback and pushes a frame with the state from *before* the function; then
contracts may call in (`MayCall`); `Unwind` performs the rest of the function
(`_setTokenURI`, with the number kept in the frame, as the code keeps it in a
local variable) and pops the frame; `Revert` puts back the saved state and pops
the frame.  The number of calls within one transaction is bounded by its `gas`;
time passes between transactions only.  A call whose guard is false reverts and
changes nothing, which is a stuttering step.  A function runs its checks in the
order of the code, but since each failing check reverts all of it, only their
conjunction matters, and it is the guard.

**Composition.**  `Ticketing` is one event in full, with transfers and the
`Poap` ledger.  `Platform` puts any number of them behind one factory: its
frames save the state of *all* contracts, for a revert undoes what a call did to
any of them, and a callback from one contract may call another.  Both use the
guards and effects of `TicketOps`, so an event does the same in both.
`createEvent` is one step: the constructors and `setPoapAddr` call no one
outside, and if any part fails all of it reverts.  An address whose creation was
undone is free again.

**Data.**  Texts are left out; a URI is set or not set (`tokenURI` reads a
mapping of `iTicketing`'s own that nothing writes, and falls through to the one
of `ERC721URIStorage`).  Amounts are integers up to `MaxUint`, and checked
arithmetic is a guard (`Fits`); the counter's unchecked increment wraps.
`vault` keeps, next to the balance, the history of gifts and payments the
properties speak of.

**Abstractions that allow more than the code.**  In `Ticketing` a transfer may
be made by anyone, for the owner may have approved anyone; `ERC721` has the
approvals, without the rest of an event.  `FactoryMayCall` lets the factory call
whenever its Controller may run.

**Faulty variants.**  Some definitions are preceded by a variant with a
plausible mistake (`ClearedNot`, `ClaimedUncounted`, ...) that nothing uses: put
in place of the definition, it breaks the property it was written for.

**The vendored libraries.**  The templates are the source: what a model
translates is the Solidity they write, with its types as parameters.  `toBytes32`
and `fromBytes32` are what they do to a word, truncation included.  The mocks of
the repository are the environment: anyone calls any function in any order.  A
`Checkpoints` lookup is one call, so nothing else happens between its rounds;
they are steps so that its ending and its bounds can be stated.

**The scripts.**  A file is the sequence of paths it mentions; text in between
cannot change.  `writeFile` is two steps, for it truncates first.  In
`DocsBranch` a commit is the sequence of trees up to it, and git commands do to
branches, `HEAD` and index what they do; whatever command fails leaves the clone
as it is, and someone may check out the release branch and run the script again,
there or in a new clone.  In `Releases` a commit is the tree it leaves, and
`npm version` the chain of steps it is: version, changelog, synchronized
version, comments, commit, tag.

## 3. Runs

| Run | Configuration | What it asks |
|---|---|---|
| `nested_calls` | `ticketing_nested.cfg` | A user and two contracts, one of them organizer and Controller; two seats at 20 wei; four calls deep in one transaction. Are numbering, counts, money and URIs consistent at *every* moment, also in the middle of nested mints and after any of them is undone? |
| `event_kinds` | `ticketing_events.cfg` | Four events: one seat, a free one, one whose id leaves numbers for two tokens, one whose second sale overflows; time before, in and after registration, gifts; the organizer is a contract and withdraws from its callback. Types, quotas (share and fee are recorded at different totals), and the refinement of `Attendance`. |
| `attendees_claim` | `ticketing_live.cfg` | Does everyone who attended get the token, also while tokens change hands? |
| `registry` | `platform_registry.cfg` | Two accounts, both contracts, either the Controller; ids 0, 5 and 9, two addresses; valid plans and one with its deadline before its start; three calls deep. Does the registry agree with the events deployed at every moment, and does it implement `Registry`? |
| `fees` | `platform_fees.cfg` | One contract that is Controller, organizer and guest of two events. Does every fee arrive, across nested calls and reverts that touch several contracts? |
| `one_event` | `platform_event.cfg` | Controller and organizer apart, the organizer a contract, one event from id to claim, time passing. Types, consistency of the event when calls nest through the factory, and the inductive invariant of the proofs about `Platform`. |
| `stale_controller` | `platform_stale.cfg` | Do only the organizer and the Controller draw? **No**, see below. |
| `organizer_share` | `ticketing_share.cfg` | Is the organizer paid no more than the share? **No**, see below. |
| `libraries` | `libraries.cfg` | Sets: do they behave as sets of every type, and does a reader miss nothing? Maps: do they behave as dictionaries? Checkpoints: does each lookup end and answer as the history does, and is the past settled? Casts: is one that does not revert the identity, and does one revert only when the number does not fit? The ledger: do balances count tokens, and does only who approved someone lose tokens to others? |
| `scripts` | `scripts.cfg` | Migration: is nothing damaged but by a write cut off, nothing left when there is nothing to do, and does repeating it end? Inheritance: are exactly the conflicting pairs reported? Docs: do release branches stay, and is the docs branch what `DocsSite` says? Releases: do comments, changelog, tags and npm agree? |
| `inheritance_cycle` | `ordering_cycle.cfg` | Does "consistent" mean there is an order? **No**, see below. |
| `docs_two_digits` | `docs_minor.cfg` | Do newer docs stay? **No**, see below. |

**One component at a time.**  The libraries share no state with each other, nor
do the scripts.  In `libraries` and `scripts` the initial state chooses one of
them; it goes through all it can do while the others stay where they start, at
one fixed state.  TLC visits the sum of their state spaces instead of the
product, and nothing is lost: a property speaks of one of them only.

**Bounds.**  Three accounts are one for each role that differs (a user without
code, a contract, the organizer); two seats let one person's mint nest in
another's; a fee of 20 wei is the least whose 5% is not rounded away; batches
of two include repeated entries; `MaxCalls = 3` nests a claim in a claim in a
register in a payment.  In `event_kinds` `MaxUint = 250` makes both overflows
happen with a fee of 130 wei (two sales, and five times one, exceed it), while
two sales of 20 wei fit five times over: withdrawals of 0 and of 20 wei then
record a share of 19, and after the next sale, also one in the callback of a
withdrawal, a fee of 2 next to it.  The other runs use 1000, which nothing
reaches.  `MaxGifts`,
`MaxFees` and `MaxTime` only bound what may go on for ever (5% of 20 wei could
be drawn twenty times).  For the registry two events are enough to confuse, and
three ids leave one unused; `fees` adds up two events in one transaction.

In `libraries`: sets and maps have three words (two of them addresses), so that
a removal hits the first, a middle, the last and the only value; six keys exceed
the five checkpoints above which the recent half of the array is searched, and
reach a key on either side of the split; words have eight bits and shorter ones
2, 4 and 6, one below half of another, and every number of the word is a start;
the ledger has two users, a contract and two tokens, with one call nested in
each callback, and `MaxOperators = 1` allows one operator at a time, of any
account; operators come and go.

In `scripts`: the table of the migration has two old paths with one new path,
its tree three levels of directories, its files a path mentioned twice and paths
of both packages, its arguments a file listed twice and one that is missing, and
it is killed once, anywhere.  Two
builds of up to four contracts hold a conflict in either, or in none.  Two
clones with two minor versions and one failure between them are enough for a
stale read, a rejected push and a retry.  In `Releases`, two minor versions have
a branch and two patches each (`MaxPatches = 2`), each with up to two
prereleases (`MaxRc = 1`), so that `final` may be run on either branch after the
other, and `rc` after `final`; one commit changes a contract, which was there or
is new, on any branch, before, between or after the releases (`MaxEdits = 1`),
and one command fails, anywhere.  More changes are left to the proof.  `MaxCrashes`,
`MaxFailedJobs`, `MaxFails`, `MaxRc`, `MaxPatches` and `MaxEdits` only bound what
may be repeated.  Six contracts (`inheritance_cycle`) are the least for a cycle of
three orders without a conflicting pair; `docs_two_digits` has minor versions 9
and 10.

**The properties.**

* `OneNumberOneToken`: the numbers up to the counter are in use, each by one
  token of one contract.
* `Headcount`: claims, attendance, registrations, tickets, seats agree.
* `BooksBalance`: recorded sales are fee times participants; ether in equals
  ether held plus ether paid out.
* `QuotasWithinSales`: the recorded share plus the recorded fee never exceed
  sales, although they are recorded at different times.
* `TokensShowTheirURI`: only a token whose receiver still has control is
  without its URI.
* `NumbersNeverBlock`: as long as two numbers per seat fit, whoever attended
  can claim, and whoever pays for a free seat in time can register.
* `ImplementsAttendance`: the state between transactions moves as `Attendance`
  says.  The mapping takes the committed state, which is the current one when
  no call is running and the one saved by the outermost frame otherwise.
* `RegistryConsistent`: every event is listed once and found under its address
  and its id, belongs to whom the id was created for; an unused id leads nowhere.
* `ImplementsRegistry`: ids are given to one account for good, become one event
  for good, whose terms do not change.
* `FeesArrive`: what the factory holds and paid out is what its events paid it
  and what it was given.
* `EventsConsistent`: `StateOK`, the consistency of one event, for all of them.
* `BalancesCount`: the unchecked arithmetic on balances counts tokens at every
  moment.  `TrustingNobodyKeepsTokens`: what earlier owners approved is over.
* `ImplementsSet`, `ImplementsDictionary`: each change, and the Boolean it
  returns, is one of `Dictionary`.  `ListedOnce`: `values()` lists members once.
  `NothingMissed`: reading downwards shows all that stayed.  `MapConsistent`,
  `ReadsAgree`: keys, positions and values fit, and the four reads agree.
* `ImplementsTimeline`: every lookup answers from the history of writes.
  `PastIsSettled`: no block that may be asked for changes afterwards.
  `LatestIsLast`: `latest` and `latestCheckpoint` are the end of the history.
  `LookupsEnd`: searches end.
* `CastsKeepValue`, `CastsRefuseNoFit`: what comes through is the number, and
  what fits comes through, of downcasts and of casts between signs.
* `FilesIntact`: files change in old paths only, except when a write was cut
  off.  `NothingLeft`: a run that found nothing to update left no old path in
  any contract below its arguments (`Below`, closed under listing directories).
  `RunsConverge`: repeating the script leads to such a run.
* `PairsReported`: the report is each build's conflicting pairs, no more and no
  less.
* `ReleaseStays`: no failure or retry moves a release branch.
  `ImplementsDocsSite`: pages are only added, of final releases, in order of
  minor versions.
* `CommentsNameLastChange`: the comment of a contract names a final release
  that has the contract as it is; within a minor version, the one that last
  changed it.  `TagsTellTheirVersion`: the package has the version of the tag,
  and the changelog a heading for its release, which is dated unless the version
  ends in -rc.N.  `PublishedAreTagged`: what is on npm was pushed.
  `LatestIsNewestOfItsMinor`: `latest` moves only to a final version newer than
  all that its minor version has on npm; from one minor version to an older one
  it may move.
* `IInv` (of `Ticketing` and `Platform`): the inductive invariants of the proofs.

**Fairness.**  `FairSpec` assumes that a function waiting for a callback ends
(weak fairness of `Unwind \/ Revert`: gas is finite, so a callback returns or
runs out of gas), and that an account without code that tries to claim again
and again gets its call in (strong fairness of its claim: between transactions
of others the call is possible again and again, and a pending transaction is
eventually included).  Nothing else is assumed to happen: nobody has to
register, to mark, or to let time pass.  `FairSpec` of `MCLibraries` assumes
that a lookup that was started is executed (nothing in a loop of the EVM waits).
`ScriptsSpec` of `MCScripts` assumes that the migration runs on unless killed, at
most `MaxCrashes` times, and that its user runs it until it says that no files
were updated: `RunsConverge` is about that procedure, not about a single run.
Nothing live is claimed of `DocsBranch` and `Releases`, where people decide
whether to try again.

**Deadlock** is checked in every run but three: in `libraries` a number that no
cast accepts any more has no next step, and in `scripts` and
`inheritance_cycle` the check of the inheritance ends with its verdict.

**What `Releases` assumes of its users.**  One maintainer, two minor versions and
a release branch for each; any argument of `release.sh` is tried at any time, as
far as the script lets it.  Contracts and changelog change by commits on master
or a release branch (`Edit`), nothing is merged between branches (so master keeps
the version of the last release before), and nothing is committed on
`release-temp`.  Uncommitted changes a failure left behind are discarded or
met by the next try.

**The findings.**  The check of `withdrawEthEventAdmin` that lets in only "Admin
or controller" (line 109) compares with the Controller the event was created
with.  `changeController` changes the factory's only: the account it replaced may
still draw from the event, its successor may not.

`withdrawEthEventAdmin` recomputes `OrganizersEthShare` from
all sales (line 289) before it checks the amount against it (292) and subtracts
(293).  The subtraction is lost at the next call.  With sales of 40 wei the
organizer draws 20 twice, two more than the share of 38; the platform's fee is
then gone.  In the same way `withdraw` pays the fee on all sales at every call;
the repository's test does that on purpose (`src/test/ticket.t.sol:106-109`), so
it is listed as a hazard and not as a finding.

`inheritance-ordering.js:32` looks for pairs only, and says in line 31 that this
"needs proof".  It does not hold: three contracts that inherit in the orders
B A, C B and A C leave no order, and the script calls them consistent.

`update-docs-branch.js:42` compares minor versions as strings, so 9 is not
older than 10.  Within one digit the script keeps its promise in spite of
overlapping jobs (`ImplementsDocsSite`), as far as it makes one: it does not look
at patches, so the job of an older patch that comes late replaces the docs of a
newer one.

One observation is no finding, for nobody says otherwise in so many words:
`migrate-imports.js:146` calls `replace` with a string, which replaces the first
occurrence, so a path a file mentions twice is still there after one run.  Runs
repeated until nothing is updated do migrate everything (`NothingLeft`,
`RunsConverge`).

Nor are these two, of the releases.  `release.sh:131` lets `final` run on any
release branch, and line 138 publishes with `--tag latest`: a patch of the older
minor version, released after the newer one, is what npm installs by default from
then on.  And `rc` after `final` makes X.Y.(Z+1)-0, which has no 'rc' in it, so
`update-changelog-release-date.js:21-27` gives its heading a date although it is
a prerelease; the final release after it then finds no open heading, and fails
unless somebody opened one.

## 4. Proofs

For every set of accounts, every event, every bound and every depth of calls,
about `Ticketing` (assumptions `MaxUintAssumption` and `TicketingAssumption`:
accounts are finite, events are such that `createEvent` lets them through,
amounts are natural numbers):

| Theorem of `TicketingProofs` | States |
|---|---|
| `InductiveInvariant` | `Spec => []IInv` |
| `TypeCorrect` | `Spec => []TypeOK` |
| `NumbersAreUnique` | `Spec => []OneNumberOneToken` |
| `SeatsAreNotOversold` | `Spec => []Headcount` |
| `MoneyIsConserved` | `Spec => []BooksBalance` |
| `QuotasStayWithinSales` | `Spec => []QuotasWithinSales` |
| `NobodyIsTurnedAway` | `Spec => []NumbersNeverBlock` |
| `TokensGetTheirURI` | `Spec => []TokensShowTheirURI` |
| `TicketingImplementsAttendance` | `Spec => ImplementsAttendance` |

About `Platform`, with any number of ids, addresses and events (assumptions
`MaxUintAssumption`, `FactoryOpsAssumption` and `PlatformAssumption`: the zero
address is no account's and no event's, accounts are finite, ids and the
parameters of `createEvent` fit the integers):

| Theorem | Module | States |
|---|---|---|
| `PlatformInvariant` | `PlatformProofs` | `Spec => []IInv` |
| `PlatformTypeCorrect` | `PlatformProofs` | `Spec => []TypeOK` |
| `RegistryStaysConsistent` | `PlatformProofs` | `Spec => []RegistryConsistent` |
| `EventsStayConsistent` | `PlatformProofs` | `Spec => []EventsConsistent` |
| `PlatformImplementsRegistry` | `PlatformProofs` | `Spec => ImplementsRegistry` |
| `FeesAlwaysArrive` | `PlatformProofs` | `Spec => []FeesArrive` |

About the ledger and the vendored part, for every value of the constants that
meets the assumptions:

| Theorem | Module | States |
|---|---|---|
| `LedgerInvariant`, `BalancesAlwaysCount` | `LibrariesProofs` | `LedgerSpec => []LedgerIInv`, `LedgerSpec => []BalancesCount` |
| `NobodyTrustedNothingLost` | `LibrariesProofs` | `LedgerSpec => TrustingNobodyKeepsTokens` |
| `SetInvariant`, `SetListsMembersOnce` | `LibrariesProofs` | `SetSpec => []SetIInv`, `SetSpec => []ListedOnce` |
| `SetReadingMissesNothing` | `LibrariesProofs` | `SetSpec => []NothingMissed` |
| `SetImplementsSet` | `LibrariesProofs` | `SetSpec => ImplementsSet` |
| `MapInvariant`, `MapReadsAgree` | `LibrariesProofs` | `MapSpec => [](MapIInv /\ MapConsistent)`, `MapSpec => []ReadsAgree` |
| `MapImplementsDictionary` | `LibrariesProofs` | `MapSpec => ImplementsDictionary` |
| `CastsAlwaysKeepValue`, `CastsNeverRefuseAFit` | `LibrariesProofs` | `CastSpec => []CastsKeepValue`, `CastSpec => []CastsRefuseNoFit` |
| `CheckpointsInvariant`, `LatestIsTheEnd` | `CheckpointsProofs` | `CheckpointsSpec => []CheckpointsIInv`, `CheckpointsSpec => []LatestIsLast` |
| `SettledPast` | `CheckpointsProofs` | `CheckpointsSpec => PastIsSettled` |
| `CheckpointsImplementTimeline` | `CheckpointsProofs` | `CheckpointsSpec => ImplementsTimeline` |
| `FilesStayIntact`, `NothingIsLeft` | `ScriptsProofs` | `MigrationSpec => []FilesIntact`, `MigrationSpec => []NothingLeft` |
| `PairsAreReported` | `ScriptsProofs` | `OrderingSpec => []PairsReported` |
| `ReleaseBranchStays` | `ScriptsProofs` | `DocsSpec => []ReleaseStays` |
| `DocsBranchImplementsDocsSite` | `ScriptsProofs` | `SameDigits => (DocsSpec => ImplementsDocsSite)` |
| `ReleaseInvariant` | `ReleasesProofs` | `ReleaseSpec => [](ReleaseIInv /\ edits \in Nat)` |
| `TagsAlwaysTellTheirVersion`, `PublishedAreAlwaysTagged` | `ReleasesProofs` | `ReleaseSpec => []TagsTellTheirVersion`, `ReleaseSpec => []PublishedAreTagged` |
| `LatestIsAlwaysNewest` | `ReleasesProofs` | `ReleaseSpec => LatestIsNewestOfItsMinor` |
| `CommentsAlwaysNameLastChange` | `ReleasesProofs` | `ReleaseSpec => []CommentsNameLastChange` |

The assumptions, each evaluated by TLC on its instance: `LedgerAssumption`,
there are finitely many tokens and `NoOne` is no account;
`EnumerableAssumption`, addresses are among the words;
`CheckpointsAssumption`, a square root lies between 1 and the length, which is
all the search needs; `CastAssumption`, types are not empty and not longer than
a word, powers of two double and grow (arithmetic whose proof is an induction);
`MigrateAssumption`, the keys of the table are distinct, nothing is moved to a
path something else was moved from, and a name is that of a contract, of another
file or of a directory; `OrderingAssumption`, `ReleaseAssumption`, the bounds
are natural numbers; `DocsAssumption`, minor versions have at most two digits.

**The argument for one event.**  None of the properties is inductive alone.
`Revert` brings back an earlier state, so consistency (`StateOK`) has to hold
of every state on the stack as well as of the current one; `StateOK` is a
constant-level operator applied to each.  Numbering needs the headcount
(numbers are finitely many) and that the numbers in use fit, so that the
counter does not wrap.  `QuotasWithinSales` needs `QuotasInv`: the recorded
share leaves room for the *present* fee, which is preserved by a sale because
the fee grows by no more than the sale does in spite of rounding (`FeeSlope`).
`CallsInv` bounds the depth of calls by the gas left.  `NobodyIsTurnedAway`
counts: the counter equals participants plus claims (`CounterCounts`), claims
are at most participants, participants at most seats.  `TicketOpsProofs` shows
that each function keeps `StateOK`, `CallsProofs` what pushing and popping
frames does; `TicketingProofs` combines them, one lemma per action.

**URIs.**  That a token without URI is one a frame waits for is not inductive
either: after a revert, the frames that explained a saved state's tokens must
still be there.  `URIsOK` says of each saved state that its tokens without URI
are waited for by the frames *below* it, and of the current state that they are
by all frames; a revert then brings back a state that the remaining frames
explain.

**The argument for the platform.**  `ContractsOK` says of the state of all
contracts that registry and events agree (`RegistryOK`) and that each event is
consistent (`EventOK`); it holds of the current state and, by `FramesOK`, of
every saved one.  The lemmas of `TicketOpsProofs` are used again for each
event's functions; `PlatformProofs` shows that `createID` and `createEvent`
keep `RegistryOK`, and that what `createEvent` checks makes the event it deploys
consistent.

**The refinement.**  What `Registry` sees of `Platform` is the committed
state: the current one between transactions, the one saved by the outermost
frame during one.  Steps only add to what a state promises (`Later`), except for
`Revert`, which goes back.  But it goes back to a saved state, and
`HistoryOK` says that every saved state, too, is later than the committed one.
So whatever a transaction ends with keeps what was promised before it, and
`IInv` says that it is consistent: a `Transaction` of `Registry`.

`TicketingImplementsAttendance` has the same form.  There a promise is that
people only move forward, and that seats were taken only if registration is
open *now*; since the clock stands still while a call is pending, what holds of
each step of a transaction holds of the transaction.

**Sets and maps.**  The invariant says that positions and array are inverse to
each other; swap-and-pop keeps it by cases on whether the removed value was the
last.  For the reader, every value that stayed and was not seen is below the
place to be read next: a removal moves values downwards only, and an addition
goes to the end, so neither takes one past the reader.

**Checkpoints.**  Keys increase strictly, and a running search keeps the answer
between its bounds.  Neither depends on where the array is split, so the proof
needs nothing of `sqrt` but its range.

**Fees.**  `FeesArrive` adds up what all events count as drawn fees.  A sum
over a set is a recursive function, about which nothing can be proved without
induction; so the model counts the fees wei by wei: `FeeWeis` has an element
for each event and each wei of its fee, and the sum is its cardinality.
Drawing `n` wei adds `n` elements that were not there (`MoreFeeWeis`), deploying
an event adds none, and every other function leaves them.  `FeesBalance` is
part of `ContractsOK`, so that a revert comes back to a state it holds of.

**The ledger.**  `LedgerIInv` says of the current state, and of each state kept
for a revert, that balances are cardinalities, and that what gives an account
power over another's token (an approval of the token, an operator) comes from an
owner in `trusting`.  A transfer has to clear the token's approval: else the new
owner would be exposed to whom the old one approved.  `_transfer` subtracts and
adds unchecked; the subtraction does not wrap, because an owner has a token to
count, and a transfer to oneself leaves the balance as it is (`ShiftedBalances`).

**Casts.**  The signed casts compare the result with the number.  A remainder
is the number itself exactly when the number is below the divisor and not
negative (`OwnRemainder`); shifted by half a range, that is membership in the
signed type.

**Migration.**  `HeldOK` says that what the script holds in memory is the
file's text with some paths migrated, or the remains of a write cut off before;
so whatever is written next is one of the two.  For `NothingIsLeft`, the walk is
a search of the tree: `Reached` names a set of names that contains the
arguments, and that is closed but for the directories in the queue; when the
queue is empty it is closed, so every contract below the arguments, however
deep, is in the list.  `HeldTells`
says that the text in memory still equals the file only if none of the rows so
far had its old path in it; so a file that is left unwritten is migrated.

**Inheritance.**  At each moment the graph is the union of the edges of the
linearizations read so far, and the log has the conflicting pairs of the builds
read before (`PrintedOf`); a pair is printed when both edges are in the graph,
whether one contract or two brought them.

**The docs branch.**  What a clone knows of the published branch is a prefix of
it, because nobody publishes but by a push that is refused unless the branch at
the origin is a prefix of what is pushed.  A clone's own docs branch is such a
prefix too, or a prefix with one page of its own version added (`AddsPage`); so
a push adds that page and nothing else.  That the page is not older than the
last one was decided by comparing strings: `SameDigits` (all minor versions have
one digit, or all have two) makes that the order of numbers.  The hypothesis is
needed: `docs_two_digits` shows what happens without it.  `ReleaseBranchStays`
does not need it.

**Releases.**  Versions only go up on each branch, by `npm version`, and every
tag is of a version not above the last commit's of its branch; so a tag made for
a new version is for one that has none, whatever failed between commit and tag
(`TagsOK`, `BranchesOK`, `WorkOK`).  For the changelog, `TreeOK` says of every
committed tree that no heading is dated for a version still to come: so a
heading that must not have a date has none, and one that must have it was dated
by its own version.  npm takes a version once and only with its tag pushed
(`NpmOK`); `final` publishes the last version of its branch (`CommandOK`), above
which its minor version has no tag, hence nothing on npm.

Comments need a second invariant, `CommentsIInv`, for `update-comment.js`
compares a contract with the last tag of *earlier releases* only, which may be a
prerelease, if the final release after it was never tagged, or a tag of the
other branch.  `BodiesGrow`: changes are never taken back, so that two trees of a
branch with the same body of a contract agree between them.  `Kept`: a contract
as it was in a final release of the minor version has the comment it had there.
`Named`: a comment names a tag that has the contract as it is.  `Settled`:
a comment that names a prerelease does not outlive the release it leads to.
`NamesChange` is the property itself for the tree that is about to be tagged,
and `Written` collects what the scripts have made of it by then.

**Only model-checked.**  `AttendeesGetToken`, `LookupsEnd` and `RunsConverge`
are liveness properties, which are out of the prover's reach.  Every other
property that a passing run checks is a theorem.  The four violated ones are
refuted by TLC.  What is assumed and not proved is `CastAssumption` on powers of
two; that `DocsBranch` implements `DocsSite` is proved for versions of equally
many digits only, for it is false otherwise.

## 5. Plan

1. *(done)* `TicketOps`, `Ticketing`, `Attendance`, their runs and the proofs
   about `Ticketing`.
2. *(done)* `Calls`, `FactoryOps`, `Platform`, `Registry` and their runs: the
   factory's registry and ether next to the events.
3. *(done)* Proofs about `Platform`: the invariant of the registry and of all
   events, and the refinement of `Registry`.
4. *(done)* `ERC721`: approvals, operators and balances, with callbacks.
5. *(done)* Proofs of `TokensShowTheirURI` and of `ImplementsAttendance`.
6. *(done)* The vendored libraries: `Enumerable` with its mocks and `Dictionary`,
   `Checkpoints` with `Timeline`, `SafeCast`, and their proofs.
7. *(done)* The vendored scripts: `MigrateImports` with its proof,
   `InheritanceOrdering`, `DocsBranch` with `DocsSite`, `Releases`.
8. *(done)* Proofs of every remaining safety property: the platform's fees, the
   ledger, the casts, the migration's findings, the inheritance report, the docs
   branch and its refinement of `DocsSite`, releases and their comments.
9. *(done)* Two release branches in `Releases`, and `rc` after a final release.
10. What would come next: approvals inside `Ticketing`; pushes to a release
    branch between releases in `DocsBranch`.

## 6. Not modelled

* Of the contracts: logged events, names and symbols, the contents of URIs and
  `supportsInterface` (no state depends on them); `_burn` (never called;
  `Poap`'s is empty); gas prices and the exact cost of calls.
* The deployment script, the test and the records (no part of the running
  system).
* Of the libraries: `forge-std`, and every contract of OpenZeppelin that the
  three contracts do not inherit, other than the generated ones.
* Of the scripts: `compareGasReports.js` (a table computed from two files),
  the generator itself (`run.js`, `format-lines.js`, `helpers.js`: text put
  together and written once), `gen-nav.js`, `remove-ignored-artifacts.js`,
  `prepack.sh` and `hardhat.config.js` (file output and settings).  None keeps
  state between runs or meets a second actor.
* In `Releases`: which files `npm publish` takes from the working tree, and
  `start major`, which differs from `start minor` in the number only.
