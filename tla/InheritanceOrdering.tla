------------------------- MODULE InheritanceOrdering -------------------------
(***************************************************************************)
(* scripts/checks/inheritance-ordering.js, which looks for contracts that  *)
(* others inherit from in different orders.                                *)
(*                                                                         *)
(* First solc compiles the contracts of each build, one after the other,   *)
(* and linearizes what each inherits from. Then the script reads the       *)
(* output of every build, builds a graph of who comes before whom, and     *)
(* reports every pair with edges both ways. Contracts are numbered as they *)
(* are compiled; numbers of different builds have nothing to do with each  *)
(* other.                                                                  *)
(* Faulty variants of a definition precede it; no specification uses them. *)
(***************************************************************************)
EXTENDS Integers, Sequences, FiniteSets, SequencesExt

CONSTANTS
  Builds,         \* how many builds the script is given
  MaxContracts,   \* bound on the contracts of a build
  MaxBases,       \* bound on how many contracts one inherits from
  MaxMocks        \* bound on the contracts of a build that are mocks

ASSUME OrderingAssumption ==
  Builds \in Nat \ {0} /\ MaxContracts \in Nat /\ MaxBases \in Nat

VARIABLES
  solcOutput,   \* per build: linearizedBaseContracts, and which are mocks
  build,        \* the build that is compiled, then the one that is read
  stage,
  at,           \* the contract the script reads next
  graph,        \* the edges found so far in this build
  log,          \* the conflicts printed: build and pair
  exitCode,
  verdict       \* whether 'Contract ordering is consistent.' was printed

orderingVars == <<solcOutput, build, stage, at, graph, log, exitCode, verdict>>

OrderingInit ==
  /\ solcOutput = [b \in 1 .. Builds |-> [linearized |-> <<>>, mocks |-> {}]]
  /\ build = 1
  /\ stage = "compile"
  /\ at = 1
  /\ graph = {}
  /\ log = {}
  /\ exitCode = 0
  /\ verdict = FALSE

-----------------------------------------------------------------------------
(* The compiler *)

Before(chain, x, y) ==
  \E i, j \in DOMAIN chain : i < j /\ chain[i] = x /\ chain[j] = y

\* What a contract can inherit from, in an order that keeps the order each of
\* those inherits in, and misses none of them.
Linearizations(linearized) ==
  {bases \in UNION {[1 .. n -> 1 .. Len(linearized)] : n \in 0 .. MaxBases} :
     /\ IsInjective(bases)
     /\ \A c \in ToSet(bases) :
          \A x, y \in ToSet(linearized[c]) :
            Before(linearized[c], x, y) => Before(bases, x, y)}

Compile(isMock) ==
  LET output == solcOutput[build]
      id == Len(output.linearized) + 1
  IN  /\ stage = "compile"
      /\ id <= MaxContracts
      /\ isMock => Cardinality(output.mocks) < MaxMocks
      /\ \E bases \in Linearizations(output.linearized) :
           solcOutput' = [solcOutput EXCEPT ![build] =
             [linearized |-> Append(output.linearized, <<id>> \o bases),
              mocks |-> output.mocks \cup IF isMock THEN {id} ELSE {}]]
      /\ UNCHANGED <<build, stage, at, graph, log, exitCode, verdict>>

Compiled ==
  /\ stage = "compile"
  /\ stage' = IF build = Builds THEN "read" ELSE "compile"
  /\ build' = IF build = Builds THEN 1 ELSE build + 1
  /\ UNCHANGED <<solcOutput, at, graph, log, exitCode, verdict>>

-----------------------------------------------------------------------------
(* The script *)

SkippedNever(output, id) == FALSE

\* source.includes('/mocks/')
Skipped(output, id) == id \in output.mocks

\* An edge from every contract of a chain to each that comes after it.
Edges(chain) ==
  {<<chain[p[1]], chain[p[2]]>> :
     p \in {q \in (1 .. Len(chain)) \X (1 .. Len(chain)) : q[1] < q[2]}}

ReadContract ==
  LET output == solcOutput[build] IN
  /\ stage = "read"
  /\ at <= Len(output.linearized)
  /\ graph' = IF Skipped(output, at) THEN graph
                                     ELSE graph \cup Edges(output.linearized[at])
  /\ at' = at + 1
  /\ UNCHANGED <<solcOutput, build, stage, log, exitCode, verdict>>

\* The nodes of the graph, pair by pair.
Conflicts(edges) == {{e[1], e[2]} : e \in {f \in edges : <<f[2], f[1]>> \in edges}}

CheckBuild ==
  /\ stage = "read"
  /\ at > Len(solcOutput[build].linearized)
  /\ log' = log \cup {<<build, pair>> : pair \in Conflicts(graph)}
  /\ exitCode' = IF Conflicts(graph) # {} THEN 1 ELSE exitCode
  /\ graph' = {}
  /\ at' = 1
  /\ stage' = IF build = Builds THEN "end" ELSE "read"
  /\ build' = IF build = Builds THEN build ELSE build + 1
  /\ UNCHANGED <<solcOutput, verdict>>

End ==
  /\ stage = "end"
  /\ stage' = "done"
  /\ verdict' = (exitCode = 0)
  /\ UNCHANGED <<solcOutput, build, at, graph, log, exitCode>>

OrderingNext ==
  \/ \E isMock \in BOOLEAN : Compile(isMock)
  \/ Compiled
  \/ ReadContract
  \/ CheckBuild
  \/ End

OrderingSpec == OrderingInit /\ [][OrderingNext]_orderingVars

-----------------------------------------------------------------------------
(* Properties *)

Chains(b) ==
  {solcOutput[b].linearized[c] :
     c \in DOMAIN solcOutput[b].linearized \ solcOutput[b].mocks}

Disagreed(b) ==
  {pair \in SUBSET (1 .. MaxContracts) :
     \E x, y \in pair : /\ pair = {x, y}
                        /\ \E c \in Chains(b) : Before(c, x, y)
                        /\ \E c \in Chains(b) : Before(c, y, x)}

(* What the script prints is, for each build, every pair of contracts that  *)
(* two contracts (no mocks) inherit from in opposite orders, and no other   *)
(* pair; the exit code tells whether there is one in any build.             *)
PairsReported ==
  stage = "done" =>
    /\ log = UNION {{<<b, pair>> : pair \in Disagreed(b)} : b \in 1 .. Builds}
    /\ exitCode = IF log = {} THEN 0 ELSE 1

OrderExists(b) ==
  \E place \in [1 .. MaxContracts -> 1 .. MaxContracts] :
    \A c \in Chains(b) : \A i, j \in DOMAIN c : i < j => place[c[i]] < place[c[j]]

(* 'Contract ordering is consistent.': there is one order of all contracts  *)
(* of a build that every contract inherits in.                              *)
ConsistentMeansOrdered ==
  verdict => \A b \in 1 .. Builds : OrderExists(b)

=============================================================================
