----------------------------- MODULE MCScripts -----------------------------
(***************************************************************************)
(* The scripts of the vendored library for TLC, in one run. They share no  *)
(* state, so a behaviour takes one of them through all it can do and       *)
(* leaves the others where they start: TLC visits the sum of their states. *)
(*                                                                         *)
(* The migration has two entries in its table, which lead to one path, a   *)
(* tree of two contracts and a text in three levels of directories, and    *)
(* files that mention a path twice, from both packages, or not at all.     *)
(***************************************************************************)
EXTENDS MigrateImports, InheritanceOrdering, DocsBranch, Releases

VARIABLE script   \* the one that moves

-----------------------------------------------------------------------------
(* What is migrated *)

Moved(old, new) == [old |-> old, new |-> new]

Table ==
  <<Moved("payment/PaymentSplitter.sol", "finance/PaymentSplitter.sol"),
    Moved("utils/PaymentSplitter.sol", "finance/PaymentSplitter.sol")>>

Folders == [contracts |-> <<"token", "README.md", "Shop.sol">>,
            token |-> <<"ERC20">>, ERC20 |-> <<"Token.sol">>]

Old == PathIn("contracts", "payment/PaymentSplitter.sol")
OldUpgradeable == PathIn("contracts-upgradeable", "payment/PaymentSplitter.sol")
Elsewhere == PathIn("contracts", "utils/PaymentSplitter.sol")
Kept == PathIn("contracts", "utils/Context.sol")

Texts == {<<Kept>>, <<Old, Old, Elsewhere>>, <<OldUpgradeable, Kept, Old>>}

Runs == {<<"contracts">>, <<"contracts", "Shop.sol">>, <<"token", "Missing.sol">>}

-----------------------------------------------------------------------------
(* One script at a time *)

Scripts == {"migrate-imports", "inheritance-ordering", "update-docs-branch", "release"}

\* A script that stays where it starts does so at one state.
ScriptsInit ==
  /\ script \in Scripts
  /\ MigrationInit
  /\ script # "migrate-imports" =>
       args = <<"contracts">> /\ before = [f \in Files |-> <<Kept>>]
  /\ OrderingInit
  /\ DocsInit
  /\ ReleaseInit
  /\ IF script = "release"
       THEN \A f \in Mocks : work.contract[f].body # 0
       ELSE \A f \in Released : work.contract[f].body = 0

Migrating ==
  /\ script = "migrate-imports"
  /\ UNCHANGED <<script, orderingVars, docsVars, releaseVars>>

ScriptsNext ==
  \/ Migrating /\ MigrationNext
  \/ /\ script = "inheritance-ordering" /\ OrderingNext
     /\ UNCHANGED <<script, migrationVars, docsVars, releaseVars>>
  \/ /\ script = "update-docs-branch" /\ DocsNext
     /\ UNCHANGED <<script, migrationVars, orderingVars, releaseVars>>
  \/ /\ script = "release" /\ ReleaseNext
     /\ UNCHANGED <<script, migrationVars, orderingVars, docsVars>>

scriptsVars == <<script, migrationVars, orderingVars, docsVars, releaseVars>>

\* The migration runs on, and is run again until it finds nothing to do.
ScriptsSpec ==
  /\ ScriptsInit /\ [][ScriptsNext]_scriptsVars
  /\ WF_scriptsVars(Migrating /\ Running)
  /\ WF_scriptsVars(Migrating /\ Start /\ report # "none_updated")

-----------------------------------------------------------------------------
(* Properties *)

(* Whoever runs the migration again until it finds nothing to do gets there. *)
RunsConverge == script = "migrate-imports" => ReachesTheEnd

=============================================================================
