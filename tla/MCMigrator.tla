----------------------------- MODULE MCMigrator -----------------------------
(* A release, the next one, one that swapped two migrations, and a         *)
(* directory with an empty file.                                           *)
EXTENDS Migrator, TLC

CONSTANTS r1, r2, swapped, broken

FileOf(v, n) == [version |-> v, name |-> n, empty |-> FALSE]

MCDirectory ==
  r1 :> {FileOf(1, "initial"), FileOf(2, "force_rls")} @@
  r2 :> {FileOf(1, "initial"), FileOf(2, "force_rls"), FileOf(3, "later")} @@
  swapped :> {FileOf(1, "initial"), FileOf(2, "later"), FileOf(3, "force_rls")} @@
  broken :> {FileOf(1, "initial"), [version |-> 2, name |-> "force_rls", empty |-> TRUE]}

=============================================================================
