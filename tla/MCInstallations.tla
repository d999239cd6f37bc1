--------------------------- MODULE MCInstallations ---------------------------
(***************************************************************************)
(* The instance of Installations that TLC checks: the owners of two        *)
(* workspaces manage the same installation.                                *)
(***************************************************************************)
EXTENDS Installations, TLC

MCScopes == {[changes |-> 1, requests |-> 3], [changes |-> 2, requests |-> 2]}
MCInstaller == [g \in Repos |-> CHOOSE i \in Insts : TRUE]
MCManagers == Orgs \X Insts
MCSymmetry == Permutations(Orgs) \cup Permutations(Slots)
=============================================================================
