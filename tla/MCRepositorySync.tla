--------------------------- MODULE MCRepositorySync ---------------------------
(***************************************************************************)
(* The small instances of RepositorySync that TLC checks together.         *)
(***************************************************************************)
EXTENDS RepositorySync

CONSTANTS s1, s2

Scope(slotsUsed, c, n, f) == [slots |-> slotsUsed, changes |-> c, starts |-> n, faults |-> f]

(* Two syncs at once with a change or with a fault; three in a row with    *)
(* both; two in a row with two changes, or with two faults.                *)
MCScopes == {Scope({s1, s2}, 1, 2, 0), Scope({s1, s2}, 0, 2, 1),
             Scope({s1}, 1, 3, 1), Scope({s1}, 2, 2, 0), Scope({s1}, 0, 2, 2)}
=============================================================================
