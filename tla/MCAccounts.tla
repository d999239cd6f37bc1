------------------------------ MODULE MCAccounts ------------------------------
(***************************************************************************)
(* The instances of Accounts that TLC checks together: sign-ins that start *)
(* from nothing, and requests among people who have signed up.             *)
(***************************************************************************)
EXTENDS Accounts, TLC

CONSTANTS u1, u2, g1, g2, e1, e2, st1, st2

MCSymmetry == Permutations(Browsers) \cup Permutations(Requests)

MCKnown == [g \in Identities |-> IF g = g1 THEN u1 ELSE u2]
MCFirstMail == [g \in Identities |-> IF g = g1 THEN e1 ELSE e2]

Scope(p, l, c, n) == [people |-> p, logins |-> l, changes |-> c, requests |-> n]

MCScopes == {Scope(FALSE, States, 1, 0), Scope(TRUE, {st1, st2}, 2, 0),
             Scope(FALSE, {st1, st2}, 1, 1), Scope(TRUE, {st1}, 1, 1),
             Scope(TRUE, {}, 0, 3)}
=============================================================================
