------------------------------- MODULE Accounts -------------------------------
(***************************************************************************)
(* People, their sessions and their organizations: SignIn and Membership   *)
(* over the tables they share.  Sessions decide who may begin a request,   *)
(* and a sign-in changes the addresses that members are added by.          *)
(***************************************************************************)
EXTENDS SignIn, Membership

CONSTANTS FirstMail, \* the address of each person at first
          Known,     \* the user of each person, where people have signed up before
          Scopes     \* bounds: has the directory people in it, the states that can be
                     \* used, changes of address, requests

ASSUME AccountConstants ==
    /\ FirstMail \in [Identities -> Emails]
    /\ Known \in [Identities -> Users]
    /\ \A g, h \in Identities : Known[g] = Known[h] \/ FirstMail[g] = FirstMail[h] => g = h
    /\ Scopes \subseteq [people : BOOLEAN, logins : SUBSET States, changes : Nat, requests : Nat]

vars == <<directory, signin, membership>>

TypeOK == DirectoryType /\ SignInType /\ MembershipType

(* Nobody has signed up, or everyone has, with a session, and they are in  *)
(* teams with owners.                                                      *)
Init ==
    /\ \E b \in Scopes :
        /\ mailChanges = b.changes /\ budget = b.requests
        /\ oauth = [st \in States |-> IF st \in b.logins THEN "new" ELSE "gone"]
        /\ IF b.people
           THEN /\ email = [u \in Users |-> IF \E g \in Identities : Known[g] = u
                              THEN FirstMail[CHOOSE g \in Identities : Known[g] = u] ELSE None]
                /\ account = Known
                /\ role \in [Teams -> [Users -> {"none", "member", "admin", "owner"}]]
                /\ \E b0 \in Browsers :
                     sessions = {[browser |-> b0, user |-> Known[g], by |-> g] : g \in Identities}
           ELSE /\ email = [u \in Users |-> None]
                /\ account = [g \in Identities |-> None]
                /\ role = [t \in Teams |-> [u \in Users |-> "none"]]
                /\ sessions = {}
    /\ \A t \in Teams, u \in Users : role[t][u] # "none" => email[u] # None
    /\ AlwaysAnOwner
    /\ personal = [u \in Users |-> IF email[u] = None THEN 0 ELSE 1]
    /\ mail = FirstMail
    /\ tab = [b \in Browsers |-> NoTab]
    /\ token = [k \in Tokens |-> NoKey]
    /\ req = [q \in Requests |-> NoRequest]

Next ==
    \/ SignInStep /\ UNCHANGED membership
    \/ MembershipStep /\ UNCHANGED signin

Spec == Init /\ [][Next]_vars
=============================================================================
