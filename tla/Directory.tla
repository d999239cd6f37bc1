------------------------------ MODULE Directory ------------------------------
(***************************************************************************)
(* What SignIn and Membership share: the tables users, github_accounts,    *)
(* organizations and organization_members, and the sessions in Redis.      *)
(* Nothing in the gateway deletes or deactivates a user, an account or an  *)
(* organization.                                                           *)
(***************************************************************************)
EXTENDS Naturals, FiniteSets

CONSTANTS Users,      \* ids of users; new ones are taken from these
          Identities, \* GitHub accounts of people
          Emails,
          Teams,      \* ids of organizations of kind team
          Browsers,   \* one callback each at a time
          None

ASSUME DirectoryConstants == None \notin Users \cup Identities \cup Emails \cup Teams

VARIABLES email,    \* email[u]: users.email, None where there is no user
          account,  \* account[g]: github_accounts.user_id, None without a row
          personal, \* personal[u]: how many personal workspaces u created; u is
                    \* the owner of each and its only member
          role,     \* role[t][u]: organization_members.role, "none" without a row
          sessions  \* sessions in Redis; by: history, who authenticated

directory == <<email, account, personal, role, sessions>>

Roles == {"viewer", "member", "admin", "owner"}
Session == [browser : Browsers, user : Users, by : Identities]

Accounts(u) == {g \in Identities : account[g] = u}
Owners(t) == {u \in Users : role[t][u] = "owner"}
Members(t) == {u \in Users : role[t][u] # "none"}

(* The Principal extractor finds a session; every user is active. *)
SignedIn(u) == \E s \in sessions : s.user = u

(* With the unique columns of users and github_accounts. *)
DirectoryType ==
    /\ email \in [Users -> Emails \cup {None}]
    /\ \A u, v \in Users : u # v /\ email[u] = email[v] => email[u] = None
    /\ account \in [Identities -> Users \cup {None}]
    /\ \A u \in Users : Cardinality(Accounts(u)) <= 1
    /\ personal \in [Users -> Nat]
    /\ role \in [Teams -> [Users -> Roles \cup {"none"}]]
    /\ sessions \subseteq Session
=============================================================================
