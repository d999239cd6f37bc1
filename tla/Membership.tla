------------------------------ MODULE Membership ------------------------------
(***************************************************************************)
(* Team organizations and their members, gateway/src/routes/               *)
(* organizations.rs, API tokens, routes/api_tokens.rs, and the checks of   *)
(* auth.rs that every other handler begins with.  Requests interleave: a   *)
(* membership changes under a lock on the organization, everything else    *)
(* reads what is committed.                                                *)
(***************************************************************************)
EXTENDS Directory

CONSTANTS Requests, \* requests that run at once
          Tokens    \* ids of API tokens

VARIABLES token,    \* token[k]: a row of api_tokens
          req,      \* req[q]: a request under way
          budget    \* bound: requests that may still come

membership == <<token, req, budget>>

(* live: neither revoked nor expired; scope: organization_id, or None. *)
NoKey == [user |-> None, scope |-> None, live |-> FALSE]
Key == [user : Users \cup {None}, scope : Teams \cup {None}, live : BOOLEAN]

NoRequest == [pc |-> "off", op |-> "none", by |-> None, key |-> None, team |-> None,
              target |-> None, grant |-> "none", member |-> FALSE, valid |-> FALSE]
Request ==
    [pc : {"off", "lock", "write", "insert", "resolve", "role", "serve"},
     op : {"none", "add", "remove", "token", "read"},
     by : Users \cup {None},      \* the user the request acts for
     key : Tokens \cup {None},    \* the API token it presents; None for a session
     team : Teams \cup {None},
     target : Users \cup Emails \cup {None}, \* of the member; add_member has an address first
     grant : Roles \cup {"none"}, \* the role it gives
     member : BOOLEAN,  \* history: the user was a member since the request came
     valid : BOOLEAN]   \* history: the credential was valid when the request came

MembershipType ==
    /\ token \in [Tokens -> Key]
    /\ req \in [Requests -> Request]
    /\ budget \in Nat

Level(r) == CASE r = "owner" -> 4 [] r = "admin" -> 3 [] r = "member" -> 2
              [] r = "viewer" -> 1 [] r = "none" -> 0

Finish(q) == req' = [req EXCEPT ![q] = NoRequest]

(* A request comes in; the Principal extractor of a session was passed. *)
Come(q, r) ==
    /\ req[q].pc = "off" /\ budget > 0
    /\ req' = [req EXCEPT ![q] = r]
    /\ budget' = budget - 1

(* organizations::create. *)
CreateTeam(a, t) ==
    /\ SignedIn(a) /\ Members(t) = {} /\ budget > 0
    /\ role' = [role EXCEPT ![t][a] = "owner"]
    /\ req' = [q \in Requests |-> IF req[q].team = t /\ req[q].by = a
                                  THEN [req[q] EXCEPT !.member = TRUE] ELSE req[q]]
    /\ budget' = budget - 1
    /\ UNCHANGED <<email, account, personal, sessions, token>>

BeginAdd(q, a, t, e, r) ==
    /\ SignedIn(a)
    /\ Come(q, [NoRequest EXCEPT !.pc = "lock", !.op = "add", !.by = a, !.team = t,
                                 !.target = e, !.grant = r])
    /\ UNCHANGED <<directory, token>>

BeginRemove(q, a, t, u) ==
    /\ SignedIn(a)
    /\ Come(q, [NoRequest EXCEPT !.pc = "lock", !.op = "remove", !.by = a, !.team = t, !.target = u])
    /\ UNCHANGED <<directory, token>>

(* An error: nothing was committed. *)
Refuse(q) ==
    /\ req[q].pc # "off"
    /\ Finish(q)
    /\ UNCHANGED <<directory, token, budget>>

(* Mutant: the row of the organization is not locked. *)
TeamAnyway(q) == Members(req[q].team) # {}

(* lock_team_organization: FOR UPDATE, held until the transaction ends. *)
TeamFree(q) ==
    /\ Members(req[q].team) # {}
    /\ \A p \in Requests : req[p].pc = "write" => req[p].team # req[q].team

(* Mutant: any owner will do. *)
AnyOwner(t) == Owners(t) # {}

(* ensure_another_owner. *)
AnotherOwner(t) == Cardinality(Owners(t)) > 1

ActorRole(q) == role[req[q].team][req[q].by]

(* add_member up to its write. *)
CheckAdd(q) ==
    /\ req[q].pc = "lock" /\ req[q].op = "add" /\ TeamFree(q)
    /\ Level(ActorRole(q)) >= Level("admin")
    /\ Level(req[q].grant) >= Level("admin") => ActorRole(q) = "owner"
    /\ \E u \in Users :
        /\ email[u] = req[q].target
        /\ role[req[q].team][u] = "owner" /\ req[q].grant # "owner" => AnotherOwner(req[q].team)
        /\ req' = [req EXCEPT ![q].pc = "write", ![q].target = u]
    /\ UNCHANGED <<directory, token, budget>>

(* remove_member up to its write. *)
CheckRemove(q) ==
    /\ req[q].pc = "lock" /\ req[q].op = "remove" /\ TeamFree(q)
    /\ Level(ActorRole(q)) >= Level("admin")
    /\ LET held == role[req[q].team][req[q].target] IN
        /\ held # "none"
        /\ Level(held) >= Level("admin") => ActorRole(q) = "owner"
        /\ held = "owner" => AnotherOwner(req[q].team)
    /\ req' = [req EXCEPT ![q].pc = "write"]
    /\ UNCHANGED <<directory, token, budget>>

(* The upsert of add_member; commit. *)
UpsertMember(q) ==
    /\ req[q].pc = "write" /\ req[q].op = "add"
    /\ role' = [role EXCEPT ![req[q].team][req[q].target] = req[q].grant]
    /\ req' = [p \in Requests |->
          IF p = q THEN NoRequest
          ELSE IF req[p].team = req[q].team /\ req[p].by = req[q].target
          THEN [req[p] EXCEPT !.member = TRUE] ELSE req[p]]
    /\ UNCHANGED <<email, account, personal, sessions, token, budget>>

(* The delete of remove_member; commit. *)
DeleteMember(q) ==
    /\ req[q].pc = "write" /\ req[q].op = "remove"
    /\ role' = [role EXCEPT ![req[q].team][req[q].target] = "none"]
    /\ Finish(q)
    /\ UNCHANGED <<email, account, personal, sessions, token, budget>>

(* require_organization_role with the lowest role. *)
CanRead(u, scope, t) == scope \in {None, t} /\ role[t][u] # "none"

(* api_tokens::create, up to its insert. *)
BeginToken(q, a, scope) ==
    /\ SignedIn(a)
    /\ scope # None => CanRead(a, None, scope)
    /\ Come(q, [NoRequest EXCEPT !.pc = "insert", !.op = "token", !.by = a, !.team = scope])
    /\ UNCHANGED <<directory, token>>

InsertToken(q, k) ==
    /\ req[q].pc = "insert" /\ token[k] = NoKey
    /\ token' = [token EXCEPT ![k] = [user |-> req[q].by, scope |-> req[q].team, live |-> TRUE]]
    /\ Finish(q)
    /\ UNCHANGED <<directory, budget>>

(* api_tokens::revoke by its user, or expires_at has come. *)
EndToken(k) ==
    /\ token[k].live
    /\ token' = [token EXCEPT ![k].live = FALSE]
    /\ UNCHANGED <<directory, req, budget>>

(* A handler that reads for a team is called, with a token or a session. *)
BeginRead(q, u, k, t) ==
    /\ k # None => token[k].user = u
    /\ Come(q, [NoRequest EXCEPT !.pc = "resolve", !.op = "read", !.by = u, !.key = k, !.team = t,
                                 !.member = role[t][u] # "none",
                                 !.valid = IF k = None THEN SignedIn(u) ELSE token[k].live])
    /\ UNCHANGED <<directory, token>>

(* resolve_api_token, or the session's lookup. *)
Resolve(q) ==
    /\ req[q].pc = "resolve"
    /\ IF req[q].key = None THEN SignedIn(req[q].by)
       ELSE LET k == token[req[q].key] IN
            k.live /\ (k.scope # None => role[k.scope][k.user] # "none")
    /\ req' = [req EXCEPT ![q].pc = "role"]
    /\ UNCHANGED <<directory, token, budget>>

(* Mutant: the lookup of the token is taken for the check of the role. *)
RequireRoleOfSessions(q) ==
    /\ req[q].pc = "role"
    /\ req[q].key # None \/ CanRead(req[q].by, None, req[q].team)
    /\ req' = [req EXCEPT ![q].pc = "serve"]
    /\ UNCHANGED <<directory, token, budget>>

RequireRole(q) ==
    /\ req[q].pc = "role"
    /\ CanRead(req[q].by, IF req[q].key = None THEN None ELSE token[req[q].key].scope, req[q].team)
    /\ req' = [req EXCEPT ![q].pc = "serve"]
    /\ UNCHANGED <<directory, token, budget>>

MembershipStep ==
    \/ \E a \in Users, t \in Teams : CreateTeam(a, t)
    \/ \E q \in Requests :
          \/ \E a \in Users, t \in Teams :
                \/ \E e \in Emails, r \in Roles : BeginAdd(q, a, t, e, r)
                \/ \E u \in Users : BeginRemove(q, a, t, u)
                \/ \E k \in Tokens \cup {None} : BeginRead(q, a, k, t)
          \/ \E a \in Users, scope \in Teams \cup {None} : BeginToken(q, a, scope)
          \/ \E k \in Tokens : InsertToken(q, k)
          \/ CheckAdd(q) \/ CheckRemove(q) \/ UpsertMember(q) \/ DeleteMember(q)
          \/ Resolve(q) \/ RequireRole(q) \/ Refuse(q)
    \/ \E k \in Tokens : EndToken(k)

-----------------------------------------------------------------------------
(* "An organization must retain at least one owner", however its owners    *)
(* demote and remove each other at the same time.                          *)
AlwaysAnOwner == \A t \in Teams : Members(t) # {} => Owners(t) # {}

(* Who may do it is settled when it is done, not when it was asked for: a  *)
(* role changes by the hand of someone who is an admin at that moment, and *)
(* only an owner gives the role of an admin or owner or removes one who    *)
(* has it.                                                                 *)
RoleIsGiven ==
    \A t \in Teams, u \in Users :
        role'[t][u] # role[t][u] /\ Members(t) # {} =>
            \E q \in Requests :
                /\ req[q].pc = "write" /\ req'[q].pc = "off" /\ req[q].team = t
                /\ LET hand == role[t][req[q].by] IN
                    /\ Level(hand) >= Level("admin")
                    /\ Level(role'[t][u]) >= Level("admin") => hand = "owner"
                    /\ role'[t][u] = "none" /\ Level(role[t][u]) >= Level("admin")
                         => hand = "owner"

(* Every step keeps to the rule for who may change a role. *)
RolesAreGiven == [][RoleIsGiven]_<<directory, membership>>

(* A request is served only if its user was a member of the organization   *)
(* at some time after it came and its API token, if it has one, was valid  *)
(* when it came: a token outlives neither its revocation nor the           *)
(* membership, also one that was inserted after its user had been removed. *)
(* A token of one organization opens no other.                             *)
AccessIsCurrent ==
    \A q \in Requests : req[q].pc = "serve" =>
        /\ req[q].member
        /\ req[q].key # None => req[q].valid /\ token[req[q].key].scope \in {None, req[q].team}
=============================================================================
