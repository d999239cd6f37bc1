---------------------------- MODULE AccountsProofs ----------------------------
(***************************************************************************)
(* The rules of teams, and who is served in them, for any number of        *)
(* people, teams, tokens and requests.                                     *)
(***************************************************************************)
EXTENDS Accounts, FiniteSetTheorems, TLAPS

(* What add_member or remove_member has found out under the lock of its    *)
(* team, and can still rely on when it writes.                             *)
Cleared(q) ==
    LET t == req[q].team
        held == role[t][req[q].target] IN
    /\ t \in Teams /\ req[q].by \in Users /\ req[q].target \in Users
    /\ Members(t) # {}
    /\ Level(ActorRole(q)) >= Level("admin")
    /\ req[q].op \in {"add", "remove"}
    /\ req[q].op = "add" =>
          /\ req[q].grant \in Roles
          /\ Level(req[q].grant) >= Level("admin") => ActorRole(q) = "owner"
          /\ held = "owner" /\ req[q].grant # "owner" => Owners(t) \ {req[q].target} # {}
    /\ req[q].op = "remove" =>
          /\ Level(held) >= Level("admin") => ActorRole(q) = "owner"
          /\ held = "owner" => Owners(t) \ {req[q].target} # {}

(* A request that waits for the lock names a team, a user and what it      *)
(* wants.                                                                  *)
Asked(q) ==
    /\ req[q].team \in Teams /\ req[q].by \in Users
    /\ req[q].op = "add" => req[q].grant \in Roles
    /\ req[q].op = "remove" => req[q].target \in Users

Typed ==
    /\ role \in [Teams -> [Users -> Roles \cup {"none"}]]
    /\ req \in [Requests -> Request]
    /\ token \in [Tokens -> Key]

(* The inductive invariant: one writer of a team at a time, and what it    *)
(* was cleared for holds until it has written.                             *)
TeamInv ==
    /\ Typed
    /\ \A q \in Requests : req[q].pc = "lock" => Asked(q)
    /\ \A q \in Requests : req[q].pc = "write" => Cleared(q)
    /\ \A p, q \in Requests :
          req[p].pc = "write" /\ req[q].pc = "write" /\ req[p].team = req[q].team => p = q
    /\ AlwaysAnOwner

-----------------------------------------------------------------------------
(* ensure_another_owner: more than one owner is an owner besides anyone. *)
LEMMA AnotherOwnerIsOther ==
    ASSUME NEW t, NEW v, AnotherOwner(t)
    PROVE  Owners(t) \ {v} # {}
<1> SUFFICES ASSUME Owners(t) \ {v} = {} PROVE FALSE
    OBVIOUS
<1>1. Owners(t) = {} \/ Owners(t) = {v}
    OBVIOUS
<1>2. Cardinality({}) = 0 /\ Cardinality({v}) = 1
    BY FS_EmptySet, FS_Singleton
<1> QED BY <1>1, <1>2 DEF AnotherOwner

(* The fields that a request was cleared for are the same after a step. *)
SameRequest(q) ==
    /\ req'[q].team = req[q].team /\ req'[q].by = req[q].by /\ req'[q].target = req[q].target
    /\ req'[q].op = req[q].op /\ req'[q].grant = req[q].grant

(* A clearance outlives every step that leaves its request and its team    *)
(* alone.                                                                  *)
LEMMA ClearanceStays ==
    ASSUME NEW q \in Requests, Cleared(q), SameRequest(q),
           role'[req[q].team] = role[req[q].team]
    PROVE  Cleared(q)'
<1>1. /\ Members(req[q].team)' = Members(req[q].team)
      /\ Owners(req[q].team)' = Owners(req[q].team)
      /\ ActorRole(q)' = ActorRole(q)
    BY DEF SameRequest, Members, Owners, ActorRole
<1> QED BY <1>1 DEF Cleared, SameRequest, Members, Owners, ActorRole

(* A step that changes no role, clears nobody and lets nobody begin to     *)
(* wait keeps the invariant.                                               *)
LEMMA RolesAlone ==
    ASSUME TeamInv, role' = role, Typed',
           \A q \in Requests : req'[q].pc = "write" => req[q].pc = "write" /\ SameRequest(q),
           \A q \in Requests : req'[q].pc = "lock" => Asked(q)'
    PROVE  TeamInv'
<1>1. \A q \in Requests : req'[q].pc = "write" => Cleared(q)'
    BY ClearanceStays DEF TeamInv
<1>2. AlwaysAnOwner'
    BY DEF TeamInv, AlwaysAnOwner, Members, Owners
<1>3. ASSUME NEW p \in Requests, NEW q \in Requests,
             req'[p].pc = "write", req'[q].pc = "write", req'[p].team = req'[q].team
      PROVE  p = q
    BY <1>3 DEF TeamInv, SameRequest
<1> QED BY <1>1, <1>2, <1>3 DEF TeamInv

(* A request that comes in: a new record, neither writing nor, unless it   *)
(* is well formed, waiting.                                                *)
LEMMA ComeStep ==
    ASSUME TeamInv, role' = role, token' = token, NEW q \in Requests, NEW r \in Request, Come(q, r),
           r.pc # "write",
           r.pc = "lock" => /\ r.team \in Teams /\ r.by \in Users
                            /\ r.op = "add" => r.grant \in Roles
                            /\ r.op = "remove" => r.target \in Users
    PROVE  TeamInv'
<1>1. Typed' /\ req'[q] = r
    BY DEF Come, TeamInv, Typed
<1>2. \A p \in Requests \ {q} : req'[p] = req[p]
    BY DEF Come, TeamInv, Typed
<1>3. \A p \in Requests : req'[p].pc = "write" => req[p].pc = "write" /\ SameRequest(p)
    BY <1>1, <1>2 DEF SameRequest
<1>4. ASSUME NEW p \in Requests, req'[p].pc = "lock" PROVE Asked(p)'
    BY <1>1, <1>2, <1>4 DEF TeamInv, Asked
<1> QED BY <1>1, <1>3, <1>4, RolesAlone

(* The requests that come in are well formed. *)
LEMMA BeginStep ==
    ASSUME TeamInv, NEW q \in Requests, NEW a \in Users,
           \/ \E t \in Teams, e \in Emails, g \in Roles : BeginAdd(q, a, t, e, g)
           \/ \E t \in Teams, u \in Users : BeginRemove(q, a, t, u)
           \/ \E t \in Teams, k \in Tokens \cup {None} : BeginRead(q, a, k, t)
           \/ \E scope \in Teams \cup {None} : BeginToken(q, a, scope)
    PROVE  TeamInv'
<1>1. ASSUME NEW t \in Teams, NEW e \in Emails, NEW g \in Roles, BeginAdd(q, a, t, e, g)
      PROVE  TeamInv'
  <2> DEFINE r == [NoRequest EXCEPT !.pc = "lock", !.op = "add", !.by = a, !.team = t,
                                    !.target = e, !.grant = g]
  <2>1. r \in Request /\ r.pc = "lock" /\ r.team = t /\ r.by = a /\ r.op = "add" /\ r.grant = g
    BY DEF NoRequest, Request
  <2>2. role' = role /\ token' = token /\ Come(q, r)
    BY <1>1 DEF BeginAdd, directory
  <2> QED BY <2>1, <2>2, ComeStep
<1>2. ASSUME NEW t \in Teams, NEW u \in Users, BeginRemove(q, a, t, u)
      PROVE  TeamInv'
  <2> DEFINE r == [NoRequest EXCEPT !.pc = "lock", !.op = "remove", !.by = a, !.team = t,
                                    !.target = u]
  <2>1. r \in Request /\ r.pc = "lock" /\ r.team = t /\ r.by = a /\ r.op = "remove" /\ r.target = u
    BY DEF NoRequest, Request
  <2>2. role' = role /\ token' = token /\ Come(q, r)
    BY <1>2 DEF BeginRemove, directory
  <2> QED BY <2>1, <2>2, ComeStep
<1>3. ASSUME NEW t \in Teams, NEW k \in Tokens \cup {None}, BeginRead(q, a, k, t)
      PROVE  TeamInv'
  <2>1. PICK m \in BOOLEAN, v \in BOOLEAN :
            Come(q, [NoRequest EXCEPT !.pc = "resolve", !.op = "read", !.by = a, !.key = k,
                                      !.team = t, !.member = m, !.valid = v])
    <3>1. (role[t][a] # "none") \in BOOLEAN
      OBVIOUS
    <3>2. (IF k = None THEN SignedIn(a) ELSE token[k].live) \in BOOLEAN
      BY DEF SignedIn, TeamInv, Typed, Key
    <3> QED BY <1>3, <3>1, <3>2 DEF BeginRead
  <2> DEFINE r == [NoRequest EXCEPT !.pc = "resolve", !.op = "read", !.by = a, !.key = k,
                                    !.team = t, !.member = m, !.valid = v]
  <2>2. r \in Request /\ r.pc = "resolve"
    BY DEF NoRequest, Request
  <2>3. role' = role /\ token' = token
    BY <1>3 DEF BeginRead, directory
  <2> QED BY <2>1, <2>2, <2>3, ComeStep
<1>4. ASSUME NEW scope \in Teams \cup {None}, BeginToken(q, a, scope)
      PROVE  TeamInv'
  <2> DEFINE r == [NoRequest EXCEPT !.pc = "insert", !.op = "token", !.by = a, !.team = scope]
  <2>1. r \in Request /\ r.pc = "insert"
    BY DEF NoRequest, Request
  <2>2. role' = role /\ token' = token /\ Come(q, r)
    BY <1>4 DEF BeginToken, directory
  <2> QED BY <2>1, <2>2, ComeStep
<1> QED BY <1>1, <1>2, <1>3, <1>4

Places == {"off", "lock", "write", "insert", "resolve", "role", "serve"}

(* A request that goes on keeps the rest of its record. *)
LEMMA Moved ==
    ASSUME NEW r \in Request, NEW x \in Places
    PROVE  /\ [r EXCEPT !.pc = x] \in Request
           /\ LET s == [r EXCEPT !.pc = x] IN
              /\ s.pc = x /\ s.team = r.team /\ s.by = r.by /\ s.target = r.target
              /\ s.op = r.op /\ s.grant = r.grant
    BY DEF Request, Places

(* Steps that end a request, or move one that does not write. *)
LEMMA QuietStep ==
    ASSUME TeamInv, NEW q \in Requests,
           \/ Refuse(q) \/ Resolve(q) \/ RequireRole(q) \/ \E k \in Tokens : InsertToken(q, k)
    PROVE  TeamInv'
<1>1. role' = role
    BY DEF Refuse, Resolve, RequireRole, InsertToken, directory
<1>2. /\ req' \in [Requests -> Request] /\ token' \in [Tokens -> Key]
      /\ \A p \in Requests \ {q} : req'[p] = req[p]
      /\ req'[q].pc \notin {"write", "lock"}
  <2>1. NoRequest \in Request /\ NoRequest.pc = "off"
    BY DEF NoRequest, Request
  <2>2. CASE Refuse(q)
    BY <2>1, <2>2 DEF Refuse, Finish, TeamInv, Typed
  <2>3. CASE Resolve(q)
    <3>1. req' = [req EXCEPT ![q] = [req[q] EXCEPT !.pc = "role"]] /\ token' = token
      BY <2>3 DEF Resolve
    <3>2. req[q] \in Request
      BY DEF TeamInv, Typed
    <3>3. [req[q] EXCEPT !.pc = "role"] \in Request /\ [req[q] EXCEPT !.pc = "role"].pc = "role"
      BY <3>2, Moved DEF Places
    <3> QED BY <3>1, <3>3 DEF TeamInv, Typed
  <2>4. CASE RequireRole(q)
    <3>1. req' = [req EXCEPT ![q] = [req[q] EXCEPT !.pc = "serve"]] /\ token' = token
      BY <2>4 DEF RequireRole
    <3>2. req[q] \in Request
      BY DEF TeamInv, Typed
    <3>3. [req[q] EXCEPT !.pc = "serve"] \in Request /\ [req[q] EXCEPT !.pc = "serve"].pc = "serve"
      BY <3>2, Moved DEF Places
    <3> QED BY <3>1, <3>3 DEF TeamInv, Typed
  <2>5. CASE \E k \in Tokens : InsertToken(q, k)
    <3>1. PICK k \in Tokens : InsertToken(q, k)
      BY <2>5
    <3>2. [user |-> req[q].by, scope |-> req[q].team, live |-> TRUE] \in Key
      BY DEF TeamInv, Typed, Request, Key
    <3> QED BY <2>1, <3>1, <3>2 DEF InsertToken, Finish, TeamInv, Typed
  <2> QED BY <2>2, <2>3, <2>4, <2>5
<1>3. \A p \in Requests : req'[p].pc = "write" => req[p].pc = "write" /\ SameRequest(p)
    BY <1>2 DEF SameRequest
<1>4. ASSUME NEW p \in Requests, req'[p].pc = "lock" PROVE Asked(p)'
    BY <1>2, <1>4 DEF TeamInv, Asked
<1> QED BY <1>1, <1>2, <1>3, <1>4, RolesAlone DEF TeamInv, Typed

(* Steps that touch neither roles nor requests. *)
LEMMA ElsewhereStep ==
    ASSUME TeamInv, role' = role, req' = req, token' \in [Tokens -> Key]
    PROVE  TeamInv'
<1>1. \A p \in Requests : SameRequest(p)
    BY DEF SameRequest
<1>2. ASSUME NEW p \in Requests, req'[p].pc = "lock" PROVE Asked(p)'
    BY <1>2 DEF TeamInv, Asked
<1> QED BY <1>1, <1>2, RolesAlone DEF TeamInv, Typed

(* add_member and remove_member pass their checks under the lock of the    *)
(* team: nobody else is writing there, and what was found is what          *)
(* Cleared says.                                                           *)
LEMMA CheckStep ==
    ASSUME TeamInv, NEW q \in Requests, CheckAdd(q) \/ CheckRemove(q)
    PROVE  TeamInv'
<1> DEFINE t == req[q].team
<1>1. /\ role' = role /\ token' = token
      /\ req[q].pc = "lock" /\ TeamFree(q) /\ Asked(q)
    BY DEF CheckAdd, CheckRemove, directory, TeamInv
<1>2. PICK v \in Users :
        /\ req' = [req EXCEPT ![q] = [req[q] EXCEPT !.pc = "write", !.target = v]]
        /\ req[q].op = "add" /\ role[t][v] = "owner" /\ req[q].grant # "owner" => AnotherOwner(t)
        /\ req[q].op = "remove" => v = req[q].target
  <2>1. CASE CheckAdd(q)
    BY <2>1 DEF CheckAdd
  <2>2. CASE CheckRemove(q)
    <3>1. /\ req[q].target \in Users /\ req[q] \in Request
          /\ req' = [req EXCEPT ![q] = [req[q] EXCEPT !.pc = "write"]]
      BY <1>1, <2>2 DEF CheckRemove, Asked, TeamInv, Typed
    <3>2. [req[q] EXCEPT !.pc = "write"] = [req[q] EXCEPT !.pc = "write", !.target = req[q].target]
      BY <3>1 DEF Request
    <3> QED BY <2>2, <3>1, <3>2 DEF CheckRemove
  <2> QED BY <2>1, <2>2
<1> DEFINE s == [req[q] EXCEPT !.pc = "write", !.target = v]
<1>3. /\ s \in Request /\ s.pc = "write" /\ s.target = v /\ s.team = t /\ s.by = req[q].by
      /\ s.op = req[q].op /\ s.grant = req[q].grant
  <2>1. req[q] \in Request
    BY DEF TeamInv, Typed
  <2> QED BY <2>1 DEF Request
<1>4. req'[q] = s /\ \A p \in Requests \ {q} : req'[p] = req[p]
    BY <1>2 DEF TeamInv, Typed
<1>5. Typed'
    BY <1>1, <1>2, <1>3 DEF TeamInv, Typed
<1>6. Cleared(q)'
  <2>1. /\ Members(t) # {} /\ Level(role[t][req[q].by]) >= Level("admin")
        /\ req[q].op \in {"add", "remove"}
    BY <1>1 DEF TeamFree, CheckAdd, CheckRemove, ActorRole
  <2>2. req[q].op = "add" =>
          /\ req[q].grant \in Roles
          /\ Level(req[q].grant) >= Level("admin") => role[t][req[q].by] = "owner"
          /\ role[t][v] = "owner" /\ req[q].grant # "owner" => AnotherOwner(t)
    BY <1>1, <1>2 DEF CheckAdd, CheckRemove, ActorRole, Asked
  <2>3. req[q].op = "remove" =>
          /\ Level(role[t][v]) >= Level("admin") => role[t][req[q].by] = "owner"
          /\ role[t][v] = "owner" => AnotherOwner(t)
    BY <1>2 DEF CheckAdd, CheckRemove, ActorRole
  <2>4. AnotherOwner(t) => Owners(t) \ {v} # {}
    BY AnotherOwnerIsOther
  <2>5. Members(t)' = Members(t) /\ Owners(t)' = Owners(t)
    BY <1>1, <1>3, <1>4 DEF Members, Owners
  <2> QED
    BY <1>1, <1>3, <1>4, <2>1, <2>2, <2>3, <2>4, <2>5 DEF Cleared, ActorRole, Asked, Members, Owners
<1>7. ASSUME NEW p \in Requests, req'[p].pc = "write" PROVE Cleared(p)'
  <2>1. CASE p = q
    BY <2>1, <1>6
  <2>2. CASE p # q
    <3>1. Cleared(p) /\ SameRequest(p)
      BY <1>4, <1>7, <2>2 DEF TeamInv, SameRequest
    <3> QED BY <3>1, <1>1, ClearanceStays
  <2> QED BY <2>1, <2>2
<1>8. ASSUME NEW p \in Requests, NEW o \in Requests,
             req'[p].pc = "write", req'[o].pc = "write", req'[p].team = req'[o].team
      PROVE  p = o
  <2>1. \A u \in Requests \ {q} : req'[u].pc = "write" => req'[u].team # t
    BY <1>1, <1>4 DEF TeamFree
  <2>2. req'[q].team = t
    BY <1>3, <1>4
  <2>3. CASE p = q \/ o = q
    BY <1>8, <2>1, <2>2, <2>3
  <2>4. CASE p # q /\ o # q
    BY <1>4, <1>8, <2>4 DEF TeamInv
  <2> QED BY <2>3, <2>4
<1>9. ASSUME NEW p \in Requests, req'[p].pc = "lock" PROVE Asked(p)'
    BY <1>3, <1>4, <1>9 DEF TeamInv, Asked
<1>10. AlwaysAnOwner'
    BY <1>1 DEF TeamInv, AlwaysAnOwner, Members, Owners
<1> QED BY <1>5, <1>7, <1>8, <1>9, <1>10 DEF TeamInv

(* The write itself: the team keeps an owner because the one who loses the *)
(* role is not the last, and no other clearance is for this team.          *)
LEMMA WriteStep ==
    ASSUME TeamInv, NEW q \in Requests, req[q].pc = "write",
           NEW g \in Roles \cup {"none"},
           req[q].op = "add" => g = req[q].grant,
           role' = [role EXCEPT ![req[q].team][req[q].target] = g],
           token' = token, req' \in [Requests -> Request], req'[q].pc = "off",
           \A p \in Requests \ {q} : req'[p].pc = req[p].pc /\ SameRequest(p)
    PROVE  TeamInv'
<1> DEFINE t == req[q].team
           v == req[q].target
<1>1. Cleared(q) /\ t \in Teams /\ v \in Users
    BY DEF TeamInv, Cleared
<1>2. /\ role' \in [Teams -> [Users -> Roles \cup {"none"}]]
      /\ role'[t][v] = g
      /\ \A u \in Users \ {v} : role'[t][u] = role[t][u]
      /\ \A x \in Teams \ {t} : role'[x] = role[x]
    BY <1>1 DEF TeamInv, Typed
<1>3. Typed'
    BY <1>2 DEF TeamInv, Typed
<1>4. ASSUME NEW x \in Teams, Members(x)' # {} PROVE Owners(x)' # {}
  <2>1. CASE x # t
    BY <1>2, <1>4, <2>1 DEF TeamInv, AlwaysAnOwner, Members, Owners
  <2>2. CASE x = t /\ g = "owner"
    BY <1>1, <1>2, <2>2 DEF Owners
  <2>3. CASE x = t /\ g # "owner"
    <3>1. PICK w \in Users : w # v /\ role[t][w] = "owner"
      <4>1. CASE role[t][v] = "owner"
        <5>1. Owners(t) \ {v} # {}
          BY <1>1, <2>3, <4>1 DEF Cleared
        <5> QED BY <5>1 DEF Owners
      <4>2. CASE role[t][v] # "owner"
        <5>1. Owners(t) # {}
          BY <1>1 DEF Cleared, TeamInv, AlwaysAnOwner
        <5> QED BY <4>2, <5>1 DEF Owners
      <4> QED BY <4>1, <4>2
    <3>2. role'[t][w] = "owner"
      BY <1>2, <3>1
    <3> QED BY <2>3, <3>2 DEF Owners
  <2> QED BY <2>1, <2>2, <2>3
<1>5. ASSUME NEW p \in Requests, req'[p].pc = "write" PROVE Cleared(p)'
  <2>1. p # q /\ req[p].pc = "write" /\ SameRequest(p) /\ Cleared(p)
    BY <1>5 DEF TeamInv
  <2>2. req[p].team \in Teams \ {t}
    BY <2>1 DEF TeamInv, Cleared
  <2> QED BY <1>2, <2>1, <2>2, ClearanceStays
<1>6. ASSUME NEW p \in Requests, NEW o \in Requests,
             req'[p].pc = "write", req'[o].pc = "write", req'[p].team = req'[o].team
      PROVE  p = o
    BY <1>6 DEF TeamInv, SameRequest
<1>7. ASSUME NEW p \in Requests, req'[p].pc = "lock" PROVE Asked(p)'
  <2>1. SameRequest(p) /\ Asked(p)
    BY <1>7 DEF TeamInv
  <2> QED BY <2>1 DEF SameRequest, Asked
<1>8. AlwaysAnOwner'
    BY <1>4 DEF AlwaysAnOwner
<1> QED BY <1>3, <1>5, <1>6, <1>7, <1>8 DEF TeamInv

(* The history flag of a request does not matter here. *)
LEMMA Flagged ==
    ASSUME NEW r \in Request
    PROVE  /\ [r EXCEPT !.member = TRUE] \in Request
           /\ LET s == [r EXCEPT !.member = TRUE] IN
              /\ s.pc = r.pc /\ s.team = r.team /\ s.by = r.by /\ s.target = r.target
              /\ s.op = r.op /\ s.grant = r.grant
    BY DEF Request

(* add_member and remove_member write and commit. *)
LEMMA UpsertStep ==
    ASSUME TeamInv, NEW q \in Requests, UpsertMember(q)
    PROVE  TeamInv'
<1>1. req[q].grant \in Roles
    BY DEF UpsertMember, TeamInv, Cleared
<1>2. NoRequest \in Request /\ NoRequest.pc = "off"
    BY DEF NoRequest, Request
<1>3. req \in [Requests -> Request]
    BY DEF TeamInv, Typed
<1>4. /\ req' \in [Requests -> Request] /\ req'[q].pc = "off"
      /\ \A p \in Requests \ {q} : req'[p] \in {req[p], [req[p] EXCEPT !.member = TRUE]}
  <2>1. \A p \in Requests : [req[p] EXCEPT !.member = TRUE] \in Request
    BY <1>3, Flagged
  <2> QED BY <1>2, <1>3, <2>1 DEF UpsertMember
<1>5. ASSUME NEW p \in Requests \ {q} PROVE req'[p].pc = req[p].pc /\ SameRequest(p)
  <2>1. req[p] \in Request
    BY <1>3
  <2>2. req'[p] \in {req[p], [req[p] EXCEPT !.member = TRUE]}
    BY <1>4
  <2> QED BY <2>1, <2>2, Flagged DEF SameRequest
<1>6. /\ req[q].pc = "write" /\ req[q].op = "add" /\ token' = token
      /\ role' = [role EXCEPT ![req[q].team][req[q].target] = req[q].grant]
    BY DEF UpsertMember
<1> QED BY <1>1, <1>4, <1>5, <1>6, WriteStep

(* remove_member deletes the row: the clearance says who still owns it.    *)
LEMMA DeleteStep ==
    ASSUME TeamInv, NEW q \in Requests, DeleteMember(q)
    PROVE  TeamInv'
<1>1. NoRequest \in Request /\ NoRequest.pc = "off"
    BY DEF NoRequest, Request
<1>2. req' = [req EXCEPT ![q] = NoRequest] /\ req \in [Requests -> Request]
    BY DEF DeleteMember, Finish, TeamInv, Typed
<1>3. /\ req' \in [Requests -> Request] /\ req'[q].pc = "off"
      /\ \A p \in Requests \ {q} : req'[p].pc = req[p].pc /\ SameRequest(p)
    BY <1>1, <1>2 DEF SameRequest
<1>4. /\ req[q].pc = "write" /\ req[q].op = "remove" /\ token' = token
      /\ role' = [role EXCEPT ![req[q].team][req[q].target] = "none"]
    BY DEF DeleteMember
<1> QED BY <1>3, <1>4, WriteStep

(* A new team has an owner, and nobody was cleared for a team without      *)
(* members.                                                                *)
LEMMA CreateStep ==
    ASSUME TeamInv, NEW a \in Users, NEW t \in Teams, CreateTeam(a, t)
    PROVE  TeamInv'
<1>1. req \in [Requests -> Request]
    BY DEF TeamInv, Typed
<1>2. /\ req' \in [Requests -> Request]
      /\ \A p \in Requests : req'[p] \in {req[p], [req[p] EXCEPT !.member = TRUE]}
  <2>1. \A p \in Requests : [req[p] EXCEPT !.member = TRUE] \in Request
    BY <1>1, Flagged
  <2> QED BY <1>1, <2>1 DEF CreateTeam
<1>3. ASSUME NEW p \in Requests PROVE req'[p].pc = req[p].pc /\ SameRequest(p)
  <2>1. req[p] \in Request
    BY <1>1
  <2>2. req'[p] \in {req[p], [req[p] EXCEPT !.member = TRUE]}
    BY <1>2
  <2> QED BY <2>1, <2>2, Flagged DEF SameRequest
<1>4. /\ role' \in [Teams -> [Users -> Roles \cup {"none"}]]
      /\ role'[t][a] = "owner"
      /\ \A x \in Teams \ {t} : role'[x] = role[x]
    BY DEF CreateTeam, TeamInv, Typed, Roles
<1>5. Typed'
    BY <1>2, <1>4 DEF CreateTeam, TeamInv, Typed
<1>6. AlwaysAnOwner'
    BY <1>4 DEF TeamInv, AlwaysAnOwner, Members, Owners
<1>7. ASSUME NEW p \in Requests, req'[p].pc = "write" PROVE Cleared(p)'
  <2>1. Cleared(p) /\ SameRequest(p)
    BY <1>3, <1>7 DEF TeamInv
  <2>2. req[p].team \in Teams \ {t}
    BY <2>1 DEF Cleared, CreateTeam
  <2> QED BY <1>4, <2>1, <2>2, ClearanceStays
<1>8. ASSUME NEW p \in Requests, NEW o \in Requests,
             req'[p].pc = "write", req'[o].pc = "write", req'[p].team = req'[o].team
      PROVE  p = o
    BY <1>3, <1>8 DEF TeamInv, SameRequest
<1>9. ASSUME NEW p \in Requests, req'[p].pc = "lock" PROVE Asked(p)'
  <2>1. SameRequest(p) /\ Asked(p)
    BY <1>3, <1>9 DEF TeamInv
  <2> QED BY <2>1 DEF SameRequest, Asked
<1> QED BY <1>5, <1>6, <1>7, <1>8, <1>9 DEF TeamInv

-----------------------------------------------------------------------------
(* No team has members yet, and nothing is under way. *)
LEMMA InitTeams == Init => TeamInv
<1> SUFFICES ASSUME Init PROVE TeamInv
    OBVIOUS
<1>1. role \in [Teams -> [Users -> Roles \cup {"none"}]] /\ AlwaysAnOwner
    BY DEF Init, Roles
<1>2. NoRequest \in Request /\ NoRequest.pc = "off" /\ NoKey \in Key
    BY DEF NoRequest, Request, NoKey, Key
<1>3. /\ req \in [Requests -> Request] /\ token \in [Tokens -> Key]
      /\ \A q \in Requests : req[q].pc = "off"
    BY <1>2 DEF Init
<1> QED BY <1>1, <1>3 DEF TeamInv, Typed

(* Signing in and out changes no role and no request. *)
LEMMA SignInKeeps == SignInStep /\ UNCHANGED membership => role' = role /\ req' = req /\ token' = token
    BY DEF SignInStep, membership, directory, ChangeMail, GithubLogin, ExpireState, ConsumeState,
           FetchUser, PersistIdentity, Decide, IssueSession, Abandon, Logout

(* What a step of Membership may be. *)
LEMMA TeamStep == TeamInv /\ MembershipStep => TeamInv'
<1> SUFFICES ASSUME TeamInv, MembershipStep PROVE TeamInv'
    OBVIOUS
<1>1. ASSUME NEW a \in Users, NEW t \in Teams, CreateTeam(a, t) PROVE TeamInv'
    BY <1>1, CreateStep
<1>2. ASSUME NEW q \in Requests, NEW a \in Users,
             \/ \E t \in Teams, e \in Emails, g \in Roles : BeginAdd(q, a, t, e, g)
             \/ \E t \in Teams, u \in Users : BeginRemove(q, a, t, u)
             \/ \E t \in Teams, k \in Tokens \cup {None} : BeginRead(q, a, k, t)
             \/ \E scope \in Teams \cup {None} : BeginToken(q, a, scope)
      PROVE  TeamInv'
    BY <1>2, BeginStep
<1>3. ASSUME NEW q \in Requests, CheckAdd(q) \/ CheckRemove(q) PROVE TeamInv'
    BY <1>3, CheckStep
<1>4. ASSUME NEW q \in Requests, UpsertMember(q) \/ DeleteMember(q) PROVE TeamInv'
    BY <1>4, UpsertStep, DeleteStep
<1>5. ASSUME NEW q \in Requests,
             Refuse(q) \/ Resolve(q) \/ RequireRole(q) \/ \E k \in Tokens : InsertToken(q, k)
      PROVE  TeamInv'
    BY <1>5, QuietStep
<1>6. ASSUME NEW k \in Tokens, EndToken(k) PROVE TeamInv'
  <2>1. token[k] \in Key /\ token \in [Tokens -> Key]
    BY DEF TeamInv, Typed
  <2>2. [token[k] EXCEPT !.live = FALSE] \in Key
    BY <2>1 DEF Key
  <2>3. role' = role /\ req' = req /\ token' = [token EXCEPT ![k] = [token[k] EXCEPT !.live = FALSE]]
    BY <1>6 DEF EndToken, directory
  <2> QED BY <2>1, <2>2, <2>3, ElsewhereStep
<1> QED BY <1>1, <1>2, <1>3, <1>4, <1>5, <1>6 DEF MembershipStep

(* Every step keeps the invariant: those of sign-in leave it alone. *)
LEMMA StepTeams == TeamInv /\ [Next]_vars => TeamInv'
<1> SUFFICES ASSUME TeamInv, [Next]_vars PROVE TeamInv'
    OBVIOUS
<1>1. CASE SignInStep /\ UNCHANGED membership
    BY <1>1, SignInKeeps, ElsewhereStep DEF TeamInv, Typed
<1>2. CASE MembershipStep
    BY <1>2, TeamStep
<1>3. CASE UNCHANGED vars
    BY <1>3, ElsewhereStep DEF vars, directory, membership, TeamInv, Typed
<1> QED BY <1>1, <1>2, <1>3 DEF Next

(* However many requests of owners and admins run at once, a team that has *)
(* members has an owner: the count of ensure_another_owner is still right  *)
(* when the write is made.                                                 *)
THEOREM TeamsKeepAnOwner == Spec => []AlwaysAnOwner
<1>1. TeamInv => AlwaysAnOwner
    BY DEF TeamInv
<1> QED BY <1>1, InitTeams, StepTeams, PTL DEF Spec

(* Only the two writes change the roles of a team that has members. *)
LEMMA GivenByWrite ==
    ASSUME TeamInv, NEW q \in Requests, UpsertMember(q) \/ DeleteMember(q)
    PROVE  RoleIsGiven
<1> DEFINE x == req[q].team
           v == req[q].target
<1>1. Cleared(q) /\ req[q].pc = "write" /\ x \in Teams /\ v \in Users
    BY DEF UpsertMember, DeleteMember, TeamInv, Cleared
<1>2. req'[q].pc = "off"
  <2>1. req' \in [Requests -> {req'[p] : p \in Requests}] /\ req'[q] = NoRequest
    BY DEF UpsertMember, DeleteMember, Finish, TeamInv, Typed
  <2> QED BY <2>1 DEF NoRequest
<1> SUFFICES ASSUME NEW t \in Teams, NEW u \in Users, role'[t][u] # role[t][u]
             PROVE  /\ t = x /\ u = v
                    /\ Level(role[t][req[q].by]) >= Level("admin")
                    /\ Level(role'[t][u]) >= Level("admin") => role[t][req[q].by] = "owner"
                    /\ role'[t][u] = "none" /\ Level(role[t][u]) >= Level("admin")
                         => role[t][req[q].by] = "owner"
    BY <1>1, <1>2 DEF RoleIsGiven
<1>3. CASE UpsertMember(q)
  <2>1. t = x /\ u = v /\ role'[t][u] = req[q].grant
    BY <1>1, <1>3 DEF UpsertMember, TeamInv, Typed
  <2>2. req[q].grant # "none"
    BY <1>1, <1>3 DEF UpsertMember, Cleared, Roles
  <2> QED BY <1>1, <1>3, <2>1, <2>2 DEF UpsertMember, Cleared, ActorRole
<1>4. CASE DeleteMember(q)
  <2>1. t = x /\ u = v /\ role'[t][u] = "none"
    BY <1>1, <1>4 DEF DeleteMember, TeamInv, Typed
  <2>2. ~(Level("none") >= Level("admin"))
    BY DEF Level
  <2> QED BY <1>1, <1>4, <2>1, <2>2 DEF DeleteMember, Cleared, ActorRole
<1> QED BY <1>3, <1>4

(* So every step that changes a role is one of the two writes. *)
LEMMA GivenByStep == TeamInv /\ [Next]_vars => [RoleIsGiven]_<<directory, membership>>
<1> SUFFICES ASSUME TeamInv, [Next]_vars PROVE RoleIsGiven
    OBVIOUS
<1>1. CASE role' = role
    BY <1>1 DEF RoleIsGiven
<1>2. CASE \E a \in Users, t \in Teams : CreateTeam(a, t)
  <2>1. PICK a \in Users, t \in Teams : CreateTeam(a, t)
    BY <1>2
  <2>2. \A x \in Teams \ {t} : role'[x] = role[x]
    BY <2>1 DEF CreateTeam, TeamInv, Typed
  <2> QED BY <2>1, <2>2 DEF CreateTeam, RoleIsGiven
<1>3. CASE \E q \in Requests : UpsertMember(q) \/ DeleteMember(q)
    BY <1>3, GivenByWrite
<1>4. \/ role' = role
      \/ \E a \in Users, t \in Teams : CreateTeam(a, t)
      \/ \E q \in Requests : UpsertMember(q) \/ DeleteMember(q)
  <2>1. CASE SignInStep /\ UNCHANGED membership
    BY <2>1, SignInKeeps
  <2>2. CASE MembershipStep
    BY <2>2 DEF MembershipStep, BeginAdd, BeginRemove, BeginRead, BeginToken, InsertToken, CheckAdd,
                CheckRemove, Resolve, RequireRole, Refuse, EndToken, directory
  <2>3. CASE UNCHANGED vars
    BY <2>3 DEF vars, directory
  <2> QED BY <2>1, <2>2, <2>3 DEF Next
<1> QED BY <1>1, <1>2, <1>3, <1>4

(* A role changes only by the hand of someone entitled to it at that very  *)
(* moment, whatever has happened to them since they asked.                 *)
THEOREM RolesGivenByTheEntitled == Spec => RolesAreGiven
    BY InitTeams, StepTeams, GivenByStep, PTL DEF Spec, RolesAreGiven

-----------------------------------------------------------------------------
(* What a handler that reads for a team has found out, and what the        *)
(* history says of its credential and its user.                            *)
Reading(q) ==
    /\ req[q].team \in Teams /\ req[q].by \in Users /\ req[q].key \in Tokens \cup {None}
    /\ role[req[q].team][req[q].by] # "none" => req[q].member
    /\ req[q].key # None =>
          /\ token[req[q].key].user = req[q].by
          /\ token[req[q].key].live \/ req[q].pc # "resolve" => req[q].valid
    /\ req[q].pc = "serve" =>
          /\ req[q].member
          /\ req[q].key # None => token[req[q].key].scope \in {None, req[q].team}

(* The second invariant: every handler that reads. *)
AccessInv == \A q \in Requests : req[q].pc \in {"resolve", "role", "serve"} => Reading(q)

(* A token with a user is never taken again, and never comes back to life. *)
KeysStay ==
    \A k \in Tokens : token[k].user \in Users =>
        /\ token'[k].user = token[k].user /\ token'[k].scope = token[k].scope
        /\ token'[k].live => token[k].live

(* A reader that is left alone, while a new member is marked in it. *)
LEMMA ReadingStays ==
    ASSUME NEW q \in Requests, Reading(q), KeysStay,
           req'[q].pc = req[q].pc, req'[q].team = req[q].team, req'[q].by = req[q].by,
           req'[q].key = req[q].key, req'[q].valid = req[q].valid, req[q].member => req'[q].member,
           role'[req[q].team][req[q].by] # "none" => role[req[q].team][req[q].by] # "none" \/ req'[q].member
    PROVE  Reading(q)'
<1>1. req[q].key # None =>
          /\ token'[req[q].key].user = token[req[q].key].user
          /\ token'[req[q].key].scope = token[req[q].key].scope
          /\ token'[req[q].key].live => token[req[q].key].live
    BY DEF Reading, KeysStay
<1> QED BY <1>1 DEF Reading

(* Readers that are the same as before. *)
LEMMA ReadersAlone ==
    ASSUME AccessInv, KeysStay,
           \A q \in Requests : req'[q].pc \in {"resolve", "role", "serve"} =>
               /\ req'[q] = req[q]
               /\ role'[req[q].team][req[q].by] # "none" => role[req[q].team][req[q].by] # "none"
    PROVE  AccessInv'
    BY ReadingStays DEF AccessInv

(* The member flag of a request, set or not. *)
LEMMA FlaggedReader ==
    ASSUME NEW r \in Request
    PROVE  LET s == [r EXCEPT !.member = TRUE] IN
              /\ s.pc = r.pc /\ s.team = r.team /\ s.by = r.by /\ s.key = r.key /\ s.valid = r.valid
              /\ s.member
    BY DEF Request

(* Two roles are written: that of a new owner and that of add_member; both *)
(* mark the requests of the user in the team.                              *)
LEMMA MarkedReaders ==
    ASSUME TeamInv, AccessInv, KeysStay, NEW t, NEW v,
           \A x \in Teams, u \in Users : role'[x][u] # role[x][u] => x = t /\ u = v,
           \A q \in Requests : req'[q].pc \in {"resolve", "role", "serve"} =>
               req'[q] = (IF req[q].team = t /\ req[q].by = v THEN [req[q] EXCEPT !.member = TRUE] ELSE req[q])
    PROVE  AccessInv'
<1> SUFFICES ASSUME NEW q \in Requests, req'[q].pc \in {"resolve", "role", "serve"} PROVE Reading(q)'
    BY DEF AccessInv
<1>1. req[q] \in Request
    BY DEF TeamInv, Typed
<1>2. CASE req[q].team = t /\ req[q].by = v
  <2>1. /\ req'[q].pc = req[q].pc /\ req'[q].team = req[q].team /\ req'[q].by = req[q].by
        /\ req'[q].key = req[q].key /\ req'[q].valid = req[q].valid /\ req'[q].member
    BY <1>1, <1>2, FlaggedReader
  <2> QED BY <2>1, ReadingStays DEF AccessInv
<1>3. CASE ~(req[q].team = t /\ req[q].by = v)
  <2>1. req'[q] = req[q]
    BY <1>3
  <2>2. Reading(q)
    BY <2>1 DEF AccessInv
  <2>3. role'[req[q].team][req[q].by] = role[req[q].team][req[q].by]
    BY <1>3, <2>2 DEF Reading
  <2> QED BY <2>1, <2>2, <2>3, ReadingStays
<1> QED BY <1>2, <1>3

(* A request comes in. *)
LEMMA ComeAccess ==
    ASSUME TeamInv, AccessInv, UNCHANGED <<role, token>>, NEW q \in Requests, NEW r, Come(q, r),
           r.pc \in {"resolve", "role", "serve"} => Reading(q)'
    PROVE  AccessInv'
<1>1. req'[q] = r /\ \A p \in Requests \ {q} : req'[p] = req[p]
    BY DEF Come, TeamInv, Typed
<1>2. KeysStay
    BY DEF KeysStay
<1>3. ASSUME NEW p \in Requests \ {q}, req'[p].pc \in {"resolve", "role", "serve"} PROVE Reading(p)'
    BY <1>1, <1>2, <1>3, ReadingStays DEF AccessInv
<1> QED BY <1>1, <1>3 DEF AccessInv

(* A handler that reads begins with a credential. *)
LEMMA BeginReadAccess ==
    ASSUME TeamInv, AccessInv, NEW q \in Requests, NEW u \in Users, NEW t \in Teams,
           NEW k \in Tokens \cup {None}, BeginRead(q, u, k, t)
    PROVE  AccessInv'
<1>1. PICK m \in BOOLEAN, v \in BOOLEAN :
          /\ Come(q, [NoRequest EXCEPT !.pc = "resolve", !.op = "read", !.by = u, !.key = k,
                                       !.team = t, !.member = m, !.valid = v])
          /\ role[t][u] # "none" => m
          /\ k # None /\ token[k].live => v
  <2>1. (role[t][u] # "none") \in BOOLEAN
    OBVIOUS
  <2>2. (IF k = None THEN SignedIn(u) ELSE token[k].live) \in BOOLEAN
    BY DEF SignedIn, TeamInv, Typed, Key
  <2> QED BY <2>1, <2>2 DEF BeginRead
<1> DEFINE r == [NoRequest EXCEPT !.pc = "resolve", !.op = "read", !.by = u, !.key = k,
                                  !.team = t, !.member = m, !.valid = v]
<1>2. r.pc = "resolve" /\ r.by = u /\ r.key = k /\ r.team = t /\ r.member = m /\ r.valid = v
    BY DEF NoRequest
<1>3. UNCHANGED <<role, token>> /\ (k # None => token[k].user = u)
    BY DEF BeginRead, directory
<1>4. req'[q] = r
    BY <1>1 DEF Come, TeamInv, Typed
<1> HIDE DEF r
<1>5. Reading(q)'
    BY <1>1, <1>2, <1>3, <1>4 DEF Reading
<1> QED BY <1>1, <1>3, <1>5, ComeAccess DEF r

(* The steps of a reader: resolve_api_token and require_organization_role. *)
LEMMA ReaderStep ==
    ASSUME TeamInv, AccessInv, NEW q \in Requests, Resolve(q) \/ RequireRole(q)
    PROVE  AccessInv'
<1>1. UNCHANGED <<role, token>> /\ KeysStay
    BY DEF Resolve, RequireRole, directory, KeysStay
<1>2. PICK x \in {"role", "serve"} :
          /\ req' = [req EXCEPT ![q] = [req[q] EXCEPT !.pc = x]]
          /\ x = "role" => req[q].pc = "resolve" /\ (req[q].key # None => token[req[q].key].live)
          /\ x = "serve" =>
                /\ req[q].pc = "role" /\ role[req[q].team][req[q].by] # "none"
                /\ req[q].key # None => token[req[q].key].scope \in {None, req[q].team}
  <2>1. CASE Resolve(q)
    BY <2>1 DEF Resolve
  <2>2. CASE RequireRole(q)
    BY <2>2 DEF RequireRole, CanRead
  <2> QED BY <2>1, <2>2
<1>3. req[q] \in Request /\ Reading(q)
    BY <1>2 DEF TeamInv, Typed, AccessInv
<1> DEFINE s == [req[q] EXCEPT !.pc = x]
<1>4. /\ s.pc = x /\ s.team = req[q].team /\ s.by = req[q].by /\ s.key = req[q].key
      /\ s.valid = req[q].valid /\ s.member = req[q].member
    BY <1>3 DEF Request
<1>5. req'[q] = s /\ \A p \in Requests \ {q} : req'[p] = req[p]
    BY <1>2 DEF TeamInv, Typed
<1> HIDE DEF s
<1>6. Reading(q)'
    BY <1>1, <1>2, <1>3, <1>4, <1>5 DEF Reading
<1>7. ASSUME NEW p \in Requests \ {q}, req'[p].pc \in {"resolve", "role", "serve"} PROVE Reading(p)'
    BY <1>1, <1>5, <1>7, ReadingStays DEF AccessInv
<1> QED BY <1>6, <1>7 DEF AccessInv

(* Every step of Membership. *)
LEMMA AccessStep ==
    ASSUME TeamInv, AccessInv, MembershipStep
    PROVE  AccessInv'
<1>0. NoRequest.pc = "off" /\ req \in [Requests -> Request] /\ token \in [Tokens -> Key]
    BY DEF NoRequest, TeamInv, Typed
<1>1. ASSUME NEW a \in Users, NEW t \in Teams, CreateTeam(a, t) PROVE AccessInv'
  <2>1. \A x \in Teams, u \in Users : role'[x][u] # role[x][u] => x = t /\ u = a
    BY <1>1 DEF CreateTeam, TeamInv, Typed
  <2>2. KeysStay
    BY <1>1 DEF CreateTeam, KeysStay
  <2>3. \A q \in Requests : req'[q] = (IF req[q].team = t /\ req[q].by = a
                                       THEN [req[q] EXCEPT !.member = TRUE] ELSE req[q])
    BY <1>1 DEF CreateTeam
  <2> QED BY <2>1, <2>2, <2>3, MarkedReaders
<1>2. ASSUME NEW q \in Requests, UpsertMember(q) PROVE AccessInv'
  <2>1. PICK t \in Teams, v \in Users : t = req[q].team /\ v = req[q].target
    BY <1>2 DEF UpsertMember, TeamInv, Cleared
  <2>2. \A x \in Teams, u \in Users : role'[x][u] # role[x][u] => x = t /\ u = v
    BY <1>2, <2>1 DEF UpsertMember, TeamInv, Typed
  <2>3. KeysStay
    BY <1>2 DEF UpsertMember, KeysStay
  <2>4. \A p \in Requests : req'[p].pc \in {"resolve", "role", "serve"} =>
              req'[p] = (IF req[p].team = t /\ req[p].by = v
                         THEN [req[p] EXCEPT !.member = TRUE] ELSE req[p])
    BY <1>0, <1>2, <2>1 DEF UpsertMember
  <2> QED BY <2>2, <2>3, <2>4, MarkedReaders
<1>3. ASSUME NEW q \in Requests, DeleteMember(q) PROVE AccessInv'
  <2>1. req[q].team \in Teams /\ req[q].target \in Users
    BY <1>3 DEF DeleteMember, TeamInv, Cleared
  <2>2. KeysStay
    BY <1>3 DEF DeleteMember, KeysStay
  <2>3. \A x \in Teams, u \in Users : role'[x][u] # "none" => role[x][u] # "none"
    BY <1>3, <2>1 DEF DeleteMember, TeamInv, Typed
  <2>4. \A p \in Requests : req'[p].pc \in {"resolve", "role", "serve"} => req'[p] = req[p]
    BY <1>0, <1>3 DEF DeleteMember, Finish
  <2>5. \A p \in Requests : req[p].pc \in {"resolve", "role", "serve"} => req[p].team \in Teams /\ req[p].by \in Users
    BY DEF AccessInv, Reading
  <2> QED BY <2>2, <2>3, <2>4, <2>5, ReadersAlone
<1>4. ASSUME NEW q \in Requests, Refuse(q) \/ CheckAdd(q) \/ CheckRemove(q) PROVE AccessInv'
  <2>1. KeysStay /\ role' = role
    BY <1>4 DEF Refuse, CheckAdd, CheckRemove, KeysStay, directory
  <2>2. req'[q].pc \in {"off", "write"} /\ \A p \in Requests \ {q} : req'[p] = req[p]
    <3>1. CASE Refuse(q)
      BY <1>0, <3>1 DEF Refuse, Finish
    <3>2. CASE CheckAdd(q)
      BY <1>0, <3>2 DEF CheckAdd, Request
    <3>3. CASE CheckRemove(q)
      BY <1>0, <3>3 DEF CheckRemove, Request
    <3> QED BY <1>4, <3>1, <3>2, <3>3
  <2> QED BY <2>1, <2>2, ReadersAlone
<1>5. ASSUME NEW q \in Requests, NEW k \in Tokens, InsertToken(q, k) PROVE AccessInv'
  <2>1. KeysStay
    BY <1>0, <1>5, DirectoryConstants DEF InsertToken, KeysStay, NoKey
  <2>2. role' = role /\ \A p \in Requests : req'[p].pc \in {"resolve", "role", "serve"} => req'[p] = req[p]
    BY <1>0, <1>5 DEF InsertToken, Finish, directory
  <2> QED BY <2>1, <2>2, ReadersAlone
<1>6. ASSUME NEW k \in Tokens, EndToken(k) PROVE AccessInv'
  <2>1. KeysStay
    <3>1. token' = [token EXCEPT ![k] = [token[k] EXCEPT !.live = FALSE]] /\ token[k] \in Key
      BY <1>0, <1>6 DEF EndToken
    <3>2. LET x == [token[k] EXCEPT !.live = FALSE] IN
              x.user = token[k].user /\ x.scope = token[k].scope /\ x.live = FALSE
      BY <3>1 DEF Key
    <3> QED BY <1>0, <3>1, <3>2 DEF KeysStay
  <2>2. role' = role /\ req' = req
    BY <1>6 DEF EndToken, directory
  <2> QED BY <2>1, <2>2, ReadersAlone
<1>7. ASSUME NEW q \in Requests, NEW a \in Users, NEW t \in Teams, NEW e \in Emails, NEW g \in Roles,
             BeginAdd(q, a, t, e, g)
      PROVE  AccessInv'
  <2> DEFINE r == [NoRequest EXCEPT !.pc = "lock", !.op = "add", !.by = a, !.team = t,
                                    !.target = e, !.grant = g]
  <2>1. UNCHANGED <<role, token>> /\ Come(q, r)
    BY <1>7 DEF BeginAdd, directory
  <2>2. r.pc = "lock"
    BY DEF NoRequest
  <2> QED BY <2>1, <2>2, ComeAccess
<1>8. ASSUME NEW q \in Requests, NEW a \in Users, NEW t \in Teams, NEW u \in Users, BeginRemove(q, a, t, u)
      PROVE  AccessInv'
  <2> DEFINE r == [NoRequest EXCEPT !.pc = "lock", !.op = "remove", !.by = a, !.team = t, !.target = u]
  <2>1. UNCHANGED <<role, token>> /\ Come(q, r)
    BY <1>8 DEF BeginRemove, directory
  <2>2. r.pc = "lock"
    BY DEF NoRequest
  <2> QED BY <2>1, <2>2, ComeAccess
<1>9. ASSUME NEW q \in Requests, NEW a \in Users, NEW scope \in Teams \cup {None}, BeginToken(q, a, scope)
      PROVE  AccessInv'
  <2> DEFINE r == [NoRequest EXCEPT !.pc = "insert", !.op = "token", !.by = a, !.team = scope]
  <2>1. UNCHANGED <<role, token>> /\ Come(q, r)
    BY <1>9 DEF BeginToken, directory
  <2>2. r.pc = "insert"
    BY DEF NoRequest
  <2> QED BY <2>1, <2>2, ComeAccess
<1> QED BY <1>1, <1>2, <1>3, <1>4, <1>5, <1>6, <1>7, <1>8, <1>9,
          BeginReadAccess, ReaderStep DEF MembershipStep

(* A request is served only if its user was a member at some time after it *)
(* came and its token still valid and of this team: a token that was       *)
(* revoked, expired or outlived the membership opens nothing.              *)
THEOREM AccessStaysCurrent == Spec => []AccessIsCurrent
<1>1. Init => AccessInv
    BY DEF Init, AccessInv, NoRequest
<1>2. TeamInv /\ AccessInv /\ [Next]_vars => AccessInv'
  <2> SUFFICES ASSUME TeamInv, AccessInv, [Next]_vars PROVE AccessInv'
    OBVIOUS
  <2>1. CASE MembershipStep
    BY <2>1, AccessStep
  <2>2. CASE UNCHANGED <<role, req, token>>
    BY <2>2, ReadersAlone DEF KeysStay
  <2> QED BY <2>1, <2>2, SignInKeeps DEF Next, vars, directory, membership
<1>3. AccessInv => AccessIsCurrent
    BY DEF AccessInv, Reading, AccessIsCurrent
<1> QED BY <1>1, <1>2, <1>3, InitTeams, StepTeams, PTL DEF Spec
=============================================================================
