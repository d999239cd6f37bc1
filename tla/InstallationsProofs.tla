------------------------- MODULE InstallationsProofs -------------------------
(***************************************************************************)
(* What Installations promises for every number of installations,          *)
(* workspaces, repositories and requests, and however often GitHub's       *)
(* selection changes.  Four invariants, each resting on the one before:    *)
(* Shape (what a request has at hand where it stands), TokenInv (epochs of *)
(* tokens against epochs at which the cache was emptied), ServedInv (a     *)
(* request that has read its link) and RemovedInv (what tokens minted      *)
(* since a removal can reach).                                             *)
(***************************************************************************)
EXTENDS Installations, FiniteSetTheorems, TLAPS

WithToken == {"store", "use", "assign", "commit"}
PastDrop == {"get", "mint"} \cup WithToken
PastRead == {"drop"} \cup PastDrop
WithInstallation == {"meta", "upsert", "link"} \cup PastRead

Formed(r) ==
    /\ ~At(r, "off") => req[r].org \in Orgs
    /\ req[r].pc \in WithInstallation => req[r].inst \in Insts
    /\ At(r, "list") /\ req[r].op = "setup" => req[r].inst \in Insts
    /\ ~At(r, "off") /\ req[r].op \in {"enable", "capture"} => req[r].repo \in Repos
    /\ ~At(r, "off") /\ req[r].op = "capture" => home[req[r].repo] \in Orgs
    /\ req[r].pc \in {"assign", "commit"} => req[r].op = "enable"

Shape == TypeOK /\ \A r \in Slots : Formed(r)

-----------------------------------------------------------------------------
(* How a step changes the requests. *)

(* A request that only a webhook's mark or a late token touches. *)
Same(s) ==
    /\ req'[s].pc = req[s].pc /\ req'[s].op = req[s].op /\ req'[s].org = req[s].org
    /\ req'[s].repo = req[s].repo /\ req'[s].inst = req[s].inst /\ req'[s].seen = req[s].seen
    /\ req'[s].healed = req[s].healed /\ req'[s].asked = req[s].asked

(* Crossing marks requests and leaves the rest of them alone. *)
LEMMA Crossing ==
    ASSUME req \in [Slots -> Request], NEW gs, NEW os, Cross(gs, os)
    PROVE  /\ req' \in [Slots -> Request]
           /\ \A s \in Slots :
                 /\ Same(s) /\ req'[s].tok = req[s].tok
                 /\ req[s].crossed => req'[s].crossed
                 /\ ~At(s, "off") /\ req[s].op = "enable" /\ (req[s].repo \in gs \/ req[s].org \in os)
                       => req'[s].crossed
<1>1. ASSUME NEW q \in Request
      PROVE  /\ [q EXCEPT !.crossed = TRUE] \in Request
             /\ [q EXCEPT !.crossed = TRUE].crossed = TRUE
             /\ [q EXCEPT !.crossed = TRUE].tok = q.tok
             /\ [q EXCEPT !.crossed = TRUE].pc = q.pc
             /\ [q EXCEPT !.crossed = TRUE].op = q.op
             /\ [q EXCEPT !.crossed = TRUE].org = q.org
             /\ [q EXCEPT !.crossed = TRUE].repo = q.repo
             /\ [q EXCEPT !.crossed = TRUE].inst = q.inst
             /\ [q EXCEPT !.crossed = TRUE].seen = q.seen
             /\ [q EXCEPT !.crossed = TRUE].healed = q.healed
             /\ [q EXCEPT !.crossed = TRUE].asked = q.asked
    BY DEF Request
<1> QED BY <1>1 DEF Cross, Same, At

(* Emptying the cache of i makes the tokens on their way to it late. *)
LEMMA Lateness ==
    ASSUME req \in [Slots -> Request], NEW i
    PROVE  /\ Late(req, i) \in [Slots -> Request]
           /\ \A s \in Slots :
                 LET q == Late(req, i)[s] IN
                 /\ q.pc = req[s].pc /\ q.op = req[s].op /\ q.org = req[s].org
                 /\ q.repo = req[s].repo /\ q.inst = req[s].inst /\ q.seen = req[s].seen
                 /\ q.healed = req[s].healed /\ q.asked = req[s].asked /\ q.crossed = req[s].crossed
                 /\ q.tok.scope = req[s].tok.scope /\ q.tok.epoch = req[s].tok.epoch
                 /\ req[s].tok.late => q.tok.late
                 /\ q.tok = req[s].tok \/ (At(s, "store") /\ req[s].inst = i)
                 /\ At(s, "store") /\ req[s].inst = i => q.tok.late
<1>1. ASSUME NEW q \in Request
      PROVE  /\ [q EXCEPT !.tok.late = TRUE] \in Request
             /\ [q EXCEPT !.tok.late = TRUE].tok.late = TRUE
             /\ [q EXCEPT !.tok.late = TRUE].tok.scope = q.tok.scope
             /\ [q EXCEPT !.tok.late = TRUE].tok.epoch = q.tok.epoch
             /\ [q EXCEPT !.tok.late = TRUE].pc = q.pc
             /\ [q EXCEPT !.tok.late = TRUE].op = q.op
             /\ [q EXCEPT !.tok.late = TRUE].org = q.org
             /\ [q EXCEPT !.tok.late = TRUE].repo = q.repo
             /\ [q EXCEPT !.tok.late = TRUE].inst = q.inst
             /\ [q EXCEPT !.tok.late = TRUE].seen = q.seen
             /\ [q EXCEPT !.tok.late = TRUE].healed = q.healed
             /\ [q EXCEPT !.tok.late = TRUE].asked = q.asked
             /\ [q EXCEPT !.tok.late = TRUE].crossed = q.crossed
    BY DEF Request, Token
<1> QED BY <1>1 DEF Late, At

(* A request that only changes its place. *)
LEMMA Going ==
    ASSUME req \in [Slots -> Request], NEW r \in Slots,
           NEW where \in {"off", "list", "meta", "upsert", "link", "read", "drop", "get", "mint",
                          "store", "use", "assign", "commit"},
           Goto(r, where)
    PROVE  /\ req' \in [Slots -> Request]
           /\ \A s \in Slots \ {r} : req'[s] = req[s]
           /\ where = "off" => req'[r] = Idle
           /\ where # "off" =>
                 /\ req'[r].pc = where /\ req'[r].op = req[r].op /\ req'[r].org = req[r].org
                 /\ req'[r].repo = req[r].repo /\ req'[r].inst = req[r].inst /\ req'[r].seen = req[r].seen
                 /\ req'[r].healed = req[r].healed /\ req'[r].asked = req[r].asked
                 /\ req'[r].tok = req[r].tok /\ req'[r].crossed = req[r].crossed
<1>1. Idle \in Request
    BY DEF Idle, Request, NoToken, Token
<1>2. /\ [req[r] EXCEPT !.pc = where] \in Request
      /\ [req[r] EXCEPT !.pc = where].pc = where
      /\ [req[r] EXCEPT !.pc = where].op = req[r].op
      /\ [req[r] EXCEPT !.pc = where].org = req[r].org
      /\ [req[r] EXCEPT !.pc = where].repo = req[r].repo
      /\ [req[r] EXCEPT !.pc = where].inst = req[r].inst
      /\ [req[r] EXCEPT !.pc = where].seen = req[r].seen
      /\ [req[r] EXCEPT !.pc = where].healed = req[r].healed
      /\ [req[r] EXCEPT !.pc = where].asked = req[r].asked
      /\ [req[r] EXCEPT !.pc = where].tok = req[r].tok
      /\ [req[r] EXCEPT !.pc = where].crossed = req[r].crossed
    BY DEF Request
<1> QED BY <1>1, <1>2 DEF Goto

-----------------------------------------------------------------------------
(* Shape: types, and what a request has at hand. *)

(* A request that is left alone stays formed, as no repository loses its   *)
(* workspace.                                                              *)
LEMMA FormedStays ==
    ASSUME NEW s \in Slots, Formed(s), Same(s),
           \A g \in Repos : home[g] \in Orgs => home'[g] \in Orgs
    PROVE  Formed(s)'
    BY DEF Formed, Same, At

(* A request that ends. *)
LEMMA IdleFormed ==
    ASSUME NEW s \in Slots, req'[s] = Idle
    PROVE  Formed(s)'
    BY DEF Formed, Idle, At, WithInstallation, PastRead, PastDrop, WithToken

(* The initial state. *)
LEMMA InitShape == Init => Shape
<1> SUFFICES ASSUME Init PROVE Shape
    OBVIOUS
<1>1. \A r \in Slots : Formed(r)
    BY DEF Init, Formed, Idle, At, WithInstallation, PastRead, PastDrop, WithToken
<1>2. req \in [Slots -> Request]
    BY DEF Init, Idle, Request, NoToken, Token
<1>3. changes \in Nat /\ requests \in Nat
    BY InstallationConstants DEF Init
<1>4. deliveries \subseteq Message
    BY DEF Init, Message
<1>5. /\ row \in [Insts -> {"none", "active", "suspended"}] /\ link \in [Orgs -> Insts \cup {None}]
      /\ \A o \in Orgs : link[o] # None => row[link[o]] # "none" /\ Linked(link[o]) = {o}
  <2>1. CASE row = [i \in Insts |-> "none"] /\ link = [o \in Orgs |-> None]
    BY <2>1 DEF Linked
  <2>2. ASSUME NEW o \in Orgs, NEW i \in Insts,
               row = [j \in Insts |-> IF j = i THEN "active" ELSE "none"],
               link = [p \in Orgs |-> IF p = o THEN i ELSE None]
        PROVE  <1>5
    BY <2>2, InstallationConstants DEF Linked
  <2> QED BY <2>1, <2>2 DEF Init
<1>6. \A i \in Insts : cache[i] = {} /\ Cardinality(cache[i]) <= 1
    BY FS_EmptySet DEF Init
<1>7. /\ state \in [Insts -> {"active", "suspended", "gone"}]
      /\ granted \in [Insts -> SUBSET Repos]
      /\ epoch \in [Insts -> Nat] /\ floor \in [Insts -> Nat]
      /\ home \in [Repos -> Orgs \cup {None}] /\ tracked = {} /\ hook = {} /\ removal = {}
      /\ cache \in [Insts -> SUBSET Token]
      /\ moved = {} /\ taken = {} /\ excused = {}
    BY DEF Init, Reach
<1> QED BY <1>1, <1>2, <1>3, <1>4, <1>5, <1>6, <1>7 DEF Shape, TypeOK

(* Changes on GitHub, and the end of a cached token's time. *)
LEMMA HubShape ==
    ASSUME Shape, HubStep
    PROVE  Shape'
<1>1. PICK i \in Insts :
          \/ SwitchSuspension(i) \/ Uninstall(i) \/ Expire(i)
          \/ \E g \in Repos : Grant(i, g) \/ Withdraw(i, g)
    BY DEF HubStep
<1>2. UNCHANGED <<tables, req, hook, removal, floor, moved, excused, requests>>
    BY <1>1 DEF SwitchSuspension, Uninstall, Expire, Grant, Withdraw, Change, history, counts
<1>3. \A r \in Slots : Formed(r)'
    BY <1>2, FormedStays DEF Shape, Same, tables
<1>4. /\ state' \in [Insts -> {"active", "suspended", "gone"}]
      /\ granted' \in [Insts -> SUBSET Repos]
      /\ epoch' \in [Insts -> Nat]
      /\ taken' \subseteq Repos /\ changes' \in Nat
  <2>1. CASE SwitchSuspension(i) \/ Uninstall(i)
    BY <2>1 DEF SwitchSuspension, Uninstall, Change, Shape, TypeOK
  <2>2. CASE Expire(i)
    BY <2>2 DEF Expire, github, history, counts, Shape, TypeOK
  <2>3. ASSUME NEW g \in Repos, Grant(i, g) \/ Withdraw(i, g) PROVE <1>4
    BY <2>3 DEF Grant, Withdraw, Change, Shape, TypeOK
  <2> QED BY <1>1, <2>1, <2>2, <2>3
<1>5. deliveries' \subseteq Message
  <2>1. ASSUME NEW kind \in {"created", "deleted", "suspend", "unsuspend", "added", "removed"},
               NEW gs \in SUBSET Repos, NEW e \in Nat, Tell(kind, i, gs, e)
        PROVE  deliveries' \subseteq Message
    BY <2>1 DEF Tell, Message, Shape, TypeOK
  <2>2. epoch[i] \in Nat /\ epoch[i] + 1 \in Nat
    BY DEF Shape, TypeOK
  <2>3. CASE Expire(i)
    BY <2>3 DEF Expire, github, Shape, TypeOK
  <2> QED BY <1>1, <2>1, <2>2, <2>3 DEF SwitchSuspension, Uninstall, Grant, Withdraw
<1>6. cache' \in [Insts -> SUBSET Token] /\ \A j \in Insts : Cardinality(cache'[j]) <= 1
  <2>1. CASE Expire(i)
    BY <2>1, FS_EmptySet DEF Expire, Shape, TypeOK
  <2>2. CASE cache' = cache
    BY <2>2 DEF Shape, TypeOK
  <2> QED BY <1>1, <2>1, <2>2 DEF SwitchSuspension, Uninstall, Grant, Withdraw, Change
<1> QED BY <1>2, <1>3, <1>4, <1>5, <1>6 DEF Shape, TypeOK, tables, Linked

(* Webhooks, and repositories that are no longer tracked. *)
LEMMA HookShape ==
    ASSUME Shape, HookStep \/ \E g \in Repos : DisableTracking(g)
    PROVE  Shape'
<1> USE DEF Shape
<1>0. /\ req \in [Slots -> Request] /\ UNCHANGED <<home, github, counts>>
    BY DEF TypeOK, HookStep, DropByHook, HookFails, ApplyDeleted, CommitRemoval, ApplySuspension, ApplyCreated,
           ApplyRepositories, DisableTracking, tables, history
<1>1. req' \in [Slots -> Request] /\ \A s \in Slots : Same(s)
  <2>1. CASE UNCHANGED req
    BY <1>0, <2>1 DEF Same
  <2>2. ASSUME NEW gs, NEW os, Cross(gs, os) PROVE <1>1
    BY <1>0, <2>2, Crossing
  <2>3. ASSUME NEW i, req' = Late(req, i) PROVE <1>1
    BY <1>0, <2>3, Lateness DEF Same
  <2> QED BY <2>1, <2>2, <2>3 DEF HookStep, DropByHook, HookFails, ApplyDeleted, CommitRemoval, ApplySuspension,
                ApplyCreated, ApplyRepositories, DisableTracking
<1>2. \A s \in Slots : Formed(s)'
    BY <1>0, <1>1, FormedStays
<1>3. /\ row' \in [Insts -> {"none", "active", "suspended"}] /\ link' \in [Orgs -> Insts \cup {None}]
      /\ \A o \in Orgs : link'[o] # None => row'[link'[o]] # "none" /\ Linked(link[o])' = {o}
  <2>1. CASE UNCHANGED <<row, link>>
    BY <2>1 DEF TypeOK, Linked
  <2>2. CASE CommitRemoval
    <3>1. PICK d \in removal :
              /\ row' = [row EXCEPT ![d.inst] = "none"]
              /\ link' = [o \in Orgs |-> IF link[o] = d.inst THEN None ELSE link[o]]
      BY <2>2 DEF CommitRemoval
    <3>2. d.inst \in Insts
      BY DEF TypeOK, Removal
    <3> QED BY <3>1, <3>2 DEF TypeOK, Linked
  <2>3. ASSUME NEW m \in deliveries, ApplySuspension(m) \/ ApplyCreated(m) PROVE <1>3
    BY <2>3 DEF ApplySuspension, ApplyCreated, SetSuspended, UpsertRow, TypeOK, Linked, Message
  <2> QED BY <2>1, <2>2, <2>3 DEF HookStep, DropByHook, HookFails, ApplyDeleted, ApplyRepositories,
                DisableTracking, tables
<1>4. tracked' \subseteq tracked /\ excused' \subseteq excused
    BY DEF HookStep, DropByHook, HookFails, ApplyDeleted, CommitRemoval, ApplySuspension, ApplyCreated,
           ApplyRepositories, DisableTracking, Untrack, tables, history
<1>5. /\ hook' \in SUBSET (Insts \X Nat) /\ floor' \in [Insts -> Nat] /\ taken' \subseteq Repos
  <2>1. CASE DropByHook
    BY <2>1 DEF DropByHook, TypeOK
  <2>2. CASE HookFails \/ CommitRemoval \/ \E g \in Repos : DisableTracking(g)
    BY <2>2 DEF HookFails, CommitRemoval, DisableTracking, history, TypeOK
  <2>3. ASSUME NEW m \in deliveries, ApplyDeleted(m) \/ ApplySuspension(m) PROVE <1>5
    BY <2>3 DEF ApplyDeleted, ApplySuspension, history, TypeOK
  <2>4. ASSUME NEW m \in deliveries, ApplyCreated(m) \/ ApplyRepositories(m) PROVE <1>5
    BY <2>4 DEF ApplyCreated, ApplyRepositories, history, TypeOK, Message
  <2> QED BY <2>1, <2>2, <2>3, <2>4 DEF HookStep
<1>6. cache' \in [Insts -> SUBSET Token] /\ \A j \in Insts : Cardinality(cache'[j]) <= 1
  <2>1. CASE DropByHook
    BY <2>1, FS_EmptySet DEF DropByHook, TypeOK
  <2>2. CASE cache' = cache
    BY <2>2 DEF TypeOK
  <2> QED BY <2>1, <2>2 DEF HookStep, HookFails, ApplyDeleted, CommitRemoval, ApplySuspension, ApplyCreated,
           ApplyRepositories, DisableTracking, tables, history
<1>7. removal' \subseteq Removal
  <2>1. CASE removal' \subseteq removal
    BY <2>1 DEF TypeOK
  <2>2. ASSUME NEW m \in deliveries, ApplyDeleted(m) PROVE <1>7
    BY <2>2 DEF ApplyDeleted, Removal, Linked, Stopped, ReposOf, Message, TypeOK
  <2> QED BY <2>1, <2>2 DEF HookStep, DropByHook, HookFails, CommitRemoval, ApplySuspension, ApplyCreated,
                ApplyRepositories, DisableTracking
<1>8. moved' \subseteq Orgs
    BY DEF HookStep, DropByHook, HookFails, ApplyDeleted, CommitRemoval, ApplySuspension, ApplyCreated,
           ApplyRepositories, DisableTracking, history, Linked, TypeOK
<1> QED BY <1>0, <1>1, <1>2, <1>3, <1>4, <1>5, <1>6, <1>7, <1>8 DEF TypeOK, github, counts

-----------------------------------------------------------------------------
(* The steps of a request. *)

(* The other requests are left alone. *)
Elsewhere(r) == req' \in [Slots -> Request] /\ \A s \in Slots \ {r} : req'[s] = req[s]

(* One request becomes q. *)
LEMMA Put ==
    ASSUME req \in [Slots -> Request], NEW r \in Slots, NEW q \in Request,
           req' = [req EXCEPT ![r] = q]
    PROVE  Elsewhere(r) /\ req'[r] = q
    BY DEF Elsewhere

(* A request begins. *)
LEMMA BeginEffect ==
    ASSUME req \in [Slots -> Request], NEW r \in Slots, NEW o \in Orgs,
           NEW op \in {"setup", "discover", "enable", "capture"},
           NEW g \in Repos \cup {None}, NEW i \in Insts \cup {None}, Begin(r, op, o, g, i)
    PROVE  /\ Elsewhere(r)
           /\ req'[r].pc = (IF op = "setup" THEN "list" ELSE "read")
           /\ req'[r].op = op /\ req'[r].org = o /\ req'[r].repo = g /\ req'[r].inst = i
<1>1. Idle \in Request
    BY DEF Idle, Request, NoToken, Token
<1> QED BY <1>1 DEF Begin, Elsewhere, Request

(* user_installation_ids: the request ends, or goes on with an id. *)
LEMMA ListEffect ==
    ASSUME req \in [Slots -> Request], NEW r \in Slots, ListInstallations(r)
    PROVE  /\ Elsewhere(r)
           /\ \/ req'[r] = Idle
              \/ /\ req'[r].pc = "meta" /\ req'[r].inst \in Insts /\ req'[r].op \in {"setup", "discover"}
                 /\ req'[r].op = req[r].op /\ req'[r].org = req[r].org
<1>1. CASE Goto(r, "off")
    BY <1>1, Going DEF Elsewhere
<1>2. CASE Goto(r, "meta") /\ req[r].op = "setup" /\ req[r].inst \in Visible(req[r].org)
    BY <1>2, Going DEF Elsewhere, Visible
<1>3. ASSUME NEW i \in Visible(req[r].org), req[r].op = "discover",
             req' = [req EXCEPT ![r] = [@ EXCEPT !.inst = i, !.pc = "meta"]]
      PROVE  /\ Elsewhere(r) /\ req'[r].pc = "meta" /\ req'[r].inst \in Insts
             /\ req'[r].op = req[r].op /\ req'[r].org = req[r].org
  <2> DEFINE q == [req[r] EXCEPT !.inst = i, !.pc = "meta"]
  <2>0. i \in Insts
    BY DEF Visible
  <2>1. q \in Request
    <3> DEFINE a == [req[r] EXCEPT !.inst = i]
    <3>1. a \in Request
        BY DEF Request, Visible
    <3> HIDE DEF a
    <3>2. [a EXCEPT !.pc = "meta"] \in Request
        BY <3>1 DEF Request
    <3> QED BY <3>2 DEF a
  <2>2. q.pc = "meta" /\ q.inst = i /\ q.op = req[r].op /\ q.org = req[r].org
    BY DEF Request
  <2>3. req' = [req EXCEPT ![r] = q]
    BY <1>3
  <2> QED BY <2>0, <2>1, <2>2, <2>3, Put
<1> QED BY <1>1, <1>2, <1>3 DEF ListInstallations

(* fetch_installation. *)
LEMMA FetchEffect ==
    ASSUME req \in [Slots -> Request], state \in [Insts -> {"active", "suspended", "gone"}],
           NEW r \in Slots, req[r].inst \in Insts, FetchInstallation(r)
    PROVE  /\ Elsewhere(r)
           /\ req'[r].pc = "upsert" /\ req'[r].inst = req[r].inst
           /\ req'[r].op = req[r].op /\ req'[r].org = req[r].org /\ req'[r].repo = req[r].repo
<1> DEFINE q == [req[r] EXCEPT !.seen = state[req[r].inst], !.pc = "upsert"]
<1>1. q \in Request
  <2> DEFINE a == [req[r] EXCEPT !.seen = state[req[r].inst]]
  <2>1. a \in Request
      BY DEF Request, FetchInstallation
  <2> HIDE DEF a
  <2>2. [a EXCEPT !.pc = "upsert"] \in Request
      BY <2>1 DEF Request
  <2> QED BY <2>2 DEF a
<1>2. q.pc = "upsert" /\ q.inst = req[r].inst /\ q.op = req[r].op /\ q.org = req[r].org /\ q.repo = req[r].repo
    BY DEF Request
<1>3. req' = [req EXCEPT ![r] = q]
    BY DEF FetchInstallation
<1> QED BY <1>1, <1>2, <1>3, Put

(* link_to_personal_organization: setup ends, discover asks for a token. *)
LEMMA LinkEffect ==
    ASSUME req \in [Slots -> Request], NEW r \in Slots, LinkOrganization(r)
    PROVE  /\ Elsewhere(r)
           /\ \/ req'[r] = Idle
              \/ /\ req'[r].pc = "read" /\ req'[r].op = req[r].op /\ req'[r].org = req[r].org
                 /\ req'[r].repo = req[r].repo
<1>1. Idle \in Request
    BY DEF Idle, Request, NoToken, Token
<1> QED BY <1>1 DEF LinkOrganization, Elsewhere, Request

(* organization_installation_id. *)
LEMMA ReadEffect ==
    ASSUME req \in [Slots -> Request], link \in [Orgs -> Insts \cup {None}],
           NEW r \in Slots, Workspace(r) \in Orgs, ReadLink(r)
    PROVE  /\ Elsewhere(r)
           /\ \/ req'[r] = Idle
              \/ /\ req'[r].op = req[r].op /\ req'[r].org = req[r].org /\ req'[r].repo = req[r].repo
                 /\ req'[r].crossed = req[r].crossed /\ req'[r].healed = req[r].healed
                 /\ \/ req'[r].pc = "list" /\ req[r].op = "discover"
                    \/ /\ req'[r].pc = (IF Fresh(r) THEN "drop" ELSE "get")
                       /\ link[Workspace(r)] # None /\ req'[r].inst = link[Workspace(r)]
                       /\ req'[r].inst \in Insts
<1> DEFINE i == link[Workspace(r)]
<1>1. CASE Goto(r, "off")
    BY <1>1, Going DEF Elsewhere
<1>2. CASE Goto(r, "list") /\ req[r].op = "discover"
    BY <1>2, Going DEF Elsewhere
<1>3. CASE i # None /\ req' = [req EXCEPT ![r] = [@ EXCEPT !.inst = i, !.pc = IF Fresh(r) THEN "drop" ELSE "get"]]
  <2>1. i \in Insts
    BY <1>3
  <2> DEFINE to == IF Fresh(r) THEN "drop" ELSE "get"
  <2>2. to \in {"drop", "get"}
    OBVIOUS
  <2> HIDE DEF to, i
  <2>3. req' = [req EXCEPT ![r] = [@ EXCEPT !.inst = i, !.pc = to]]
    BY <1>3 DEF to
  <2> DEFINE q == [req[r] EXCEPT !.inst = i, !.pc = to]
  <2>4. q \in Request
    <3> DEFINE a == [req[r] EXCEPT !.inst = i]
    <3>1. a \in Request
        BY <2>1 DEF Request
    <3> HIDE DEF a
    <3>2. [a EXCEPT !.pc = to] \in Request
        BY <2>2, <3>1 DEF Request
    <3> QED BY <3>2 DEF a
  <2>5. /\ q.op = req[r].op /\ q.org = req[r].org /\ q.repo = req[r].repo
        /\ q.crossed = req[r].crossed /\ q.healed = req[r].healed /\ q.pc = to /\ q.inst = i
    BY DEF Request
  <2>6. req' = [req EXCEPT ![r] = q]
    BY <2>3
  <2> HIDE DEF q
  <2>7. Elsewhere(r) /\ req'[r] = q
    BY <2>4, <2>6, Put
  <2> QED BY <1>3, <2>1, <2>5, <2>7 DEF i, to
<1> QED BY <1>1, <1>2, <1>3 DEF ReadLink

(* invalidate_installation_token: tokens on their way become late. *)
LEMMA DropEffect ==
    ASSUME req \in [Slots -> Request], epoch \in [Insts -> Nat], NEW r \in Slots,
           req[r].inst \in Insts, DropToken(r)
    PROVE  /\ req' \in [Slots -> Request]
           /\ req'[r].pc = "get" /\ req'[r].asked = epoch[req[r].inst]
           /\ req'[r].op = req[r].op /\ req'[r].org = req[r].org /\ req'[r].repo = req[r].repo
           /\ req'[r].inst = req[r].inst /\ req'[r].healed = req[r].healed
           /\ req'[r].crossed = req[r].crossed
           /\ \A s \in Slots \ {r} :
                 /\ Same(s) /\ req'[s].crossed = req[s].crossed
                 /\ req'[s].tok.scope = req[s].tok.scope /\ req'[s].tok.epoch = req[s].tok.epoch
                 /\ req[s].tok.late => req'[s].tok.late
                 /\ req'[s].tok = req[s].tok \/ (At(s, "store") /\ req[s].inst = req[r].inst)
                 /\ At(s, "store") /\ req[s].inst = req[r].inst => req'[s].tok.late
<1> DEFINE i == req[r].inst
           q == Late(req, i)
<1>1. i \in Insts /\ epoch[i] \in Nat /\ q \in [Slots -> Request]
    BY Lateness
<1>2. req' = [q EXCEPT ![r] = [@ EXCEPT !.pc = "get", !.asked = epoch[i]]]
    BY DEF DropToken
<1>3. /\ q[r].op = req[r].op /\ q[r].org = req[r].org /\ q[r].repo = req[r].repo
      /\ q[r].inst = req[r].inst /\ q[r].healed = req[r].healed /\ q[r].crossed = req[r].crossed
    BY Lateness
<1>4. \A s \in Slots : req[s] \in Request
    OBVIOUS
<1> HIDE DEF q
<1>5. /\ req' \in [Slots -> Request]
      /\ req'[r].pc = "get" /\ req'[r].asked = epoch[i]
      /\ req'[r].op = q[r].op /\ req'[r].org = q[r].org /\ req'[r].repo = q[r].repo
      /\ req'[r].inst = q[r].inst /\ req'[r].healed = q[r].healed /\ req'[r].crossed = q[r].crossed
      /\ \A s \in Slots \ {r} : req'[s] = q[s]
  <2> DEFINE x == [q[r] EXCEPT !.pc = "get", !.asked = epoch[i]]
  <2>1. x \in Request
    <3> DEFINE a == [q[r] EXCEPT !.pc = "get"]
    <3>1. a \in Request
        BY <1>1 DEF Request
    <3> HIDE DEF a
    <3>2. [a EXCEPT !.asked = epoch[i]] \in Request
        BY <1>1, <3>1 DEF Request
    <3> QED BY <3>2 DEF a
  <2>2. /\ x.pc = "get" /\ x.asked = epoch[i] /\ x.op = q[r].op /\ x.org = q[r].org
        /\ x.repo = q[r].repo /\ x.inst = q[r].inst /\ x.healed = q[r].healed
        /\ x.crossed = q[r].crossed
    BY <1>1 DEF Request
  <2>3. req' = [q EXCEPT ![r] = x]
    BY <1>2
  <2> HIDE DEF x
  <2> QED BY <1>1, <2>1, <2>2, <2>3
<1> QED BY <1>3, <1>5, Lateness DEF q, Same

(* installation_token: the cached token, or minting. *)
LEMMA GetEffect ==
    ASSUME req \in [Slots -> Request], cache \in [Insts -> SUBSET Token], NEW r \in Slots,
           req[r].inst \in Insts, GetToken(r)
    PROVE  /\ Elsewhere(r)
           /\ req'[r].op = req[r].op /\ req'[r].org = req[r].org /\ req'[r].repo = req[r].repo
           /\ req'[r].inst = req[r].inst /\ req'[r].healed = req[r].healed
           /\ req'[r].crossed = req[r].crossed /\ req'[r].asked = req[r].asked
           /\ \/ req'[r].pc = "mint"
              \/ req'[r].pc = "use" /\ req'[r].tok \in cache[req[r].inst]
<1>1. CASE Goto(r, "mint")
    BY <1>1, Going DEF Elsewhere
<1>2. ASSUME NEW t \in cache[req[r].inst], req' = [req EXCEPT ![r] = [@ EXCEPT !.tok = t, !.pc = "use"]]
      PROVE  /\ Elsewhere(r)
             /\ req'[r].op = req[r].op /\ req'[r].org = req[r].org /\ req'[r].repo = req[r].repo
             /\ req'[r].inst = req[r].inst /\ req'[r].healed = req[r].healed
             /\ req'[r].crossed = req[r].crossed /\ req'[r].asked = req[r].asked
             /\ req'[r].pc = "use" /\ req'[r].tok = t
  <2>1. t \in Token
    BY <1>2
  <2> DEFINE q == [req[r] EXCEPT !.tok = t, !.pc = "use"]
  <2>2. q \in Request
    <3> DEFINE a == [req[r] EXCEPT !.tok = t]
    <3>1. a \in Request
        BY <2>1 DEF Request
    <3> HIDE DEF a
    <3>2. [a EXCEPT !.pc = "use"] \in Request
        BY <3>1 DEF Request
    <3> QED BY <3>2 DEF a
  <2>3. /\ q.op = req[r].op /\ q.org = req[r].org /\ q.repo = req[r].repo
        /\ q.inst = req[r].inst /\ q.healed = req[r].healed
        /\ q.crossed = req[r].crossed /\ q.asked = req[r].asked /\ q.pc = "use" /\ q.tok = t
    BY DEF Request
  <2>4. req' = [req EXCEPT ![r] = q]
    BY <1>2
  <2> HIDE DEF q
  <2> QED BY <2>2, <2>3, <2>4, Put
<1> QED BY <1>1, <1>2 DEF GetToken

(* mint_installation_token: what GitHub grants now. *)
LEMMA MintEffect ==
    ASSUME req \in [Slots -> Request], granted \in [Insts -> SUBSET Repos], epoch \in [Insts -> Nat],
           NEW r \in Slots, req[r].inst \in Insts, MintToken(r)
    PROVE  /\ Elsewhere(r)
           /\ req'[r].op = req[r].op /\ req'[r].org = req[r].org /\ req'[r].repo = req[r].repo
           /\ req'[r].inst = req[r].inst /\ req'[r].healed = req[r].healed
           /\ req'[r].crossed = req[r].crossed /\ req'[r].asked = req[r].asked
           /\ req'[r].pc = "store"
           /\ req'[r].tok.scope = granted[req[r].inst] /\ req'[r].tok.epoch = epoch[req[r].inst]
           /\ req'[r].tok.late = FALSE
<1> DEFINE t == [scope |-> granted[req[r].inst], epoch |-> epoch[req[r].inst], late |-> FALSE]
<1>1. t \in Token
    BY DEF Token
<1>2. req' = [req EXCEPT ![r] = [@ EXCEPT !.pc = "store", !.tok = t]]
    BY DEF MintToken
<1>3. t.scope = granted[req[r].inst] /\ t.epoch = epoch[req[r].inst] /\ t.late = FALSE
    OBVIOUS
<1> HIDE DEF t
<1> DEFINE q == [req[r] EXCEPT !.pc = "store", !.tok = t]
<1>4. q \in Request
  <2> DEFINE a == [req[r] EXCEPT !.pc = "store"]
  <2>1. a \in Request
      BY DEF Request
  <2> HIDE DEF a
  <2>2. [a EXCEPT !.tok = t] \in Request
      BY <1>1, <2>1 DEF Request
  <2> QED BY <2>2 DEF a
<1>5. /\ q.op = req[r].op /\ q.org = req[r].org /\ q.repo = req[r].repo
      /\ q.inst = req[r].inst /\ q.healed = req[r].healed
      /\ q.crossed = req[r].crossed /\ q.asked = req[r].asked /\ q.pc = "store" /\ q.tok = t
    BY DEF Request
<1>6. req' = [req EXCEPT ![r] = q]
    BY <1>2
<1> HIDE DEF q
<1> QED BY <1>3, <1>4, <1>5, <1>6, Put

(* Shape after a step of r that changes no table and at most empties a     *)
(* cache.                                                                  *)
LEMMA LocalShape ==
    ASSUME Shape, NEW r \in Slots, UNCHANGED <<github, tables, hook, removal, moved, taken, excused, changes>>,
           req' \in [Slots -> Request], \A s \in Slots \ {r} : Same(s), Formed(r)',
           cache' \in [Insts -> SUBSET Token], \A i \in Insts : Cardinality(cache'[i]) <= 1,
           floor' \in [Insts -> Nat], requests' \in Nat
    PROVE  Shape'
<1>1. \A s \in Slots : Formed(s)'
    BY FormedStays DEF Shape, tables
<1> QED BY <1>1 DEF Shape, TypeOK, github, tables, Linked

(* Elsewhere means that the others are the same. *)
LEMMA ElsewhereSame ==
    ASSUME NEW r \in Slots, Elsewhere(r)
    PROVE  req' \in [Slots -> Request] /\ \A s \in Slots \ {r} : Same(s)
    BY DEF Elsewhere, Same

(* The steps that leave the tables alone. *)
LEMMA CallShape ==
    ASSUME Shape, NEW r \in Slots,
           \/ ListInstallations(r) \/ FetchInstallation(r) \/ ReadLink(r) \/ GetToken(r)
           \/ MintToken(r) \/ UseToken(r) \/ CheckAssignment(r) \/ Fail(r)
    PROVE  Shape'
<1> USE DEF WithInstallation, PastRead, PastDrop, WithToken
<1>1. UNCHANGED <<github, tables, cache, hook, removal, history, counts>>
    BY DEF ListInstallations, FetchInstallation, ReadLink, GetToken, MintToken, UseToken,
           CheckAssignment, Fail, Local
<1>2. req \in [Slots -> Request] /\ Formed(r) /\ home' = home
    BY <1>1 DEF Shape, TypeOK, tables
<1>3. Elsewhere(r) /\ Formed(r)'
  <2>1. CASE ListInstallations(r)
    BY <1>2, <2>1, ListEffect, IdleFormed DEF ListInstallations, Formed, At
  <2>2. CASE FetchInstallation(r)
    BY <1>2, <2>2, FetchEffect DEF FetchInstallation, Formed, At, Shape, TypeOK
  <2>3. CASE ReadLink(r)
    <3>1. Workspace(r) \in Orgs
      BY <1>2, <2>3 DEF ReadLink, Workspace, Formed, At
    <3> QED BY <1>2, <2>3, <3>1, ReadEffect, IdleFormed DEF ReadLink, Formed, At, Shape, TypeOK
  <2>4. CASE GetToken(r)
    BY <1>2, <2>4, GetEffect DEF GetToken, Formed, At, Shape, TypeOK
  <2>5. CASE MintToken(r)
    BY <1>2, <2>5, MintEffect DEF MintToken, Formed, At, Shape, TypeOK
  <2>6. CASE UseToken(r)
    BY <1>2, <2>6, Going, IdleFormed DEF UseToken, Formed, At, Elsewhere
  <2>7. CASE CheckAssignment(r)
    BY <1>2, <2>7, Going, IdleFormed DEF CheckAssignment, Formed, At, Elsewhere
  <2>8. CASE Fail(r)
    BY <1>2, <2>8, Going, IdleFormed DEF Fail, Elsewhere
  <2> QED BY <2>1, <2>2, <2>3, <2>4, <2>5, <2>6, <2>7, <2>8
<1>4. /\ cache' \in [Insts -> SUBSET Token] /\ \A i \in Insts : Cardinality(cache'[i]) <= 1
      /\ floor' \in [Insts -> Nat] /\ requests' \in Nat
      /\ UNCHANGED <<moved, taken, excused, changes>>
    BY <1>1 DEF Shape, TypeOK, history, counts
<1> QED BY <1>1, <1>3, <1>4, ElsewhereSame, LocalShape

(* A request begins, empties the cache, or fills it. *)
LEMMA CacheShape ==
    ASSUME Shape, NEW r \in Slots,
           \/ \E o \in Orgs : \/ \E i \in Insts : Begin(r, "setup", o, None, i)
                             \/ Begin(r, "discover", o, None, None)
                             \/ \E g \in Repos, op \in {"enable", "capture"} : Begin(r, op, o, g, None)
           \/ DropToken(r) \/ StoreToken(r)
    PROVE  Shape'
<1> USE DEF WithInstallation, PastRead, PastDrop, WithToken
<1>1. req \in [Slots -> Request] /\ Formed(r)
    BY DEF Shape, TypeOK
<1>2. ASSUME NEW o \in Orgs, NEW op \in {"setup", "discover", "enable", "capture"},
             NEW g \in Repos \cup {None}, NEW i \in Insts \cup {None}, Begin(r, op, o, g, i),
             op = "setup" => i \in Insts, op \in {"enable", "capture"} => g \in Repos
      PROVE  Shape'
  <2>1. UNCHANGED <<github, tables, cache, hook, removal, history, changes>> /\ requests' = requests - 1 /\ requests > 0
    BY <1>2 DEF Begin
  <2>2. Elsewhere(r) /\ Formed(r)'
    <3>1. home' = home /\ (op = "capture" => home[g] = o)
      BY <1>2, <2>1 DEF Begin, tables
    <3>2. /\ Elsewhere(r) /\ req'[r].pc = (IF op = "setup" THEN "list" ELSE "read")
          /\ req'[r].op = op /\ req'[r].org = o /\ req'[r].repo = g /\ req'[r].inst = i
      BY <1>1, <1>2, BeginEffect
    <3> QED BY <1>2, <3>1, <3>2 DEF Formed, At
  <2>3. /\ cache' \in [Insts -> SUBSET Token] /\ \A j \in Insts : Cardinality(cache'[j]) <= 1
        /\ floor' \in [Insts -> Nat] /\ requests' \in Nat
        /\ UNCHANGED <<moved, taken, excused>>
    BY <2>1 DEF Shape, TypeOK, history
  <2> QED BY <2>1, <2>2, <2>3, ElsewhereSame, LocalShape
<1>3. CASE DropToken(r)
  <2>0. req[r].inst \in Insts /\ epoch \in [Insts -> Nat] /\ epoch[req[r].inst] \in Nat
    BY <1>1, <1>3 DEF DropToken, Formed, At, Shape, TypeOK
  <2>1. /\ UNCHANGED <<github, tables, hook, removal, moved, taken, excused, counts>>
        /\ cache' = [cache EXCEPT ![req[r].inst] = {}]
        /\ floor' = [floor EXCEPT ![req[r].inst] = epoch[req[r].inst]]
    BY <1>3 DEF DropToken
  <2>2. req' \in [Slots -> Request] /\ \A s \in Slots \ {r} : Same(s)
    BY <1>1, <1>3, <2>0, DropEffect
  <2>3. Formed(r)'
    BY <1>1, <1>3, <2>0, <2>1, DropEffect DEF DropToken, Formed, At, tables
  <2>4. /\ cache' \in [Insts -> SUBSET Token] /\ \A j \in Insts : Cardinality(cache'[j]) <= 1
        /\ floor' \in [Insts -> Nat] /\ requests' \in Nat
    BY <2>0, <2>1, FS_EmptySet DEF Shape, TypeOK, counts
  <2>5. UNCHANGED <<changes, requests>>
    BY <2>1 DEF counts
  <2> QED BY <2>1, <2>2, <2>3, <2>4, <2>5, LocalShape
<1>4. CASE StoreToken(r)
  <2>0. req[r].inst \in Insts /\ req[r].tok \in Token
    BY <1>1, <1>4 DEF StoreToken, Formed, At, Request
  <2>1. /\ UNCHANGED <<github, tables, hook, removal, history, counts>>
        /\ cache' = [cache EXCEPT ![req[r].inst] = {req[r].tok}] \/ UNCHANGED cache
    BY <1>4 DEF StoreToken
  <2>2. Elsewhere(r) /\ Formed(r)'
    BY <1>1, <1>4, <2>1, Going DEF StoreToken, Formed, At, Elsewhere, tables
  <2>3. cache' \in [Insts -> SUBSET Token] /\ \A j \in Insts : Cardinality(cache'[j]) <= 1
    <3> DEFINE t == req[r].tok
    <3>1. Cardinality({t}) = 1
      <4> HIDE DEF t
      <4> QED BY FS_Singleton
    <3>2. Cardinality({t}) <= 1 /\ {t} \in SUBSET Token
      BY <2>0, <3>1
    <3>3. CASE UNCHANGED cache
      BY <3>3 DEF Shape, TypeOK
    <3>4. CASE cache' = [cache EXCEPT ![req[r].inst] = {t}]
      <4> HIDE DEF t
      <4>1. cache \in [Insts -> SUBSET Token] /\ \A j \in Insts : Cardinality(cache[j]) <= 1
        BY DEF Shape, TypeOK
      <4> QED BY <2>0, <3>2, <3>4, <4>1
    <3> QED BY <2>1, <3>3, <3>4
  <2>4. floor' \in [Insts -> Nat] /\ requests' \in Nat /\ UNCHANGED <<moved, taken, excused, changes>>
    BY <2>1 DEF Shape, TypeOK, history, counts
  <2> QED BY <2>1, <2>2, <2>3, <2>4, ElsewhereSame, LocalShape
<1> QED BY <1>2, <1>3, <1>4

(* The steps that write a table. *)
LEMMA WriteShape ==
    ASSUME Shape, NEW r \in Slots,
           UpsertInstallation(r) \/ LinkOrganization(r) \/ CommitTracking(r)
    PROVE  Shape'
<1> USE DEF WithInstallation, PastRead, PastDrop, WithToken
<1>1. req \in [Slots -> Request] /\ Formed(r)
    BY DEF Shape, TypeOK
<1>2. CASE UpsertInstallation(r)
  <2>1. /\ UNCHANGED <<github, link, home, tracked, cache, hook, removal, history, counts>>
        /\ row' = [row EXCEPT ![req[r].inst] = req[r].seen] /\ req[r].seen \in {"active", "suspended"}
    BY <1>1, <1>2 DEF UpsertInstallation, UpsertRow, Request
  <2>2. Elsewhere(r) /\ Formed(r)'
    BY <1>1, <1>2, <2>1, Going DEF UpsertInstallation, Formed, At, Elsewhere
  <2>3. \A s \in Slots : Formed(s)'
    BY <2>1, <2>2, ElsewhereSame, FormedStays DEF Shape
  <2>4. /\ row' \in [Insts -> {"none", "active", "suspended"}]
        /\ \A o \in Orgs : link'[o] # None => row'[link'[o]] # "none" /\ Linked(link[o])' = {o}
    BY <2>1 DEF Shape, TypeOK, Linked
  <2> QED BY <2>1, <2>2, <2>3, <2>4 DEF Shape, TypeOK, Elsewhere, github, history, counts
<1>3. CASE LinkOrganization(r)
  <2> DEFINE i == req[r].inst
             o == req[r].org
  <2>1. /\ UNCHANGED <<github, row, home, tracked, cache, hook, removal, floor, taken, excused, counts>>
        /\ i \in Insts /\ o \in Orgs /\ row[i] # "none"
        /\ link' = [p \in Orgs |-> IF p = o THEN i ELSE IF link[p] = i THEN None ELSE link[p]]
        /\ moved' = (moved \cup Linked(i)) \ {o}
    BY <1>1, <1>3 DEF LinkOrganization, LinkTo, Formed, At
  <2>2. Elsewhere(r) /\ Formed(r)'
    BY <1>1, <1>3, <2>1, LinkEffect, IdleFormed DEF LinkOrganization, Formed, At
  <2>3. \A s \in Slots : Formed(s)'
    BY <2>1, <2>2, ElsewhereSame, FormedStays DEF Shape
  <2> HIDE DEF i, o
  <2>4. /\ link' \in [Orgs -> Insts \cup {None}]
        /\ \A p \in Orgs : link'[p] # None => row'[link'[p]] # "none" /\ Linked(link[p])' = {p}
    BY <2>1, InstallationConstants DEF Shape, TypeOK, Linked
  <2>5. moved' \subseteq Orgs
    BY <2>1 DEF Shape, TypeOK, Linked
  <2> QED BY <2>1, <2>2, <2>3, <2>4, <2>5 DEF Shape, TypeOK, Elsewhere, github, history, counts
<1>4. CASE CommitTracking(r)
  <2> DEFINE g == req[r].repo
             o == req[r].org
  <2>1. /\ UNCHANGED <<github, row, link, cache, hook, removal, floor, moved, taken, counts>>
        /\ g \in Repos /\ o \in Orgs /\ home[g] \in {None, o}
        /\ home' = [home EXCEPT ![g] = o] /\ tracked' = tracked \cup {g}
        /\ excused' \subseteq excused \cup {g}
    BY <1>1, <1>4 DEF CommitTracking, Excuse, Formed, At
  <2>2. Elsewhere(r) /\ req'[r] = Idle
    BY <1>1, <1>4, Going DEF CommitTracking, Elsewhere
  <2> HIDE DEF g, o
  <2>3. /\ home' \in [Repos -> Orgs \cup {None}]
        /\ \A h \in Repos : home[h] \in Orgs => home'[h] \in Orgs
        /\ tracked' \subseteq {h \in Repos : home'[h] # None}
    BY <2>1, InstallationConstants DEF Shape, TypeOK
  <2>4. \A s \in Slots : Formed(s)'
    BY <2>2, <2>3, ElsewhereSame, FormedStays, IdleFormed DEF Shape
  <2>5. excused' \subseteq Repos
    BY <2>1 DEF Shape, TypeOK
  <2> QED BY <2>1, <2>2, <2>3, <2>4, <2>5 DEF Shape, TypeOK, Elsewhere, github, history, counts, Linked
<1> QED BY <1>2, <1>3, <1>4

(* Every step keeps the shape. *)
LEMMA StepShape == Shape /\ [Next]_vars => Shape'
<1> SUFFICES ASSUME Shape, [Next]_vars PROVE Shape'
    OBVIOUS
<1>1. CASE UNCHANGED vars
  <2>1. \A s \in Slots : Formed(s)'
    BY <1>1, FormedStays DEF Shape, Same, vars, tables
  <2> QED BY <1>1, <2>1 DEF Shape, TypeOK, vars, github, tables, history, counts, Linked
<1>2. ASSUME NEW r \in Slots, RequestStep(r) PROVE Shape'
    BY <1>2, CallShape, CacheShape, WriteShape DEF RequestStep
<1> QED BY <1>1, <1>2, HubShape, HookShape DEF Next

(* The type invariant, with the uniqueness of an installation's workspace. *)
THEOREM InstallationTypes == Spec => []TypeOK
<1>1. Shape => TypeOK
    BY DEF Shape
<1> QED BY <1>1, InitShape, StepShape, PTL DEF Spec

(* A repository stays with the workspace that tracked it first: only the   *)
(* upsert of enable_tracking writes organization_id, and for a row that    *)
(* has one it asks that the workspace be the same.                         *)
THEOREM RepositoriesStay == Spec => RepositoryStays
<1>1. Shape /\ [Next]_vars => [\A g \in Repos : home[g] # None => home'[g] = home[g]]_vars
  <2> SUFFICES ASSUME Shape, Next, NEW g \in Repos, home[g] # None PROVE home'[g] = home[g]
    OBVIOUS
  <2>1. CASE UNCHANGED home
    BY <2>1
  <2>2. ASSUME NEW r \in Slots, CommitTracking(r) PROVE home'[g] = home[g]
    BY <2>2 DEF CommitTracking, Shape, TypeOK
  <2>3. CASE HubStep
    BY <2>1, <2>3 DEF HubStep, SwitchSuspension, Uninstall, Expire, Grant, Withdraw, Change, tables
  <2>4. CASE HookStep \/ \E h \in Repos : DisableTracking(h)
    BY <2>1, <2>4 DEF HookStep, DropByHook, HookFails, ApplyDeleted, CommitRemoval, ApplySuspension, ApplyCreated,
           ApplyRepositories, DisableTracking, tables
  <2>5. ASSUME NEW r \in Slots, RequestStep(r) PROVE home'[g] = home[g]
    BY <2>1, <2>2, <2>5 DEF RequestStep, Begin, ListInstallations, FetchInstallation, UpsertInstallation,
           LinkOrganization, ReadLink, DropToken, GetToken, MintToken, StoreToken, UseToken,
           CheckAssignment, Fail, Local, tables
  <2> QED BY <2>3, <2>4, <2>5 DEF Next
<1> QED BY <1>1, InitShape, StepShape, PTL DEF Spec, RepositoryStays

-----------------------------------------------------------------------------
(* TokenInv: a token on its way to the cache is not older than the last    *)
(* emptying, or it is late; what a request asked for is not newer.         *)

Timely(r) ==
    /\ At(r, "store") /\ ~req[r].tok.late => req[r].tok.epoch >= floor[req[r].inst]
    /\ req[r].pc \in {"get", "mint", "store"} /\ Fresh(r) => req[r].asked <= floor[req[r].inst]
    /\ req[r].pc \in {"use", "assign", "commit"} /\ Fresh(r) /\ ~req[r].tok.late
          => req[r].tok.epoch >= req[r].asked

TokenInv ==
    /\ CacheIsCurrent
    /\ \A i \in Insts : floor[i] <= epoch[i]
    /\ \A m \in deliveries : m.epoch <= epoch[m.inst]
    /\ \A d \in hook : d[2] <= epoch[d[1]]
    /\ \A r \in Slots : Timely(r)

(* What the types say of a request's numbers. *)
LEMMA Held ==
    ASSUME Shape, NEW s \in Slots
    PROVE  /\ req[s].asked \in Nat /\ req[s].tok \in Token /\ req[s].tok.epoch \in Nat
           /\ req[s].tok.late \in BOOLEAN /\ req[s].tok.scope \in SUBSET Repos
           /\ req[s].pc \in PastRead => req[s].inst \in Insts
<1>1. req[s] \in Request /\ Formed(s)
    BY DEF Shape, TypeOK
<1>2. req[s].asked \in Nat /\ req[s].tok \in Token
    BY <1>1 DEF Request
<1>3. req[s].tok.epoch \in Nat /\ req[s].tok.late \in BOOLEAN /\ req[s].tok.scope \in SUBSET Repos
    BY <1>2 DEF Token
<1> QED BY <1>1, <1>2, <1>3 DEF Formed, WithInstallation

(* A request that is left alone, while a floor rises only for the tokens   *)
(* that become late.                                                       *)
LEMMA TimelyStays ==
    ASSUME Shape, NEW s \in Slots, Timely(s), Same(s),
           req'[s].tok.epoch = req[s].tok.epoch, req[s].tok.late => req'[s].tok.late,
           \A i \in Insts : floor'[i] \in Nat /\ floor'[i] >= floor[i],
           At(s, "store") /\ ~req'[s].tok.late => floor'[req[s].inst] = floor[req[s].inst]
    PROVE  Timely(s)'
<1>1. Fresh(s)' <=> Fresh(s)
    BY DEF Fresh, Same
<1>2. req[s].asked \in Nat /\ req[s].tok.epoch \in Nat /\ floor \in [Insts -> Nat]
    BY Held DEF Shape, TypeOK
<1>3. req[s].pc \in {"get", "mint", "store", "use", "assign", "commit"} => req[s].inst \in Insts
    BY Held DEF PastRead, PastDrop, WithToken
<1>4. At(s, "store")' /\ ~req'[s].tok.late => req'[s].tok.epoch >= floor'[req'[s].inst]
    BY DEF Timely, Same, At
<1>5. req'[s].pc \in {"get", "mint", "store"} /\ Fresh(s)' => req'[s].asked <= floor'[req'[s].inst]
  <2> SUFFICES ASSUME req'[s].pc \in {"get", "mint", "store"}, Fresh(s)' PROVE req'[s].asked <= floor'[req'[s].inst]
    OBVIOUS
  <2>1. req[s].asked <= floor[req[s].inst] /\ req[s].inst \in Insts
    BY <1>1, <1>3 DEF Timely, Same
  <2>2. floor[req[s].inst] \in Nat /\ floor'[req[s].inst] \in Nat /\ floor'[req[s].inst] >= floor[req[s].inst]
    BY <1>2, <2>1
  <2>3. req'[s].asked = req[s].asked /\ req'[s].inst = req[s].inst
    BY DEF Same
  <2> QED BY <1>2, <2>1, <2>2, <2>3
<1>6. req'[s].pc \in {"use", "assign", "commit"} /\ Fresh(s)' /\ ~req'[s].tok.late
          => req'[s].tok.epoch >= req'[s].asked
    BY <1>1 DEF Timely, Same
<1> QED BY <1>4, <1>5, <1>6 DEF Timely

(* A request without a token. *)
LEMMA TimelyElsewhere ==
    ASSUME NEW s \in Slots, req'[s].pc \notin PastDrop
    PROVE  Timely(s)'
    BY DEF Timely, At, PastDrop, WithToken

(* The initial state. *)
LEMMA InitTokens == Init => TokenInv
    BY DEF Init, TokenInv, CacheIsCurrent, Timely, At, Idle

(* Changes on GitHub only raise epochs, and tell of the new one. *)
LEMMA HubTokens ==
    ASSUME Shape, TokenInv, HubStep
    PROVE  TokenInv'
<1>1. PICK i \in Insts :
          \/ SwitchSuspension(i) \/ Uninstall(i) \/ Expire(i)
          \/ \E g \in Repos : Grant(i, g) \/ Withdraw(i, g)
    BY DEF HubStep
<1>2. UNCHANGED <<req, hook, removal, floor>>
    BY <1>1 DEF SwitchSuspension, Uninstall, Expire, Grant, Withdraw, Change, history, counts
<1>3. \A j \in Insts : epoch'[j] \in Nat /\ epoch[j] \in Nat /\ epoch'[j] >= epoch[j]
  <2>1. epoch \in [Insts -> Nat]
    BY DEF Shape, TypeOK
  <2>2. epoch' = epoch \/ epoch' = [epoch EXCEPT ![i] = @ + 1]
    BY <1>1 DEF SwitchSuspension, Uninstall, Expire, Grant, Withdraw, github
  <2> QED BY <2>1, <2>2
<1>4. \A m \in deliveries' : m \in deliveries \/ (m.inst = i /\ m.epoch = epoch'[i])
  <2>1. CASE Expire(i)
    BY <2>1 DEF Expire, github
  <2>2. CASE SwitchSuspension(i) \/ Uninstall(i)
    BY <2>2 DEF SwitchSuspension, Uninstall, Tell
  <2>3. ASSUME NEW g \in Repos, Grant(i, g) \/ Withdraw(i, g) PROVE <1>4
    BY <2>3 DEF Grant, Withdraw, Tell, Shape, TypeOK
  <2> QED BY <1>1, <2>1, <2>2, <2>3
<1>5. \A m \in deliveries : m.inst \in Insts /\ m.epoch \in Nat
    BY DEF Shape, TypeOK, Message
<1>6. \A m \in deliveries' : m.epoch <= epoch'[m.inst]
    BY <1>3, <1>4, <1>5 DEF TokenInv
<1>7. \A d \in hook' : d[2] <= epoch'[d[1]]
  <2>1. \A d \in hook : d[1] \in Insts /\ d[2] \in Nat
    BY DEF Shape, TypeOK
  <2> QED BY <1>2, <1>3, <2>1 DEF TokenInv
<1>8. \A j \in Insts : floor'[j] <= epoch'[j]
  <2>1. \A j \in Insts : floor[j] \in Nat
    BY DEF Shape, TypeOK
  <2> QED BY <1>2, <1>3, <2>1 DEF TokenInv
<1>9. \A j \in Insts : cache'[j] \subseteq cache[j]
    BY <1>1 DEF SwitchSuspension, Uninstall, Expire, Grant, Withdraw, Change, Shape, TypeOK
<1>10. \A r \in Slots : Timely(r)'
    BY <1>2 DEF TokenInv, Timely, At, Fresh
<1> QED BY <1>2, <1>6, <1>7, <1>8, <1>9, <1>10 DEF TokenInv, CacheIsCurrent

(* Webhooks: what is dropped is dropped for a change that has been made. *)
LEMMA HookTokens ==
    ASSUME Shape, TokenInv, HookStep \/ \E g \in Repos : DisableTracking(g)
    PROVE  TokenInv'
<1>0. /\ req \in [Slots -> Request] /\ UNCHANGED <<epoch, deliveries>>
      /\ \A i \in Insts : floor[i] \in Nat /\ epoch[i] \in Nat
    BY DEF Shape, TypeOK, HookStep, DropByHook, HookFails, ApplyDeleted, CommitRemoval, ApplySuspension, ApplyCreated,
           ApplyRepositories, DisableTracking, github
<1>1. CASE DropByHook
  <2>1. PICK d \in hook :
          /\ hook' = {}
          /\ cache' = [cache EXCEPT ![d[1]] = {}]
          /\ req' = Late(req, d[1])
          /\ floor' = [floor EXCEPT ![d[1]] = IF @ < d[2] THEN d[2] ELSE @]
    BY <1>1 DEF DropByHook
  <2>2. d[1] \in Insts /\ d[2] \in Nat /\ d[2] <= epoch[d[1]]
    BY DEF Shape, TypeOK, TokenInv
  <2>3. \A i \in Insts : /\ floor'[i] \in Nat /\ floor'[i] >= floor[i]
                          /\ floor'[i] <= epoch'[i] /\ (i # d[1] => floor'[i] = floor[i])
    BY <1>0, <2>1, <2>2 DEF Shape, TypeOK, TokenInv
  <2>4. \A s \in Slots : Timely(s)'
    <3> SUFFICES ASSUME NEW s \in Slots PROVE Timely(s)'
      OBVIOUS
    <3>1. /\ Same(s) /\ req'[s].tok.epoch = req[s].tok.epoch /\ (req[s].tok.late => req'[s].tok.late)
          /\ At(s, "store") /\ ~req'[s].tok.late => req[s].inst # d[1]
      BY <1>0, <2>1, Lateness DEF Same
    <3>2. At(s, "store") => req[s].inst \in Insts
      BY Held DEF At, PastRead, PastDrop, WithToken
    <3> QED BY <2>3, <3>1, <3>2, TimelyStays DEF TokenInv
  <2>5. CacheIsCurrent'
    BY <2>1, <2>2, <2>3 DEF TokenInv, CacheIsCurrent, Shape, TypeOK
  <2> QED BY <1>0, <2>1, <2>3, <2>4, <2>5 DEF TokenInv
<1>2. CASE ~DropByHook /\ UNCHANGED <<cache, floor>>
  <2>1. \A s \in Slots : Same(s) /\ req'[s].tok = req[s].tok
    <3>1. CASE UNCHANGED req
      BY <3>1 DEF Same
    <3>2. ASSUME NEW gs, NEW os, Cross(gs, os) PROVE <2>1
      BY <1>0, <3>2, Crossing
    <3> QED BY <1>2, <3>1, <3>2 DEF HookStep, HookFails, ApplyDeleted, CommitRemoval,
                ApplySuspension, ApplyCreated, ApplyRepositories, DisableTracking
  <2>2. \A s \in Slots : Timely(s)'
    BY <1>0, <1>2, <2>1, TimelyStays DEF TokenInv
  <2>3. \A d \in hook' : d[2] <= epoch'[d[1]]
    <3>1. \A m \in deliveries : m.epoch <= epoch[m.inst]
      BY DEF TokenInv
    <3>2. CASE hook' \subseteq hook
      BY <1>0, <3>2 DEF TokenInv
    <3>3. ASSUME NEW m \in deliveries, hook' = {<<m.inst, m.epoch>>} PROVE <2>3
      BY <1>0, <3>1, <3>3
    <3> QED BY <3>2, <3>3 DEF HookStep, DropByHook, HookFails, ApplyDeleted, CommitRemoval,
                ApplySuspension, ApplyCreated, ApplyRepositories, DisableTracking
  <2> QED BY <1>0, <1>2, <2>2, <2>3 DEF TokenInv, CacheIsCurrent
<1> QED BY <1>1, <1>2 DEF HookStep, HookFails, ApplyDeleted, CommitRemoval, ApplySuspension, ApplyCreated,
           ApplyRepositories, DisableTracking, history

(* TokenInv after a step of r that leaves GitHub, the cache and the floor  *)
(* alone.                                                                  *)
LEMMA LocalTokens ==
    ASSUME Shape, TokenInv, NEW r \in Slots, Elsewhere(r), Timely(r)',
           UNCHANGED <<github, hook, removal, cache, floor>>
    PROVE  TokenInv'
<1>1. \A i \in Insts : floor[i] \in Nat
    BY DEF Shape, TypeOK
<1>2. \A s \in Slots : Timely(s)'
  <2> SUFFICES ASSUME NEW s \in Slots \ {r} PROVE Timely(s)'
    OBVIOUS
  <2>1. Same(s) /\ req'[s].tok = req[s].tok
    BY DEF Elsewhere, Same
  <2> QED BY <1>1, <2>1, TimelyStays DEF TokenInv
<1> QED BY <1>2 DEF TokenInv, CacheIsCurrent, github

(* The steps of a request. *)
LEMMA RequestTokens ==
    ASSUME Shape, TokenInv, NEW r \in Slots, RequestStep(r)
    PROVE  TokenInv'
<1> USE DEF PastRead, PastDrop, WithToken
<1>1. /\ req \in [Slots -> Request] /\ Formed(r) /\ Timely(r) /\ Idle.pc = "off"
      /\ \A i \in Insts : floor[i] \in Nat /\ epoch[i] \in Nat /\ floor[i] <= epoch[i]
    BY DEF Shape, TypeOK, TokenInv, Idle
<1>2. ASSUME NEW o \in Orgs, NEW op \in {"setup", "discover", "enable", "capture"},
             NEW g \in Repos \cup {None}, NEW i \in Insts \cup {None}, Begin(r, op, o, g, i)
      PROVE  TokenInv'
  <2>1. Elsewhere(r) /\ Timely(r)'
    BY <1>1, <1>2, BeginEffect, TimelyElsewhere
  <2> QED BY <1>2, <2>1, LocalTokens DEF Begin, history
<1>3. CASE ListInstallations(r) \/ FetchInstallation(r)
  <2>1. Elsewhere(r) /\ req'[r].pc \in {"off", "meta", "upsert"}
    BY <1>1, <1>3, ListEffect, FetchEffect DEF FetchInstallation, Formed, At, WithInstallation, Shape, TypeOK
  <2> QED BY <1>3, <2>1, LocalTokens, TimelyElsewhere DEF ListInstallations, FetchInstallation, Local, history
<1>4. CASE LinkOrganization(r)
  <2>1. Elsewhere(r) /\ req'[r].pc \in {"off", "read"}
    BY <1>1, <1>4, LinkEffect
  <2> QED BY <1>4, <2>1, LocalTokens, TimelyElsewhere DEF LinkOrganization
<1>5. CASE ReadLink(r)
  <2>1. Workspace(r) \in Orgs
    BY <1>1, <1>5 DEF ReadLink, Workspace, Formed, At
  <2>2. Elsewhere(r) /\ UNCHANGED <<github, hook, removal, cache, floor>>
    BY <1>1, <1>5, <2>1, ReadEffect DEF ReadLink, Local, history, Shape, TypeOK
  <2>3. CASE Fresh(r)
    <3>1. req'[r].pc \in {"off", "list", "drop"}
      BY <1>1, <1>5, <2>1, <2>3, ReadEffect DEF Shape, TypeOK
    <3> QED BY <2>2, <3>1, LocalTokens, TimelyElsewhere
  <2>4. CASE ~Fresh(r)
    <3>1. req'[r].pc \in {"off", "list"} \/ (req'[r].pc = "get" /\ ~Fresh(r)')
      BY <1>1, <1>5, <2>1, <2>4, ReadEffect DEF Shape, TypeOK, Fresh
    <3>2. Timely(r)'
      BY <3>1 DEF Timely, At
    <3> QED BY <2>2, <3>2, LocalTokens
  <2> QED BY <2>3, <2>4
<1>6. CASE DropToken(r)
  <2> DEFINE i == req[r].inst
  <2>1. i \in Insts /\ epoch \in [Insts -> Nat] /\ floor \in [Insts -> Nat] /\ cache \in [Insts -> SUBSET Token]
    BY <1>1, <1>6, Held DEF DropToken, At, Shape, TypeOK
  <2>2. /\ UNCHANGED <<github, hook, removal>>
        /\ cache' = [cache EXCEPT ![i] = {}] /\ floor' = [floor EXCEPT ![i] = epoch[i]]
    BY <1>6 DEF DropToken
  <2>3. \A j \in Insts : /\ floor'[j] \in Nat /\ floor'[j] >= floor[j] /\ floor'[j] <= epoch[j]
                          /\ (j # i => floor'[j] = floor[j] /\ cache'[j] = cache[j])
                          /\ (j = i => floor'[j] = epoch[j] /\ cache'[j] = {})
    BY <1>1, <2>1, <2>2
  <2>4. ASSUME NEW s \in Slots \ {r} PROVE Timely(s)'
    <3>1. /\ Same(s) /\ req'[s].tok.epoch = req[s].tok.epoch /\ (req[s].tok.late => req'[s].tok.late)
          /\ At(s, "store") /\ ~req'[s].tok.late => req[s].inst # i
      BY <1>1, <1>6, <2>1, DropEffect
    <3>2. At(s, "store") => req[s].inst \in Insts
      BY Held DEF At
    <3> QED BY <2>3, <3>1, <3>2, TimelyStays DEF TokenInv
  <2>5. Timely(r)'
    <3>1. req'[r].pc = "get" /\ req'[r].asked = epoch[i] /\ req'[r].inst = i
      BY <1>1, <1>6, <2>1, DropEffect
    <3>2. floor'[i] = epoch[i] /\ epoch[i] \in Nat
      BY <1>1, <2>1, <2>3
    <3> QED BY <3>1, <3>2 DEF Timely, At
  <2>6. CacheIsCurrent'
    BY <2>3 DEF TokenInv, CacheIsCurrent
  <2> QED BY <2>2, <2>3, <2>4, <2>5, <2>6 DEF TokenInv, github
<1>7. CASE GetToken(r)
  <2>1. /\ At(r, "get") /\ req[r].inst \in Insts /\ cache \in [Insts -> SUBSET Token]
        /\ UNCHANGED <<github, hook, removal, cache, floor>>
    BY <1>7, Held DEF GetToken, At, Local, history, Shape, TypeOK
  <2>2. /\ Elsewhere(r) /\ req'[r].inst = req[r].inst /\ req'[r].asked = req[r].asked
        /\ req'[r].op = req[r].op /\ req'[r].healed = req[r].healed
        /\ req'[r].pc = "mint" \/ (req'[r].pc = "use" /\ req'[r].tok \in cache[req[r].inst])
    BY <1>1, <1>7, <2>1, GetEffect
  <2>3. Fresh(r)' <=> Fresh(r)
    BY <2>2 DEF Fresh
  <2>4. CASE req'[r].pc = "mint"
    BY <1>1, <2>1, <2>2, <2>3, <2>4, LocalTokens DEF Timely, At
  <2>5. CASE req'[r].pc = "use" /\ req'[r].tok \in cache[req[r].inst]
    <3> DEFINE t == req'[r].tok
    <3>1. t \in Token /\ t.epoch \in Nat
      BY <2>1, <2>5 DEF Token
    <3>2. ~t.late => t.epoch >= floor[req[r].inst]
      BY <2>1, <2>5 DEF TokenInv, CacheIsCurrent
    <3>3. Fresh(r) => req[r].asked <= floor[req[r].inst]
      BY <1>1, <2>1 DEF Timely, At
    <3>4. req[r].asked \in Nat /\ floor[req[r].inst] \in Nat
      BY <1>1, <2>1, Held
    <3>5. Fresh(r)' /\ ~req'[r].tok.late => req'[r].tok.epoch >= req'[r].asked
      BY <2>2, <2>3, <3>1, <3>2, <3>3, <3>4
    <3> QED BY <2>1, <2>2, <2>5, <3>5, LocalTokens DEF Timely, At
  <2> QED BY <2>2, <2>4, <2>5
<1>8. CASE MintToken(r)
  <2>1. /\ At(r, "mint") /\ req[r].inst \in Insts /\ UNCHANGED <<github, hook, removal, cache, floor>>
    BY <1>8, Held DEF MintToken, At, Local, history
  <2>2. /\ Elsewhere(r) /\ req'[r].inst = req[r].inst /\ req'[r].asked = req[r].asked
        /\ req'[r].op = req[r].op /\ req'[r].healed = req[r].healed
        /\ req'[r].pc = "store" /\ req'[r].tok.epoch = epoch[req[r].inst]
    BY <1>1, <1>8, <2>1, MintEffect DEF Shape, TypeOK
  <2>3. Fresh(r)' <=> Fresh(r)
    BY <2>2 DEF Fresh
  <2>4. epoch[req[r].inst] >= floor[req[r].inst]
    BY <1>1, <2>1
  <2> QED BY <1>1, <2>1, <2>2, <2>3, <2>4, LocalTokens DEF Timely, At
<1>9. CASE StoreToken(r)
  <2>1. /\ At(r, "store") /\ req[r].inst \in Insts /\ UNCHANGED <<github, hook, removal, floor>>
        /\ cache' = [cache EXCEPT ![req[r].inst] = {req[r].tok}] \/ UNCHANGED cache
    BY <1>9, Held DEF StoreToken, At, history
  <2>2. /\ Elsewhere(r) /\ req'[r].inst = req[r].inst /\ req'[r].asked = req[r].asked
        /\ req'[r].op = req[r].op /\ req'[r].healed = req[r].healed /\ req'[r].tok = req[r].tok
        /\ req'[r].pc = "use"
    BY <1>1, <1>9, Going DEF StoreToken, Elsewhere
  <2>3. Fresh(r)' <=> Fresh(r)
    BY <2>2 DEF Fresh
  <2>4. Timely(r)'
    <3>1. /\ ~req[r].tok.late => req[r].tok.epoch >= floor[req[r].inst]
          /\ Fresh(r) => req[r].asked <= floor[req[r].inst]
      BY <1>1, <2>1 DEF Timely, At
    <3>2. req[r].asked \in Nat /\ floor[req[r].inst] \in Nat /\ req[r].tok.epoch \in Nat
      BY <1>1, <2>1, Held
    <3>3. Fresh(r) /\ ~req[r].tok.late => req[r].tok.epoch >= req[r].asked
      BY <3>1, <3>2
    <3> QED BY <2>2, <2>3, <3>3 DEF Timely, At
  <2>5. CacheIsCurrent'
    BY <1>1, <2>1 DEF TokenInv, CacheIsCurrent, Timely, Shape, TypeOK
  <2>6. \A s \in Slots \ {r} : Timely(s)'
    <3> SUFFICES ASSUME NEW s \in Slots \ {r} PROVE Timely(s)'
      OBVIOUS
    <3>1. Same(s) /\ req'[s].tok = req[s].tok
      BY <2>2 DEF Elsewhere, Same
    <3> QED BY <1>1, <2>1, <3>1, TimelyStays DEF TokenInv
  <2> QED BY <2>1, <2>4, <2>5, <2>6 DEF TokenInv, github
<1>10. CASE UseToken(r) \/ CheckAssignment(r)
  <2>1. UNCHANGED <<github, hook, removal, cache, floor>>
    BY <1>10 DEF UseToken, CheckAssignment, Local, history
  <2>2. /\ Elsewhere(r) 
        /\ \/ req'[r].pc = "off"
           \/ /\ req[r].pc \in {"use", "assign"} /\ req'[r].pc \in {"assign", "commit"}
              /\ req'[r].asked = req[r].asked /\ req'[r].op = req[r].op /\ req'[r].healed = req[r].healed
              /\ req'[r].tok = req[r].tok
    BY <1>1, <1>10, Going DEF UseToken, CheckAssignment, Elsewhere, At
  <2>3. Timely(r)'
    BY <1>1, <2>2 DEF Timely, At, Fresh
  <2> QED BY <2>1, <2>2, <2>3, LocalTokens
<1>11. CASE UpsertInstallation(r) \/ CommitTracking(r) \/ Fail(r)
  <2>1. UNCHANGED <<github, hook, removal, cache, floor>>
    BY <1>11 DEF UpsertInstallation, CommitTracking, Fail, Local, history
  <2>2. Elsewhere(r) /\ req'[r].pc \in {"off", "link"}
    BY <1>1, <1>11, Going DEF UpsertInstallation, CommitTracking, Fail, Elsewhere
  <2> QED BY <2>1, <2>2, LocalTokens, TimelyElsewhere
<1> QED BY <1>2, <1>3, <1>4, <1>5, <1>6, <1>7, <1>8, <1>9, <1>10, <1>11 DEF RequestStep

(* Every step keeps the tokens in order. *)
LEMMA StepTokens == Shape /\ TokenInv /\ [Next]_vars => TokenInv'
<1> SUFFICES ASSUME Shape, TokenInv, [Next]_vars PROVE TokenInv'
    OBVIOUS
<1>1. CASE UNCHANGED vars
    BY <1>1 DEF vars, github, history, TokenInv, CacheIsCurrent, Timely, At, Fresh
<1> QED BY <1>1, HubTokens, HookTokens, RequestTokens DEF Next

(* Shape and TokenInv together. *)
LEMMA TokensHold == Spec => [](Shape /\ TokenInv)
    BY InitShape, InitTokens, StepShape, StepTokens, PTL DEF Spec

(* The cached token is not older than the last change whose webhook was    *)
(* applied, unless it was stored after the cache had been emptied.         *)
THEOREM CacheStaysCurrent == Spec => []CacheIsCurrent
<1>1. Shape /\ TokenInv => CacheIsCurrent
    BY DEF TokenInv
<1> QED BY <1>1, TokensHold, PTL

(* The token that discovery and enable_tracking use is not older than      *)
(* their request, with the same exception.                                 *)
THEOREM FreshTokensAreFresh == Spec => []FreshTokenIsFresh
<1>1. Shape /\ TokenInv => FreshTokenIsFresh
    BY DEF TokenInv, FreshTokenIsFresh, Timely, At
<1> QED BY <1>1, TokensHold, PTL

-----------------------------------------------------------------------------
(* ServedInv: a request to track that has read its workspace's link still  *)
(* has one, unless the link was taken over or a removal crossed it; and    *)
(* what is tracked in a workspace that an open removal has been through is *)
(* stopped by it, or was tracked since.                                    *)

Served(r) ==
    req[r].op = "enable" /\ req[r].pc \in PastRead /\ ~req[r].crossed
        => link[req[r].org] # None \/ req[r].org \in moved

Stopping == \A d \in removal : \A g \in tracked \ d.repos : home[g] \in d.orgs => g \in excused

ServedInv == TrackedIsServed /\ Stopping /\ \A r \in Slots : Served(r)

(* The initial state. *)
LEMMA InitServed == Init => ServedInv
    BY DEF Init, ServedInv, TrackedIsServed, Stopping, Served, Idle

(* A request that is left alone. *)
LEMMA ServedStays ==
    ASSUME NEW s \in Slots, Served(s), Same(s), req[s].crossed => req'[s].crossed,
           UNCHANGED <<link, moved>>
    PROVE  Served(s)'
    BY DEF Served, Same

(* A step of r that touches neither links nor what is tracked. *)
LEMMA LocalServed ==
    ASSUME ServedInv, NEW r \in Slots, Elsewhere(r), Served(r)',
           UNCHANGED <<tables, removal, moved, excused>>
    PROVE  ServedInv'
<1>1. \A s \in Slots \ {r} : Same(s) /\ req'[s].crossed = req[s].crossed
    BY DEF Elsewhere, Same
<1> QED BY <1>1, ServedStays DEF ServedInv, TrackedIsServed, Stopping, tables

(* Webhooks, changes on GitHub and disable_tracking. *)
LEMMA HookServed ==
    ASSUME Shape, ServedInv, HubStep \/ HookStep \/ \E g \in Repos : DisableTracking(g)
    PROVE  ServedInv'
<1>0. req \in [Slots -> Request] /\ \A g \in tracked : g \in Repos /\ home[g] \in Orgs
    BY DEF Shape, TypeOK
<1>1. CASE CommitRemoval
  <2>1. PICK d \in removal :
          /\ removal' = {} /\ UNCHANGED home /\ tracked' = tracked \ d.repos
          /\ excused' = excused \ d.repos /\ Cross({}, Linked(d.inst))
          /\ link' = [o \in Orgs |-> IF link[o] = d.inst THEN None ELSE link[o]]
          /\ moved' = moved \cup (Linked(d.inst) \ d.orgs)
    BY <1>1 DEF CommitRemoval, Untrack
  <2>2. TrackedIsServed'
    <3> SUFFICES ASSUME NEW g \in tracked', link'[home[g]] = None
                 PROVE  home[g] \in moved' \/ g \in excused'
      BY <2>1 DEF TrackedIsServed
    <3>1. g \in tracked \ d.repos /\ home[g] \in Orgs
      BY <1>0, <2>1
    <3>2. CASE link[home[g]] = d.inst /\ home[g] \in d.orgs
      BY <2>1, <3>1, <3>2 DEF ServedInv, Stopping
    <3>3. CASE link[home[g]] = d.inst /\ home[g] \notin d.orgs
      BY <2>1, <3>1, <3>3 DEF Linked
    <3>4. CASE link[home[g]] # d.inst
      BY <2>1, <3>1, <3>4 DEF ServedInv, TrackedIsServed
    <3> QED BY <3>2, <3>3, <3>4
  <2>3. ASSUME NEW s \in Slots PROVE Served(s)'
    <3>1. /\ Same(s) /\ (req[s].crossed => req'[s].crossed)
          /\ ~At(s, "off") /\ req[s].op = "enable" /\ req[s].org \in Linked(d.inst) => req'[s].crossed
      BY <1>0, <2>1, Crossing
    <3>2. req[s].pc \in PastRead => ~At(s, "off") /\ req[s].org \in Orgs
      BY DEF At, PastRead, PastDrop, WithToken, Shape, Formed
    <3> QED BY <2>1, <3>1, <3>2 DEF ServedInv, Served, Same, Linked
  <2>4. Stopping'
    BY <2>1 DEF Stopping
  <2> QED BY <2>2, <2>3, <2>4 DEF ServedInv
<1>2. CASE /\ UNCHANGED <<link, moved, home, removal>>
           /\ \E gs \in SUBSET Repos : tracked' = tracked \ gs /\ excused' = excused \ gs
           /\ \A s \in Slots : Same(s) /\ (req[s].crossed => req'[s].crossed)
    BY <1>2, ServedStays DEF ServedInv, TrackedIsServed, Stopping
<1>3. CASE /\ UNCHANGED <<link, moved, home, tracked, excused>> /\ removal' \subseteq removal
           /\ \A s \in Slots : Same(s) /\ req'[s].crossed = req[s].crossed
    BY <1>3, ServedStays DEF ServedInv, TrackedIsServed, Stopping
<1>4. CASE HubStep
  <2>1. UNCHANGED <<tables, req, removal, moved, excused>>
    BY <1>4 DEF HubStep, SwitchSuspension, Uninstall, Expire, Grant, Withdraw, Change, history
  <2> QED BY <1>3, <2>1 DEF tables, Same
<1>5. CASE DropByHook
  <2>1. \A s \in Slots : Same(s) /\ req'[s].crossed = req[s].crossed
    BY <1>0, <1>5, Lateness DEF DropByHook, Same
  <2> QED BY <1>3, <1>5, <2>1 DEF DropByHook, tables
<1>6. ASSUME NEW m \in deliveries, ApplySuspension(m) \/ ApplyCreated(m) PROVE ServedInv'
    BY <1>3, <1>6 DEF ApplySuspension, ApplyCreated, history, Same
<1>7. ASSUME NEW m \in deliveries, ApplyRepositories(m) PROVE ServedInv'
  <2>1. \A s \in Slots : Same(s) /\ (req[s].crossed => req'[s].crossed)
    BY <1>0, <1>7, Crossing DEF ApplyRepositories
  <2>2. m.repos \in SUBSET Repos
    BY DEF Shape, TypeOK, Message
  <2> QED BY <1>2, <1>7, <2>1, <2>2 DEF ApplyRepositories, Untrack
<1>8. CASE HookFails
    BY <1>3, <1>8 DEF HookFails, tables, history, Same
<1>9. ASSUME NEW g \in Repos, DisableTracking(g) PROVE ServedInv'
    BY <1>2, <1>9 DEF DisableTracking, Untrack, Same
<1>10. ASSUME NEW m \in deliveries, ApplyDeleted(m) PROVE ServedInv'
  <2>1. UNCHANGED <<tables, req, moved, excused>>
    BY <1>10 DEF ApplyDeleted, history
  <2>2. Stopping'
    BY <1>0, <1>10, <2>1 DEF ApplyDeleted, Stopping, Stopped, ReposOf, tables
  <2>3. TrackedIsServed' /\ \A s \in Slots : Served(s)'
    BY <2>1, ServedStays DEF ServedInv, TrackedIsServed, Same, tables
  <2> QED BY <2>2, <2>3 DEF ServedInv
<1> QED BY <1>1, <1>4, <1>5, <1>6, <1>7, <1>8, <1>9, <1>10 DEF HookStep

(* The steps of a request. *)
LEMMA RequestServed ==
    ASSUME Shape, ServedInv, NEW r \in Slots, RequestStep(r)
    PROVE  ServedInv'
<1> USE DEF PastRead, PastDrop, WithToken
<1>1. req \in [Slots -> Request] /\ Formed(r) /\ Served(r) /\ Idle.pc = "off"
    BY DEF Shape, TypeOK, ServedInv, Idle
<1>2. ASSUME NEW o \in Orgs, NEW op \in {"setup", "discover", "enable", "capture"},
             NEW g \in Repos \cup {None}, NEW i \in Insts \cup {None}, Begin(r, op, o, g, i)
      PROVE  ServedInv'
  <2>1. Elsewhere(r) /\ req'[r].pc \in {"list", "read"}
    BY <1>1, <1>2, BeginEffect
  <2>2. Served(r)'
    BY <2>1 DEF Served
  <2> QED BY <1>2, <2>1, <2>2, LocalServed DEF Begin, history
<1>3. CASE ListInstallations(r) \/ FetchInstallation(r) \/ Fail(r)
  <2>1. Elsewhere(r) /\ req'[r].pc \in {"off", "meta", "upsert"}
    BY <1>1, <1>3, ListEffect, FetchEffect, Going
       DEF FetchInstallation, Fail, Elsewhere, Formed, At, WithInstallation, Shape, TypeOK
  <2>2. Served(r)'
    BY <2>1 DEF Served
  <2> QED BY <1>3, <2>1, <2>2, LocalServed DEF ListInstallations, FetchInstallation, Fail, Local, history
<1>4. CASE UpsertInstallation(r)
  <2>1. Elsewhere(r) /\ req'[r].pc = "link"
    BY <1>1, <1>4, Going DEF UpsertInstallation, Elsewhere
  <2>2. \A s \in Slots \ {r} : Same(s) /\ req'[s].crossed = req[s].crossed
    BY <2>1 DEF Elsewhere, Same
  <2>3. UNCHANGED <<link, home, tracked, removal, moved, excused>>
    BY <1>4 DEF UpsertInstallation, history
  <2>4. Served(r)'
    BY <2>1 DEF Served
  <2> QED BY <2>2, <2>3, <2>4, ServedStays DEF ServedInv, TrackedIsServed, Stopping
<1>5. CASE LinkOrganization(r)
  <2> DEFINE i == req[r].inst
             o == req[r].org
  <2>1. /\ UNCHANGED <<home, tracked, removal, excused>> /\ i \in Insts /\ o \in Orgs
        /\ link' = [p \in Orgs |-> IF p = o THEN i ELSE IF link[p] = i THEN None ELSE link[p]]
        /\ moved' = (moved \cup Linked(i)) \ {o}
    BY <1>1, <1>5 DEF LinkOrganization, LinkTo, Formed, At, WithInstallation
  <2>2. Elsewhere(r) /\ req'[r].pc \in {"off", "read"}
    BY <1>1, <1>5, LinkEffect
  <2> HIDE DEF i, o
  <2>3. \A p \in Orgs : link[p] # None \/ p \in moved => link'[p] # None \/ p \in moved'
    BY <2>1, InstallationConstants DEF Linked
  <2>4. TrackedIsServed' /\ Stopping'
    BY <2>1, <2>3 DEF ServedInv, TrackedIsServed, Stopping, Shape, TypeOK
  <2>5. \A s \in Slots \ {r} : Served(s)'
    <3> SUFFICES ASSUME NEW s \in Slots \ {r} PROVE Served(s)'
      OBVIOUS
    <3>1. req'[s] = req[s] /\ Served(s)
      BY <2>2 DEF Elsewhere, ServedInv
    <3>2. req[s].pc \in PastRead => req[s].org \in Orgs
      BY DEF Shape, Formed, At
    <3> QED BY <2>3, <3>1, <3>2 DEF Served
  <2>6. Served(r)'
    BY <2>2 DEF Served
  <2> QED BY <2>4, <2>5, <2>6 DEF ServedInv
<1>6. CASE ReadLink(r)
  <2>1. Workspace(r) \in Orgs /\ (req[r].op = "enable" => Workspace(r) = req[r].org)
    BY <1>1, <1>6 DEF ReadLink, Workspace, Formed, At
  <2>2. Elsewhere(r) /\ UNCHANGED <<tables, removal, moved, excused>>
    BY <1>1, <1>6, <2>1, ReadEffect DEF ReadLink, Local, history, Shape, TypeOK
  <2>3. \/ req'[r].pc \in {"off", "list"}
        \/ req'[r].op = req[r].op /\ req'[r].org = req[r].org /\ link[Workspace(r)] # None
    BY <1>1, <1>6, <2>1, ReadEffect DEF Shape, TypeOK
  <2>4. Served(r)'
    BY <2>1, <2>2, <2>3 DEF Served, tables
  <2> QED BY <2>2, <2>4, LocalServed
<1>7. CASE DropToken(r)
  <2>1. req[r].pc = "drop" /\ req[r].inst \in Insts /\ epoch \in [Insts -> Nat]
    BY <1>7, Held DEF DropToken, At, Shape, TypeOK
  <2>2. \A s \in Slots : /\ req'[s].crossed = req[s].crossed
                          /\ req'[s].op = req[s].op /\ req'[s].org = req[s].org
                          /\ (s # r => Same(s))
    BY <1>1, <1>7, <2>1, DropEffect DEF Same
  <2>3. UNCHANGED <<link, moved, tracked, home, removal, excused>>
    BY <1>7 DEF DropToken, tables
  <2>4. \A s \in Slots : Served(s)'
    BY <2>1, <2>2, <2>3, ServedStays DEF ServedInv, Served
  <2> QED BY <2>3, <2>4 DEF ServedInv, TrackedIsServed, Stopping
<1>8. CASE GetToken(r) \/ MintToken(r) \/ StoreToken(r) \/ UseToken(r) \/ CheckAssignment(r)
  <2>1. UNCHANGED <<tables, removal, moved, excused>> /\ req[r].pc \in PastDrop /\ req[r].inst \in Insts
    BY <1>8, Held DEF GetToken, MintToken, StoreToken, UseToken, CheckAssignment, Local, history, At
  <2>2. CASE GetToken(r) \/ MintToken(r)
    <3>1. /\ Elsewhere(r) /\ req'[r].op = req[r].op /\ req'[r].org = req[r].org
          /\ req'[r].crossed = req[r].crossed
      BY <1>1, <2>1, <2>2, GetEffect, MintEffect DEF Shape, TypeOK
    <3> QED BY <1>1, <2>1, <3>1, LocalServed DEF Served, tables
  <2>3. CASE StoreToken(r) \/ UseToken(r) \/ CheckAssignment(r)
    <3>1. /\ Elsewhere(r)
          /\ \/ req'[r].pc = "off"
             \/ req'[r].op = req[r].op /\ req'[r].org = req[r].org /\ req'[r].crossed = req[r].crossed
      BY <1>1, <2>3, Going DEF StoreToken, UseToken, CheckAssignment, Elsewhere
    <3> QED BY <1>1, <2>1, <3>1, LocalServed DEF Served, tables
  <2> QED BY <1>8, <2>2, <2>3
<1>9. CASE CommitTracking(r)
  <2> DEFINE g == req[r].repo
             o == req[r].org
  <2>1. /\ UNCHANGED <<link, moved, removal>> /\ g \in Repos /\ o \in Orgs /\ home[g] \in {None, o}
        /\ home' = [home EXCEPT ![g] = o] /\ tracked' = tracked \cup {g}
        /\ excused \subseteq excused' /\ (req[r].crossed \/ UnderRemoval(o) => g \in excused')
        /\ req[r].op = "enable" /\ req[r].pc \in PastRead
    BY <1>1, <1>9 DEF CommitTracking, Excuse, Formed, At
  <2>2. Elsewhere(r) /\ req'[r].pc = "off"
    BY <1>1, <1>9, Going DEF CommitTracking, Elsewhere
  <2>3. link[o] # None \/ o \in moved \/ g \in excused'
    BY <1>1, <2>1 DEF Served
  <2> HIDE DEF g, o
  <2>4. TrackedIsServed'
    BY <2>1, <2>3 DEF ServedInv, TrackedIsServed, Shape, TypeOK
  <2>5. Stopping'
    BY <2>1 DEF ServedInv, Stopping, UnderRemoval, Shape, TypeOK
  <2>6. \A s \in Slots \ {r} : Served(s)'
    BY <2>1, <2>2, ServedStays DEF ServedInv, Elsewhere, Same
  <2>7. Served(r)'
    BY <2>2 DEF Served
  <2> QED BY <2>4, <2>5, <2>6, <2>7 DEF ServedInv
<1> QED BY <1>2, <1>3, <1>4, <1>5, <1>6, <1>7, <1>8, <1>9 DEF RequestStep

(* Every step. *)
LEMMA StepServed == Shape /\ ServedInv /\ [Next]_vars => ServedInv'
<1> SUFFICES ASSUME Shape, ServedInv, [Next]_vars PROVE ServedInv'
    OBVIOUS
<1>1. CASE UNCHANGED vars
    BY <1>1 DEF vars, tables, history, ServedInv, TrackedIsServed, Stopping, Served
<1> QED BY <1>1, HookServed, RequestServed DEF Next

(* The workspace of a tracked repository has an installation, unless       *)
(* another workspace took it over, a removal unlinked it that had stopped  *)
(* the repositories of others, or the request that tracks it ran across    *)
(* the removal.                                                            *)
THEOREM TrackedAreServed == Spec => []TrackedIsServed
<1>1. ServedInv => TrackedIsServed
    BY DEF ServedInv
<1> QED BY <1>1, InitShape, InitServed, StepShape, StepServed, PTL DEF Spec

-----------------------------------------------------------------------------
(* RemovedInv: a token of the current epoch reaches what is granted, and   *)
(* none that a request to track can still be handed reaches a repository   *)
(* that was removed before the request began.                              *)

Tokens(i) == cache[i] \cup
    {req[r].tok : r \in {s \in Slots : req[s].pc \in WithToken /\ req[s].inst = i}}

Usable(r) == req[r].pc \in {"assign", "commit"} => req[r].repo \in req[r].tok.scope

Barred(r) ==
    req[r].op = "enable" /\ req[r].pc \in PastDrop /\ ~req[r].crossed /\ req[r].repo \in taken
        => \A i \in Insts : i = req[r].inst =>
              \A t \in Tokens(i) : t.epoch >= req[r].asked => req[r].repo \notin t.scope

RemovedInv ==
    /\ RemovedIsUntracked
    /\ \A i \in Insts : granted[i] \subseteq Reach(i) \ taken
    /\ \A m \in deliveries : m.repos \subseteq Reach(m.inst)
    /\ \A i \in Insts : \A t \in Tokens(i) :
          t.epoch <= epoch[i] /\ (t.epoch = epoch[i] => t.scope = granted[i])
    /\ \A r \in Slots : Usable(r) /\ Barred(r)

(* A token after a step can do what one before it could, or was minted.    *)
Inherited ==
    \A i \in Insts : \A t \in Tokens(i)' :
        \/ \E u \in Tokens(i) : u.scope = t.scope /\ u.epoch = t.epoch
        \/ t.scope = granted[i] /\ t.epoch = epoch[i]

(* The initial state. *)
LEMMA InitRemoved == Init => RemovedInv
<1> SUFFICES ASSUME Init PROVE RemovedInv
    OBVIOUS
<1>1. \A i \in Insts : Tokens(i) = {}
    BY DEF Init, Tokens, Idle, WithToken
<1> QED BY <1>1 DEF Init, RemovedInv, RemovedIsUntracked, Usable, Barred, Idle, PastDrop, WithToken

(* Tokens are numbers and sets. *)
LEMMA TokenTypes ==
    ASSUME Shape, NEW i \in Insts, NEW t \in Tokens(i)
    PROVE  t.epoch \in Nat /\ t.scope \in SUBSET Repos
<1>1. t \in Token
    BY Held DEF Tokens, Shape, TypeOK
<1> QED BY <1>1 DEF Token

(* Tokens are inherited when the caches only lose tokens and no request    *)
(* gets a new one.                                                         *)
LEMMA InheritAll ==
    ASSUME \A i \in Insts : cache'[i] \subseteq cache[i],
           \A s \in Slots : req'[s].pc \in WithToken =>
               /\ req[s].pc \in WithToken /\ req'[s].inst = req[s].inst
               /\ req'[s].tok.scope = req[s].tok.scope /\ req'[s].tok.epoch = req[s].tok.epoch
    PROVE  Inherited
<1> SUFFICES ASSUME NEW i \in Insts, NEW t \in Tokens(i)'
             PROVE  \E u \in Tokens(i) : u.scope = t.scope /\ u.epoch = t.epoch
    BY DEF Inherited
<1>1. CASE t \in cache'[i]
    BY <1>1 DEF Tokens
<1>2. ASSUME NEW s \in Slots, req'[s].pc \in WithToken, req'[s].inst = i, t = req'[s].tok
      PROVE  \E u \in Tokens(i) : u.scope = t.scope /\ u.epoch = t.epoch
  <2>1. req[s].tok \in Tokens(i)
    BY <1>2 DEF Tokens
  <2> QED BY <1>2, <2>1
<1> QED BY <1>1, <1>2 DEF Tokens

(* The current tokens, when GitHub is left alone. *)
LEMMA CurrentStays ==
    ASSUME Shape, RemovedInv, Inherited, UNCHANGED github
    PROVE  \A i \in Insts : \A t \in Tokens(i)' :
              t.epoch <= epoch'[i] /\ (t.epoch = epoch'[i] => t.scope = granted'[i])
<1> SUFFICES ASSUME NEW i \in Insts, NEW t \in Tokens(i)'
             PROVE  t.epoch <= epoch'[i] /\ (t.epoch = epoch'[i] => t.scope = granted'[i])
    OBVIOUS
<1>1. epoch' = epoch /\ granted' = granted /\ epoch[i] \in Nat
    BY DEF github, Shape, TypeOK
<1>2. \A u \in Tokens(i) : u.epoch <= epoch[i] /\ (u.epoch = epoch[i] => u.scope = granted[i])
    BY DEF RemovedInv
<1> QED BY <1>1, <1>2 DEF Inherited

(* A request that keeps what it asked for. *)
LEMMA BarredStays ==
    ASSUME Shape, RemovedInv, Inherited, NEW s \in Slots,
           req'[s].op = "enable" /\ req'[s].pc \in PastDrop =>
               /\ req[s].op = "enable" /\ req[s].pc \in PastDrop /\ req'[s].repo = req[s].repo
               /\ req'[s].inst = req[s].inst /\ req'[s].asked = req[s].asked
               /\ req[s].crossed => req'[s].crossed
               /\ req[s].repo \in taken' /\ ~req'[s].crossed => req[s].repo \in taken
    PROVE  Barred(s)'
<1> SUFFICES ASSUME req'[s].op = "enable", req'[s].pc \in PastDrop, ~req'[s].crossed, req'[s].repo \in taken',
                    NEW i \in Insts, i = req'[s].inst, NEW t \in Tokens(i)', t.epoch >= req'[s].asked
             PROVE  req'[s].repo \notin t.scope
    BY DEF Barred
<1> DEFINE g == req[s].repo
<1>1. /\ i = req[s].inst /\ req'[s].repo = g /\ g \in taken /\ req'[s].asked = req[s].asked
      /\ \A u \in Tokens(i) : u.epoch >= req[s].asked => g \notin u.scope
    BY DEF RemovedInv, Barred
<1>2. g \notin granted[i]
    BY <1>1 DEF RemovedInv
<1> HIDE DEF g
<1> QED BY <1>1, <1>2 DEF Inherited

(* Changes on GitHub: a grant takes the repository off the removed ones,   *)
(* and every token is then of an earlier epoch.                            *)
LEMMA HubRemoved ==
    ASSUME Shape, RemovedInv, HubStep
    PROVE  RemovedInv'
<1>1. PICK i \in Insts :
          \/ SwitchSuspension(i) \/ Uninstall(i) \/ Expire(i)
          \/ \E g \in Repos : Grant(i, g) \/ Withdraw(i, g)
    BY DEF HubStep
<1>2. UNCHANGED <<req, tracked, excused>>
    BY <1>1 DEF SwitchSuspension, Uninstall, Expire, Grant, Withdraw, Change, history, tables
<1>3. \A j \in Insts : cache'[j] \subseteq cache[j]
    BY <1>1 DEF SwitchSuspension, Uninstall, Expire, Grant, Withdraw, Change, Shape, TypeOK
<1>4. Inherited
    BY <1>2, <1>3, InheritAll
<1>5. taken' \subseteq taken
    BY <1>1 DEF SwitchSuspension, Uninstall, Expire, Grant, Withdraw, history
<1>6. \A s \in Slots : Usable(s)' /\ Barred(s)'
    BY <1>2, <1>4, <1>5, BarredStays DEF RemovedInv, Usable
<1>7. CASE UNCHANGED <<granted, epoch>> /\ \A m \in deliveries' : m \in deliveries \/ m.repos = {}
  <2>1. \A j \in Insts : \A t \in Tokens(j)' :
              t.epoch <= epoch'[j] /\ (t.epoch = epoch'[j] => t.scope = granted'[j])
    <3> SUFFICES ASSUME NEW j \in Insts, NEW t \in Tokens(j)'
                 PROVE  t.epoch <= epoch[j] /\ (t.epoch = epoch[j] => t.scope = granted[j])
      BY <1>7
    <3>1. \A u \in Tokens(j) : u.epoch <= epoch[j] /\ (u.epoch = epoch[j] => u.scope = granted[j])
      BY DEF RemovedInv
    <3>2. epoch[j] \in Nat
      BY DEF Shape, TypeOK
    <3> QED BY <1>4, <3>1, <3>2 DEF Inherited
  <2>2. \A j \in Insts : granted'[j] \subseteq Reach(j) \ taken'
    BY <1>5, <1>7 DEF RemovedInv
  <2>3. \A m \in deliveries' : m.repos \subseteq Reach(m.inst)
    BY <1>7 DEF RemovedInv
  <2> QED BY <1>2, <1>5, <1>6, <2>1, <2>2, <2>3 DEF RemovedInv, RemovedIsUntracked, Reach
<1>8. ASSUME NEW g \in Repos, Grant(i, g) \/ Withdraw(i, g) PROVE RemovedInv'
  <2>1. /\ epoch' = [epoch EXCEPT ![i] = @ + 1] /\ epoch \in [Insts -> Nat]
        /\ \A j \in Insts \ {i} : granted'[j] = granted[j]
    BY <1>8 DEF Grant, Withdraw, Shape, TypeOK
  <2>2. \A j \in Insts : \A t \in Tokens(j)' :
              t.epoch <= epoch'[j] /\ (t.epoch = epoch'[j] => t.scope = granted'[j])
    <3> SUFFICES ASSUME NEW j \in Insts, NEW t \in Tokens(j)'
                 PROVE  t.epoch <= epoch'[j] /\ (t.epoch = epoch'[j] => t.scope = granted'[j])
      OBVIOUS
    <3>1. \A u \in Tokens(j) : u.epoch <= epoch[j] /\ (u.epoch = epoch[j] => u.scope = granted[j])
      BY DEF RemovedInv
    <3>2. \A u \in Tokens(j) : u.epoch \in Nat
      BY TokenTypes
    <3>3. t.epoch \in Nat /\ t.epoch <= epoch[j] /\ (t.epoch = epoch[j] => t.scope = granted[j])
      BY <1>4, <2>1, <3>1, <3>2 DEF Inherited
    <3>4. CASE j = i
      <4>1. epoch'[j] = epoch[j] + 1 /\ epoch[j] \in Nat
        BY <2>1, <3>4
      <4> QED BY <3>3, <4>1
    <3>5. CASE j # i
      BY <2>1, <3>3, <3>5
    <3> QED BY <3>4, <3>5
  <2>3. \A j \in Insts : granted'[j] \subseteq Reach(j) \ taken'
    <3>1. granted'[i] \subseteq Reach(i) \ taken'
      BY <1>8 DEF Grant, Withdraw, RemovedInv, Shape, TypeOK
    <3> QED BY <1>5, <2>1, <3>1 DEF RemovedInv
  <2>4. \A m \in deliveries' : m.repos \subseteq Reach(m.inst)
    <3>1. \A m \in deliveries' : m \in deliveries \/ (m.inst = i /\ m.repos \subseteq {g} \cap granted[i]) \/ m.repos = {}
      BY <1>8 DEF Grant, Withdraw, Tell
    <3> QED BY <3>1 DEF RemovedInv
  <2> QED BY <1>2, <1>5, <1>6, <2>2, <2>3, <2>4 DEF RemovedInv, RemovedIsUntracked, Reach
<1>9. CASE SwitchSuspension(i) \/ Uninstall(i) \/ Expire(i)
  <2>1. UNCHANGED <<granted, epoch>> /\ \A m \in deliveries' : m \in deliveries \/ m.repos = {}
    BY <1>9 DEF SwitchSuspension, Uninstall, Expire, Tell, github
  <2> QED BY <1>7, <2>1
<1> QED BY <1>1, <1>8, <1>9

(* RemovedInv after a step that leaves GitHub, what is taken and what is   *)
(* tracked alone, but for taking it off.                                   *)
LEMMA QuietRemoved ==
    ASSUME Shape, RemovedInv, Inherited, UNCHANGED <<github, taken>>,
           \A g \in tracked' \cap taken : g \in excused',
           \A s \in Slots : Usable(s)' /\ Barred(s)'
    PROVE  RemovedInv'
<1>1. \A i \in Insts : \A t \in Tokens(i)' :
              t.epoch <= epoch'[i] /\ (t.epoch = epoch'[i] => t.scope = granted'[i])
    BY CurrentStays
<1> QED BY <1>1 DEF RemovedInv, RemovedIsUntracked, github, Reach

(* Webhooks and disable_tracking. *)
LEMMA HookRemoved ==
    ASSUME Shape, RemovedInv, HookStep \/ \E g \in Repos : DisableTracking(g)
    PROVE  RemovedInv'
<1>0. req \in [Slots -> Request] /\ UNCHANGED github
    BY DEF Shape, TypeOK, HookStep, DropByHook, HookFails, ApplyDeleted, CommitRemoval, ApplySuspension, ApplyCreated,
           ApplyRepositories, DisableTracking
<1>1. \A s \in Slots : /\ Same(s) /\ (req[s].crossed => req'[s].crossed)
                        /\ req'[s].tok.scope = req[s].tok.scope /\ req'[s].tok.epoch = req[s].tok.epoch
  <2>1. CASE UNCHANGED req
    BY <1>0, <2>1 DEF Same
  <2>2. ASSUME NEW gs, NEW os, Cross(gs, os) PROVE <1>1
    BY <1>0, <2>2, Crossing
  <2>3. ASSUME NEW i, req' = Late(req, i) PROVE <1>1
    BY <1>0, <2>3, Lateness DEF Same
  <2> QED BY <2>1, <2>2, <2>3 DEF HookStep, DropByHook, HookFails, ApplyDeleted, CommitRemoval, ApplySuspension,
                ApplyCreated, ApplyRepositories, DisableTracking
<1>2. \A i \in Insts : cache'[i] \subseteq cache[i]
    BY DEF HookStep, DropByHook, HookFails, ApplyDeleted, CommitRemoval, ApplySuspension,
           ApplyCreated, ApplyRepositories, DisableTracking, Shape, TypeOK
<1>3. Inherited
    BY <1>1, <1>2, InheritAll DEF Same
<1>4. \A s \in Slots : Usable(s)'
    BY <1>1 DEF RemovedInv, Usable, Same
<1>5. ASSUME UNCHANGED taken PROVE \A s \in Slots : Barred(s)'
    BY <1>1, <1>3, <1>5, BarredStays DEF Same
<1>6. ASSUME NEW m \in deliveries, ApplyRepositories(m) PROVE RemovedInv'
  <2>1. /\ tracked' = tracked \ m.repos /\ excused' = excused \ m.repos /\ Cross(m.repos, {})
        /\ taken' = taken \cup {g \in m.repos : g \notin granted[m.inst]}
    BY <1>6 DEF ApplyRepositories, Untrack
  <2>2. ASSUME NEW s \in Slots PROVE Barred(s)'
    <3>1. ~At(s, "off") /\ req[s].op = "enable" /\ req[s].repo \in m.repos => req'[s].crossed
      BY <1>0, <2>1, Crossing
    <3>2. req[s].pc \in PastDrop => ~At(s, "off")
      BY DEF At, PastDrop, WithToken
    <3> QED BY <1>1, <1>3, <2>1, <3>1, <3>2, BarredStays DEF Same
  <2>3. \A i \in Insts : granted'[i] \subseteq Reach(i) \ taken'
    BY <1>0, <2>1 DEF RemovedInv, Reach, github
  <2>4. RemovedIsUntracked'
    BY <2>1 DEF RemovedInv, RemovedIsUntracked
  <2>5. \A i \in Insts : \A t \in Tokens(i)' :
              t.epoch <= epoch'[i] /\ (t.epoch = epoch'[i] => t.scope = granted'[i])
    BY <1>0, <1>3, CurrentStays
  <2> QED BY <1>0, <1>4, <2>2, <2>3, <2>4, <2>5 DEF RemovedInv, github, Reach
<1>7. CASE UNCHANGED taken /\ \E gs : tracked' = tracked \ gs /\ excused' = excused \ gs
    BY <1>0, <1>3, <1>4, <1>5, <1>7, QuietRemoved DEF RemovedInv, RemovedIsUntracked
<1>8. CASE UNCHANGED <<taken, tracked, excused>>
    BY <1>0, <1>3, <1>4, <1>5, <1>8, QuietRemoved DEF RemovedInv, RemovedIsUntracked
<1> QED BY <1>6, <1>7, <1>8 DEF HookStep, DropByHook, HookFails, ApplyDeleted, CommitRemoval, Untrack,
                ApplySuspension, ApplyCreated, DisableTracking, tables, history

(* A step of r that leaves GitHub and what is tracked alone. *)
LEMMA LocalRemoved ==
    ASSUME Shape, RemovedInv, Inherited, NEW r \in Slots, Elsewhere(r),
           Usable(r)', Barred(r)', UNCHANGED <<github, tracked, taken, excused>>
    PROVE  RemovedInv'
<1>1. \A s \in Slots \ {r} : req'[s] = req[s]
    BY DEF Elsewhere
<1>2. \A s \in Slots \ {r} : Usable(s)' /\ Barred(s)'
    BY <1>1, BarredStays DEF RemovedInv, Usable
<1>3. \A g \in tracked' \cap taken : g \in excused'
    BY DEF RemovedInv, RemovedIsUntracked
<1> QED BY <1>2, <1>3, QuietRemoved

(* A request that is not past its drop holds no token. *)
LEMMA NoTokenYet ==
    ASSUME Shape, RemovedInv, NEW r \in Slots, Elsewhere(r),
           \A i \in Insts : cache'[i] \subseteq cache[i],
           req'[r].pc \notin PastDrop \/ (req'[r].pc = "get" /\ req'[r].op # "enable")
    PROVE  Inherited /\ Usable(r)' /\ Barred(r)'
<1>1. \A s \in Slots \ {r} : req'[s] = req[s]
    BY DEF Elsewhere
<1>2. Inherited
    BY <1>1, InheritAll DEF PastDrop, WithToken
<1> QED BY <1>2 DEF Usable, Barred, PastDrop, WithToken

(* The steps of a request. *)
LEMMA RequestRemoved ==
    ASSUME Shape, TokenInv, RemovedInv, NEW r \in Slots, RequestStep(r)
    PROVE  RemovedInv'
<1> USE DEF PastRead, PastDrop, WithToken
<1>1. req \in [Slots -> Request] /\ Formed(r) /\ Usable(r) /\ Barred(r) /\ Idle.pc = "off"
    BY DEF Shape, TypeOK, RemovedInv, Idle
<1>2. ASSUME NEW o \in Orgs, NEW op \in {"setup", "discover", "enable", "capture"},
             NEW g \in Repos \cup {None}, NEW i \in Insts \cup {None}, Begin(r, op, o, g, i)
      PROVE  RemovedInv'
  <2>1. Elsewhere(r) /\ req'[r].pc \in {"list", "read"}
    BY <1>1, <1>2, BeginEffect
  <2>2. UNCHANGED <<github, tracked, taken, excused, cache>>
    BY <1>2 DEF Begin, tables, history
  <2> QED BY <2>1, <2>2, NoTokenYet, LocalRemoved
<1>3. CASE \/ ListInstallations(r) \/ FetchInstallation(r) \/ Fail(r)
           \/ UpsertInstallation(r) \/ LinkOrganization(r)
  <2>1. Elsewhere(r) /\ req'[r].pc \in {"off", "meta", "upsert", "link", "read"}
    BY <1>1, <1>3, ListEffect, FetchEffect, LinkEffect, Going
       DEF FetchInstallation, Fail, UpsertInstallation, Elsewhere, Formed, At, WithInstallation, Shape, TypeOK
  <2>2. UNCHANGED <<github, tracked, taken, excused, cache>>
    BY <1>3 DEF ListInstallations, FetchInstallation, Fail, UpsertInstallation, LinkOrganization,
                Local, tables, history
  <2> QED BY <2>1, <2>2, NoTokenYet, LocalRemoved
<1>4. CASE ReadLink(r)
  <2>1. Workspace(r) \in Orgs
    BY <1>1, <1>4 DEF ReadLink, Workspace, Formed, At
  <2>2. /\ Elsewhere(r)
        /\ req'[r].pc \in {"off", "list", "drop"} \/ (req'[r].pc = "get" /\ req'[r].op # "enable")
    BY <1>1, <1>4, <2>1, ReadEffect DEF Shape, TypeOK, Fresh
  <2>3. UNCHANGED <<github, tracked, taken, excused, cache>>
    BY <1>4 DEF ReadLink, Local, tables, history
  <2> QED BY <2>2, <2>3, NoTokenYet, LocalRemoved
<1>5. CASE DropToken(r)
  <2>1. req[r].inst \in Insts /\ epoch \in [Insts -> Nat]
    BY <1>5, Held DEF DropToken, At, Shape, TypeOK
  <2>2. /\ UNCHANGED <<github, tracked, taken, excused>>
        /\ \A i \in Insts : cache'[i] \subseteq cache[i]
    BY <1>5, <2>1 DEF DropToken, tables, Shape, TypeOK
  <2>3. /\ req'[r].pc = "get" /\ req'[r].asked = epoch[req[r].inst] /\ req'[r].inst = req[r].inst
        /\ req'[r].repo = req[r].repo
        /\ \A s \in Slots \ {r} :
              /\ Same(s) /\ req'[s].crossed = req[s].crossed
              /\ req'[s].tok.scope = req[s].tok.scope /\ req'[s].tok.epoch = req[s].tok.epoch
    BY <1>1, <1>5, <2>1, DropEffect
  <2>4. Inherited
    BY <2>2, <2>3, InheritAll DEF Same
  <2>5. ASSUME NEW s \in Slots \ {r} PROVE Usable(s)' /\ Barred(s)'
    BY <2>2, <2>3, <2>4, BarredStays DEF RemovedInv, Usable, Same
  <2>6. Usable(r)'
    BY <2>3 DEF Usable
  <2>7. Barred(r)'
    <3> SUFFICES ASSUME req'[r].repo \in taken', NEW i \in Insts, i = req'[r].inst,
                        NEW t \in Tokens(i)', t.epoch >= req'[r].asked
                 PROVE  req'[r].repo \notin t.scope
      BY DEF Barred
    <3>1. i = req[r].inst /\ t.epoch >= epoch[i] /\ epoch[i] \in Nat /\ req[r].repo \notin granted[i]
      BY <2>1, <2>2, <2>3 DEF RemovedInv
    <3>2. \A u \in Tokens(i) : u.epoch \in Nat /\ u.epoch <= epoch[i] /\ (u.epoch = epoch[i] => u.scope = granted[i])
      BY TokenTypes DEF RemovedInv
    <3>3. t.scope = granted[i]
      BY <2>4, <3>1, <3>2 DEF Inherited
    <3> QED BY <2>3, <3>1, <3>3
  <2>8. \A g \in tracked' \cap taken : g \in excused'
    BY <2>2 DEF RemovedInv, RemovedIsUntracked
  <2> QED BY <2>2, <2>4, <2>5, <2>6, <2>7, <2>8, QuietRemoved
<1>6. CASE GetToken(r)
  <2>1. /\ At(r, "get") /\ req[r].inst \in Insts /\ UNCHANGED <<github, tracked, taken, excused, cache>>
    BY <1>6, Held DEF GetToken, At, Local, tables, history
  <2>2. /\ Elsewhere(r) /\ req'[r].inst = req[r].inst /\ req'[r].asked = req[r].asked
        /\ req'[r].op = req[r].op /\ req'[r].repo = req[r].repo /\ req'[r].crossed = req[r].crossed
        /\ req'[r].pc = "mint" \/ (req'[r].pc = "use" /\ req'[r].tok \in cache[req[r].inst])
    BY <1>1, <1>6, <2>1, GetEffect DEF Shape, TypeOK
  <2>3. Inherited
    <3> SUFFICES ASSUME NEW i \in Insts, NEW t \in Tokens(i)'
                 PROVE  t \in Tokens(i)
      BY DEF Inherited
    <3>1. CASE t \in cache'[i]
      BY <2>1, <3>1 DEF Tokens
    <3>2. ASSUME NEW s \in Slots, req'[s].pc \in WithToken, req'[s].inst = i, t = req'[s].tok
          PROVE  t \in Tokens(i)
      <4>1. CASE s = r
        BY <2>2, <3>2, <4>1 DEF Tokens
      <4>2. CASE s # r
        <5>1. req'[s] = req[s]
          BY <2>2, <4>2 DEF Elsewhere
        <5> QED BY <3>2, <5>1 DEF Tokens
      <4> QED BY <4>1, <4>2
    <3> QED BY <3>1, <3>2 DEF Tokens
  <2>4. Usable(r)' /\ Barred(r)'
    BY <2>1, <2>2, <2>3, BarredStays DEF Usable, At
  <2> QED BY <2>1, <2>2, <2>3, <2>4, LocalRemoved
<1>7. CASE MintToken(r)
  <2>1. /\ At(r, "mint") /\ req[r].inst \in Insts /\ UNCHANGED <<github, tracked, taken, excused, cache>>
    BY <1>7, Held DEF MintToken, At, Local, tables, history
  <2>2. /\ Elsewhere(r) /\ req'[r].inst = req[r].inst /\ req'[r].asked = req[r].asked
        /\ req'[r].op = req[r].op /\ req'[r].repo = req[r].repo /\ req'[r].crossed = req[r].crossed
        /\ req'[r].pc = "store" /\ req'[r].tok.epoch = epoch[req[r].inst]
        /\ req'[r].tok.scope = granted[req[r].inst]
    BY <1>1, <1>7, <2>1, MintEffect DEF Shape, TypeOK
  <2>3. Inherited
    <3> SUFFICES ASSUME NEW i \in Insts, NEW t \in Tokens(i)'
                 PROVE  t \in Tokens(i) \/ (t.scope = granted[i] /\ t.epoch = epoch[i])
      BY DEF Inherited
    <3>1. CASE t \in cache'[i]
      BY <2>1, <3>1 DEF Tokens
    <3>2. ASSUME NEW s \in Slots, req'[s].pc \in WithToken, req'[s].inst = i, t = req'[s].tok
          PROVE  t \in Tokens(i) \/ (t.scope = granted[i] /\ t.epoch = epoch[i])
      <4>1. CASE s = r
        BY <2>2, <3>2, <4>1
      <4>2. CASE s # r
        <5>1. req'[s] = req[s]
          BY <2>2, <4>2 DEF Elsewhere
        <5> QED BY <3>2, <5>1 DEF Tokens
      <4> QED BY <4>1, <4>2
    <3> QED BY <3>1, <3>2 DEF Tokens
  <2>4. Usable(r)' /\ Barred(r)'
    BY <2>1, <2>2, <2>3, BarredStays DEF Usable, At
  <2> QED BY <2>1, <2>2, <2>3, <2>4, LocalRemoved
<1>8. CASE StoreToken(r)
  <2>1. /\ At(r, "store") /\ req[r].inst \in Insts /\ UNCHANGED <<github, tracked, taken, excused>>
        /\ cache' = [cache EXCEPT ![req[r].inst] = {req[r].tok}] \/ UNCHANGED cache
    BY <1>8, Held DEF StoreToken, At, tables, history
  <2>2. /\ Elsewhere(r) /\ req'[r].inst = req[r].inst /\ req'[r].asked = req[r].asked
        /\ req'[r].op = req[r].op /\ req'[r].repo = req[r].repo /\ req'[r].crossed = req[r].crossed
        /\ req'[r].pc = "use" /\ req'[r].tok = req[r].tok
    BY <1>1, <1>8, Going DEF StoreToken, Elsewhere
  <2>3. Inherited
    <3> SUFFICES ASSUME NEW i \in Insts, NEW t \in Tokens(i)'
                 PROVE  t \in Tokens(i)
      BY DEF Inherited
    <3>0. req[r].tok \in Tokens(req[r].inst)
      BY <2>1 DEF Tokens, At
    <3>1. CASE t \in cache'[i]
      <4>1. t \in cache[i] \/ (i = req[r].inst /\ t = req[r].tok)
        BY <2>1, <3>1 DEF Shape, TypeOK
      <4> QED BY <3>0, <4>1 DEF Tokens
    <3>2. ASSUME NEW s \in Slots, req'[s].pc \in WithToken, req'[s].inst = i, t = req'[s].tok
          PROVE  t \in Tokens(i)
      <4>1. CASE s = r
        BY <2>2, <3>0, <3>2, <4>1
      <4>2. CASE s # r
        <5>1. req'[s] = req[s]
          BY <2>2, <4>2 DEF Elsewhere
        <5> QED BY <3>2, <5>1 DEF Tokens
      <4> QED BY <4>1, <4>2
    <3> QED BY <3>1, <3>2 DEF Tokens
  <2>4. Usable(r)' /\ Barred(r)'
    BY <2>1, <2>2, <2>3, BarredStays DEF Usable, At
  <2> QED BY <2>1, <2>2, <2>3, <2>4, LocalRemoved
<1>9. CASE UseToken(r) \/ CheckAssignment(r)
  <2>1. UNCHANGED <<github, tracked, taken, excused, cache>> /\ req[r].pc \in {"use", "assign"}
    BY <1>9 DEF UseToken, CheckAssignment, Local, tables, history, At
  <2>2. /\ Elsewhere(r)
        /\ \/ req'[r].pc = "off"
           \/ /\ req'[r].pc \in {"assign", "commit"}
              /\ req'[r].inst = req[r].inst /\ req'[r].asked = req[r].asked
              /\ req'[r].op = req[r].op /\ req'[r].repo = req[r].repo /\ req'[r].crossed = req[r].crossed
              /\ req'[r].tok = req[r].tok /\ req[r].repo \in req[r].tok.scope
    <3>1. CASE UseToken(r)
      BY <1>1, <3>1, Going DEF UseToken, Elsewhere
    <3>2. CASE CheckAssignment(r)
      BY <1>1, <3>2, Going DEF CheckAssignment, Elsewhere, At, Usable
    <3> QED BY <1>9, <3>1, <3>2
  <2>3. Inherited
    <3>1. \A s \in Slots \ {r} : req'[s] = req[s]
      BY <2>2 DEF Elsewhere
    <3> QED BY <2>1, <2>2, <3>1, InheritAll
  <2>4. Usable(r)' /\ Barred(r)'
    BY <2>1, <2>2, <2>3, BarredStays DEF Usable
  <2> QED BY <2>1, <2>2, <2>3, <2>4, LocalRemoved
<1>10. CASE CommitTracking(r)
  <2> DEFINE g == req[r].repo
  <2>1. /\ UNCHANGED <<github, taken, cache>> /\ req[r].pc = "commit" /\ req[r].op = "enable"
        /\ tracked' = tracked \cup {g} /\ excused \subseteq excused'
        /\ req[r].crossed \/ req[r].tok.late => g \in excused'
        /\ g \in req[r].tok.scope /\ req[r].inst \in Insts
    BY <1>1, <1>10, Held DEF CommitTracking, Excuse, Formed, At, Usable
  <2>2. Elsewhere(r) /\ req'[r].pc = "off"
    BY <1>1, <1>10, Going DEF CommitTracking, Elsewhere
  <2>3. Inherited /\ Usable(r)' /\ Barred(r)'
    BY <2>1, <2>2, NoTokenYet
  <2>4. g \in taken => g \in excused'
    <3> SUFFICES ASSUME g \in taken, ~req[r].crossed, ~req[r].tok.late PROVE FALSE
      BY <2>1
    <3>1. req[r].tok.epoch >= req[r].asked
      BY <2>1 DEF TokenInv, Timely, Fresh
    <3>2. req[r].tok \in Tokens(req[r].inst)
      BY <2>1 DEF Tokens
    <3> QED BY <1>1, <2>1, <3>1, <3>2 DEF Barred
  <2>5. \A h \in tracked' \cap taken : h \in excused'
    BY <2>1, <2>4 DEF RemovedInv, RemovedIsUntracked
  <2>6. \A s \in Slots \ {r} : Usable(s)' /\ Barred(s)'
    <3>1. \A s \in Slots \ {r} : req'[s] = req[s]
      BY <2>2 DEF Elsewhere
    <3> QED BY <2>1, <2>3, <3>1, BarredStays DEF RemovedInv, Usable
  <2> QED BY <2>1, <2>3, <2>5, <2>6, QuietRemoved
<1> QED BY <1>2, <1>3, <1>4, <1>5, <1>6, <1>7, <1>8, <1>9, <1>10 DEF RequestStep

(* Every step. *)
LEMMA StepRemoved == Shape /\ TokenInv /\ RemovedInv /\ [Next]_vars => RemovedInv'
<1> SUFFICES ASSUME Shape, TokenInv, RemovedInv, [Next]_vars PROVE RemovedInv'
    OBVIOUS
<1>1. CASE UNCHANGED vars
  <2>1. UNCHANGED <<github, req, cache, taken, tracked, excused>>
    BY <1>1 DEF vars, tables, history
  <2>2. Inherited
    BY <2>1, InheritAll
  <2>3. \A s \in Slots : Usable(s)' /\ Barred(s)'
    BY <2>1, <2>2, BarredStays DEF RemovedInv, Usable
  <2> QED BY <2>1, <2>2, <2>3, QuietRemoved DEF RemovedInv, RemovedIsUntracked
<1> QED BY <1>1, HubRemoved, HookRemoved, RequestRemoved DEF Next

(* A repository that a webhook reported as removed, and that was not added *)
(* again, is tracked only by a request that ran across the removal or with *)
(* a late token: enable_tracking empties the cache before it asks GitHub.  *)
THEOREM RemovedAreUntracked == Spec => []RemovedIsUntracked
<1>1. RemovedInv => RemovedIsUntracked
    BY DEF RemovedInv
<1> QED BY <1>1, InitShape, InitTokens, InitRemoved, StepShape, StepTokens, StepRemoved, PTL DEF Spec
=============================================================================
