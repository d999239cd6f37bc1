---------------------------- MODULE Installations ----------------------------
(***************************************************************************)
(* GitHub App installations: gateway/src/installations.rs, the token cache *)
(* of github_app.rs, the tokens of github_api.rs, the setup callback of    *)
(* routes/auth.rs, discovery and tracking of routes/repositories.rs, and   *)
(* the installation webhooks.  A request is a sequence of calls to GitHub, *)
(* Redis and the database; other requests and webhooks come between.       *)
(* Only personal workspaces are ever linked to an installation, and a      *)
(* personal workspace has one member, so a request is named by its         *)
(* workspace and its caller is the owner.                                  *)
(***************************************************************************)
EXTENDS Naturals, FiniteSets

CONSTANTS Insts,        \* installation ids; one that was removed never returns
          Orgs,         \* personal workspaces
          Repos,        \* GitHub repositories
          Slots,        \* requests that run at once
          Installer,    \* Installer[g]: the installation of the account that owns g
          Managers,     \* pairs <<o, i>>: the owner of o sees i in /user/installations
          None,
          Scopes        \* bounds: changes on GitHub and requests of a behaviour

ASSUME InstallationConstants ==
    /\ Installer \in [Repos -> Insts]
    /\ Managers \subseteq Orgs \X Insts
    /\ None \notin Insts \cup Orgs \cup Repos
    /\ Scopes \subseteq [changes : Nat, requests : Nat]

VARIABLES state,      \* state[i] on GitHub
          granted,    \* granted[i]: repositories of the installation
          epoch,      \* epoch[i]: how often that selection has changed
          deliveries, \* webhooks sent; they come late, out of order or again
          row,        \* github_installations: its row and suspended_at
          link,       \* organizations.github_installation_id
          home,       \* home[g]: repositories.organization_id, None without a row
          tracked,    \* repositories with tracking_enabled
          cache,      \* cache[i]: the token in Redis
          req,        \* req[r]: a request under way
          hook,       \* the installation whose token the webhook processor will drop
          removal,    \* the open transaction of installations::remove
          floor,      \* history: floor[i], an epoch at which the cached token was dropped
          moved,      \* history: workspaces whose installation another one took, or
                      \* that a removal unlinked without having stopped them
          taken,      \* history: repositories a webhook said were removed
          excused,    \* history: tracked by a request that ran across a change
          changes, requests \* what the scope leaves

github == <<state, granted, epoch, deliveries>>
tables == <<row, link, home, tracked>>
history == <<floor, moved, taken, excused>>
counts == <<changes, requests>>
vars == <<github, tables, cache, req, hook, removal, history, counts>>

(* What a token can do was settled when it was minted.  late: history, the *)
(* cache was emptied after the token was minted and before it was stored.  *)
Token == [scope : SUBSET Repos, epoch : Nat, late : BOOLEAN]
NoToken == [scope |-> {}, epoch |-> 0, late |-> FALSE]
Message == [kind : {"created", "deleted", "suspend", "unsuspend", "added", "removed"},
            inst : Insts, repos : SUBSET Repos, epoch : Nat]
Request ==
    [pc : {"off", "list", "meta", "upsert", "link", "read", "drop", "get", "mint", "store",
           "use", "assign", "commit"},
     op : {"setup", "discover", "enable", "capture"},
     org : Orgs \cup {None}, repo : Repos \cup {None}, inst : Insts \cup {None}, tok : Token,
     seen : {"active", "suspended"}, \* what fetch_installation found
     healed : BOOLEAN,               \* discover has been through reconcile_installation
     asked : Nat,                    \* history: the epoch when it emptied the cache
     crossed : BOOLEAN]              \* history: a removal came while it ran
(* orgs and repos: what its first statement found and holds. *)
Removal == [inst : Insts, orgs : SUBSET Orgs, repos : SUBSET Repos]
Idle == [pc |-> "off", op |-> "setup", org |-> None, repo |-> None, inst |-> None,
         tok |-> NoToken, seen |-> "active", healed |-> FALSE, asked |-> 0, crossed |-> FALSE]

(* The workspaces linked to an installation. *)
Linked(i) == {o \in Orgs : link[o] = i}

(* With the foreign key and the uniqueness of github_installation_id. *)
TypeOK ==
    /\ state \in [Insts -> {"active", "suspended", "gone"}]
    /\ granted \in [Insts -> SUBSET Repos]
    /\ epoch \in [Insts -> Nat]
    /\ deliveries \subseteq Message
    /\ row \in [Insts -> {"none", "active", "suspended"}]
    /\ link \in [Orgs -> Insts \cup {None}]
    /\ \A o \in Orgs : link[o] # None => row[link[o]] # "none" /\ Linked(link[o]) = {o}
    /\ home \in [Repos -> Orgs \cup {None}]
    /\ tracked \subseteq {g \in Repos : home[g] # None}
    /\ cache \in [Insts -> SUBSET Token] /\ \A i \in Insts : Cardinality(cache[i]) <= 1
    /\ req \in [Slots -> Request]
    /\ hook \in SUBSET (Insts \X Nat) /\ removal \subseteq Removal
    /\ floor \in [Insts -> Nat]
    /\ moved \subseteq Orgs /\ taken \subseteq Repos /\ excused \subseteq Repos
    /\ changes \in Nat /\ requests \in Nat

(* What an installation can be given: the repositories of its account.     *)
Reach(i) == {g \in Repos : Installer[g] = i}

(* The App is installed, and BuildLens has not heard of it, or it was      *)
(* linked to one of the workspaces.                                        *)
Init ==
    /\ state = [i \in Insts |-> "active"]
    /\ granted = [i \in Insts |-> Reach(i)]
    /\ epoch = [i \in Insts |-> 0]
    /\ deliveries = {[kind |-> "created", inst |-> i, repos |-> {}, epoch |-> 0] : i \in Insts}
    /\ \/ row = [i \in Insts |-> "none"] /\ link = [o \in Orgs |-> None]
       \/ \E o \in Orgs, i \in Insts :
              /\ row = [j \in Insts |-> IF j = i THEN "active" ELSE "none"]
              /\ link = [p \in Orgs |-> IF p = o THEN i ELSE None]
    /\ home = [g \in Repos |-> None]
    /\ tracked = {}
    /\ cache = [i \in Insts |-> {}]
    /\ req = [r \in Slots |-> Idle]
    /\ hook = {} /\ removal = {}
    /\ floor = [i \in Insts |-> 0]
    /\ moved = {} /\ taken = {} /\ excused = {}
    /\ \E b \in Scopes : changes = b.changes /\ requests = b.requests

-----------------------------------------------------------------------------
(* GitHub: someone manages the installation there. *)

Tell(kind, i, repos, e) ==
    deliveries' = deliveries \cup {[kind |-> kind, inst |-> i, repos |-> repos, epoch |-> e]}

Change ==
    /\ changes > 0
    /\ changes' = changes - 1
    /\ UNCHANGED <<tables, cache, req, hook, removal, floor, moved, excused, requests>>

Grant(i, g) ==
    /\ state[i] # "gone" /\ g \in Reach(i) \ granted[i]
    /\ granted' = [granted EXCEPT ![i] = @ \cup {g}]
    /\ epoch' = [epoch EXCEPT ![i] = @ + 1]
    /\ Tell("added", i, {}, epoch[i] + 1)
    /\ taken' = taken \ {g}
    /\ UNCHANGED state
    /\ Change

Withdraw(i, g) ==
    /\ state[i] # "gone" /\ g \in granted[i]
    /\ granted' = [granted EXCEPT ![i] = @ \ {g}]
    /\ epoch' = [epoch EXCEPT ![i] = @ + 1]
    /\ Tell("removed", i, {g}, epoch[i] + 1)
    /\ UNCHANGED <<state, taken>>
    /\ Change

SwitchSuspension(i) ==
    /\ state[i] # "gone"
    /\ state' = [state EXCEPT ![i] = IF @ = "active" THEN "suspended" ELSE "active"]
    /\ Tell(IF state[i] = "active" THEN "suspend" ELSE "unsuspend", i, {}, epoch[i])
    /\ UNCHANGED <<granted, epoch, taken>>
    /\ Change

Uninstall(i) ==
    /\ state[i] # "gone"
    /\ state' = [state EXCEPT ![i] = "gone"]
    /\ Tell("deleted", i, {}, epoch[i])
    /\ UNCHANGED <<granted, epoch, taken>>
    /\ Change

Visible(o) == {i \in Insts : state[i] # "gone" /\ <<o, i>> \in Managers}

-----------------------------------------------------------------------------
(* The tables. *)

(* installations::upsert. *)
UpsertRow(i, seen) == row' = [row EXCEPT ![i] = seen]

(* installations::set_suspended: only a row that is there. *)
SetSuspended(i, to) ==
    row' = [row EXCEPT ![i] = IF @ = "none" THEN "none" ELSE to]

Untrack(gs) ==
    /\ tracked' = tracked \ gs
    /\ excused' = excused \ gs

(* Requests for a repository of gs, or in a workspace of os, run across. *)
Cross(gs, os) ==
    req' = [r \in Slots |->
        IF req[r].pc # "off" /\ req[r].op = "enable" /\ (req[r].repo \in gs \/ req[r].org \in os)
        THEN [req[r] EXCEPT !.crossed = TRUE] ELSE req[r]]

ReposOf(os) == {g \in Repos : home[g] \in os}

(* Rows that an uncommitted statement has written are locked. *)
Locked(g) == \E d \in removal : g \in d.repos

(* Mutant: the row is deleted first, and the foreign key has unlinked the  *)
(* workspaces when their repositories are looked for.                      *)
StoppedAfterUnlinking(os) == {}

(* The UPDATE of installations::remove: os is what its subquery read.      *)
Stopped(os) == tracked \cap ReposOf(os)

(* Mutant: the link is not taken from the workspace that had it. *)
LinkToBoth(o, i) ==
    /\ row[i] # "none"
    /\ link' = [link EXCEPT ![o] = i]
    /\ moved' = (moved \cup Linked(i)) \ {o}

(* installations::link_to_personal_organization, in a transaction that the *)
(* foreign key fails when the row has gone.                                *)
LinkTo(o, i) ==
    /\ row[i] # "none"
    /\ link' = [p \in Orgs |-> IF p = o THEN i ELSE IF link[p] = i THEN None ELSE link[p]]
    /\ moved' = (moved \cup Linked(i)) \ {o}

-----------------------------------------------------------------------------
(* Redis. *)

(* DEL: a token that was minted and not yet stored is late from now on. *)
Late(rs, i) ==
    [r \in Slots |-> IF rs[r].pc = "store" /\ rs[r].inst = i
                     THEN [rs[r] EXCEPT !.tok.late = TRUE] ELSE rs[r]]

(* The TTL of a cached token runs out, before the token does. *)
Expire(i) ==
    /\ cache[i] # {}
    /\ cache' = [cache EXCEPT ![i] = {}]
    /\ UNCHANGED <<github, tables, req, hook, removal, history, counts>>

-----------------------------------------------------------------------------
(* Webhooks. *)

Applied(m, kinds) == hook = {} /\ removal = {} /\ m \in deliveries /\ m.kind \in kinds

(* installations::remove, READ COMMITTED.  Its first statement reads the   *)
(* links without a lock and stops the repositories; no one sees it yet.    *)
ApplyDeleted(m) ==
    /\ Applied(m, {"deleted"})
    /\ removal' = {[inst |-> m.inst, orgs |-> Linked(m.inst), repos |-> Stopped(Linked(m.inst))]}
    /\ UNCHANGED <<github, tables, cache, req, hook, history, counts>>

(* Its second one deletes the row, and ON DELETE SET NULL unlinks whoever  *)
(* is linked by then: it waits for a link that holds the row, and a later  *)
(* one fails by the foreign key.  Then the transaction commits.            *)
CommitRemoval ==
    \E d \in removal :
        /\ removal' = {}
        /\ Untrack(d.repos)
        /\ row' = [row EXCEPT ![d.inst] = "none"]
        /\ link' = [o \in Orgs |-> IF link[o] = d.inst THEN None ELSE link[o]]
        /\ Cross({}, Linked(d.inst))
        /\ moved' = moved \cup (Linked(d.inst) \ d.orgs)
        /\ UNCHANGED <<github, home, cache, hook, floor, taken, counts>>

ApplySuspension(m) ==
    /\ Applied(m, {"suspend", "unsuspend"})
    /\ SetSuspended(m.inst, IF m.kind = "suspend" THEN "suspended" ELSE "active")
    /\ UNCHANGED <<github, link, home, tracked, cache, req, hook, removal, history, counts>>

(* created and the like: the payload's installation is recorded, then the  *)
(* token dropped.                                                          *)
ApplyCreated(m) ==
    /\ Applied(m, {"created"})
    /\ UpsertRow(m.inst, "active")
    /\ hook' = {<<m.inst, m.epoch>>}
    /\ UNCHANGED <<github, link, home, tracked, cache, req, history, removal, counts>>

(* Mutant: only the token is dropped. *)
ApplyRepositoriesDropOnly(m) ==
    /\ Applied(m, {"added", "removed"})
    /\ Cross(m.repos, {})
    /\ taken' = taken \cup {g \in m.repos : g \notin granted[m.inst]}
    /\ hook' = {<<m.inst, m.epoch>>}
    /\ UNCHANGED <<github, tables, cache, floor, moved, excused, removal, counts>>

(* apply_installation_repositories: untrack what was removed, then drop.   *)
ApplyRepositories(m) ==
    /\ Applied(m, {"added", "removed"})
    /\ Untrack(m.repos)
    /\ Cross(m.repos, {})
    /\ taken' = taken \cup {g \in m.repos : g \notin granted[m.inst]}
    /\ hook' = {<<m.inst, m.epoch>>}
    /\ UNCHANGED <<github, row, link, home, cache, floor, moved, removal, counts>>

(* Mutant: the webhook does not drop the token. *)
DropByHookNot ==
    \E d \in hook :
        /\ hook' = {}
        /\ floor' = [floor EXCEPT ![d[1]] = IF @ < d[2] THEN d[2] ELSE @]
        /\ UNCHANGED <<github, tables, cache, req, moved, taken, excused, removal, counts>>

(* invalidate_installation_token of the webhook processor. *)
DropByHook ==
    \E d \in hook :
        /\ hook' = {}
        /\ cache' = [cache EXCEPT ![d[1]] = {}]
        /\ req' = Late(req, d[1])
        /\ floor' = [floor EXCEPT ![d[1]] = IF @ < d[2] THEN d[2] ELSE @]
        /\ UNCHANGED <<github, tables, moved, taken, excused, removal, counts>>

(* The processor stops before it, or its transaction rolls back; the       *)
(* delivery will be applied again.                                         *)
HookFails ==
    /\ hook # {} \/ removal # {}
    /\ hook' = {} /\ removal' = {}
    /\ UNCHANGED <<github, tables, cache, req, history, counts>>

-----------------------------------------------------------------------------
(* Requests. *)

Goto(r, where) ==
    req' = [req EXCEPT ![r] = IF where = "off" THEN Idle ELSE [@ EXCEPT !.pc = where]]
At(r, where) == req[r].pc = where

(* github_setup, discover, enable_tracking and the capture of a completed  *)
(* run begin; roles were checked (Membership).                             *)
Begin(r, op, o, g, i) ==
    /\ At(r, "off") /\ requests > 0
    /\ op = "capture" => g \in tracked /\ home[g] = o
    /\ req' = [req EXCEPT ![r] =
          [Idle EXCEPT !.pc = IF op = "setup" THEN "list" ELSE "read", !.op = op, !.org = o,
                       !.repo = g, !.inst = i]]
    /\ requests' = requests - 1
    /\ UNCHANGED <<github, tables, cache, hook, removal, history, changes>>

Local(r) == UNCHANGED <<github, tables, cache, hook, removal, history, counts>>

(* The request returns an error, whichever of its calls failed. *)
Fail(r) ==
    /\ ~At(r, "off")
    /\ Goto(r, "off")
    /\ Local(r)

(* user_installation_ids: setup asks whether its installation is among     *)
(* them, caller_single_installation whether there is exactly one.          *)
ListInstallations(r) ==
    /\ At(r, "list")
    /\ LET ids == Visible(req[r].org) IN
       \/ /\ req[r].op = "setup"
          /\ Goto(r, IF req[r].inst \in ids THEN "meta" ELSE "off")
       \/ /\ req[r].op = "discover" /\ Cardinality(ids) # 1
          /\ Goto(r, "off")
       \/ /\ req[r].op = "discover" /\ Cardinality(ids) = 1
          /\ \E i \in ids : req' = [req EXCEPT ![r] = [@ EXCEPT !.inst = i, !.pc = "meta"]]
    /\ Local(r)

(* fetch_installation. *)
FetchInstallation(r) ==
    /\ At(r, "meta") /\ state[req[r].inst] # "gone"
    /\ req' = [req EXCEPT ![r] = [@ EXCEPT !.seen = state[req[r].inst], !.pc = "upsert"]]
    /\ Local(r)

UpsertInstallation(r) ==
    /\ At(r, "upsert")
    /\ UpsertRow(req[r].inst, req[r].seen)
    /\ Goto(r, "link")
    /\ UNCHANGED <<github, link, home, tracked, cache, hook, removal, history, counts>>

(* The end of github_setup, or discover goes on with a token. *)
LinkOrganization(r) ==
    /\ At(r, "link")
    /\ LinkTo(req[r].org, req[r].inst)
    /\ req' = [req EXCEPT ![r] = IF @.op = "setup" THEN Idle
                                 ELSE [@ EXCEPT !.pc = "read", !.healed = TRUE]]
    /\ UNCHANGED <<github, row, home, tracked, cache, hook, removal, floor, taken, excused, counts>>

(* repository_token goes by the repository, the others by the workspace. *)
Workspace(r) == IF req[r].op = "capture" THEN home[req[r].repo] ELSE req[r].org

(* discover the first time, and enable_tracking, want a fresh token. *)
Fresh(r) == req[r].op = "enable" \/ (req[r].op = "discover" /\ ~req[r].healed)

(* organization_installation_id: no installation is an error, a prompt, or *)
(* for discover a reason to look for one.                                  *)
ReadLink(r) ==
    /\ At(r, "read")
    /\ LET i == link[Workspace(r)] IN
       \/ /\ i = None
          /\ Goto(r, IF req[r].op = "discover" /\ ~req[r].healed THEN "list" ELSE "off")
       \/ /\ i # None
          /\ req' = [req EXCEPT ![r] = [@ EXCEPT !.inst = i, !.pc = IF Fresh(r) THEN "drop" ELSE "get"]]
    /\ Local(r)

(* Mutant: a fresh token is asked for without dropping the cached one. *)
DropTokenNot(r) ==
    /\ At(r, "drop")
    /\ req' = [req EXCEPT ![r] = [@ EXCEPT !.pc = "get", !.asked = epoch[req[r].inst]]]
    /\ UNCHANGED <<github, tables, cache, hook, removal, floor, moved, taken, excused, counts>>

(* invalidate_installation_token of a request. *)
DropToken(r) ==
    /\ At(r, "drop")
    /\ LET i == req[r].inst IN
        /\ cache' = [cache EXCEPT ![i] = {}]
        /\ req' = [Late(req, i) EXCEPT ![r] = [@ EXCEPT !.pc = "get", !.asked = epoch[i]]]
        /\ floor' = [floor EXCEPT ![i] = epoch[i]]
    /\ UNCHANGED <<github, tables, hook, removal, moved, taken, excused, counts>>

(* installation_token reads the cache. *)
GetToken(r) ==
    /\ At(r, "get")
    /\ \/ \E t \in cache[req[r].inst] : req' = [req EXCEPT ![r] = [@ EXCEPT !.tok = t, !.pc = "use"]]
       \/ cache[req[r].inst] = {} /\ Goto(r, "mint")
    /\ Local(r)

(* mint_installation_token: GitHub mints for an active installation. *)
MintToken(r) ==
    /\ At(r, "mint") /\ state[req[r].inst] = "active"
    /\ req' = [req EXCEPT ![r] = [@ EXCEPT !.pc = "store",
          !.tok = [scope |-> granted[req[r].inst], epoch |-> epoch[req[r].inst], late |-> FALSE]]]
    /\ Local(r)

(* The token is cached, unless it is about to expire. *)
StoreToken(r) ==
    /\ At(r, "store")
    /\ Goto(r, "use")
    /\ \/ cache' = [cache EXCEPT ![req[r].inst] = {req[r].tok}]
       \/ UNCHANGED cache
    /\ UNCHANGED <<github, tables, hook, removal, history, counts>>

(* discover lists, a capture downloads; enable_tracking reads the          *)
(* repository, which a token without it does not find.                     *)
UseToken(r) ==
    /\ At(r, "use")
    /\ Goto(r, IF /\ req[r].op = "enable"
                  /\ state[req[r].inst] = "active"
                  /\ req[r].repo \in req[r].tok.scope
               THEN "assign" ELSE "off")
    /\ Local(r)

(* enable_tracking looks whether another workspace has the repository. *)
CheckAssignment(r) ==
    /\ At(r, "assign")
    /\ Goto(r, IF home[req[r].repo] \in {None, req[r].org} THEN "commit" ELSE "off")
    /\ Local(r)

(* A workspace whose repositories an open removal has already stopped is   *)
(* given one more.                                                         *)
UnderRemoval(o) == \E d \in removal : o \in d.orgs

Excuse(r) ==
    excused' = IF req[r].crossed \/ req[r].tok.late \/ UnderRemoval(req[r].org)
               THEN excused \cup {req[r].repo} ELSE excused

(* Mutant: the upsert has no condition on the organization. *)
CommitTrackingAnywhere(r) ==
    /\ At(r, "commit") /\ ~Locked(req[r].repo)
    /\ home' = [home EXCEPT ![req[r].repo] = req[r].org]
    /\ tracked' = tracked \cup {req[r].repo}
    /\ Excuse(r)
    /\ Goto(r, "off")
    /\ UNCHANGED <<github, row, link, cache, hook, removal, floor, moved, taken, counts>>

(* The upsert, for a repository that no other workspace has taken since;   *)
(* a sync starts (RepositorySync).                                         *)
CommitTracking(r) ==
    /\ At(r, "commit") /\ ~Locked(req[r].repo)
    /\ home[req[r].repo] \in {None, req[r].org}
    /\ home' = [home EXCEPT ![req[r].repo] = req[r].org]
    /\ tracked' = tracked \cup {req[r].repo}
    /\ Excuse(r)
    /\ Goto(r, "off")
    /\ UNCHANGED <<github, row, link, cache, hook, removal, floor, moved, taken, counts>>

(* disable_tracking, by the workspace that has the repository. *)
DisableTracking(g) ==
    /\ g \in tracked /\ ~Locked(g)
    /\ Untrack({g})
    /\ UNCHANGED <<github, row, link, home, cache, req, hook, removal, floor, moved, taken, counts>>

-----------------------------------------------------------------------------
HubStep == \E i \in Insts :
    \/ SwitchSuspension(i) \/ Uninstall(i) \/ Expire(i)
    \/ \E g \in Repos : Grant(i, g) \/ Withdraw(i, g)

HookStep ==
    \/ DropByHook \/ HookFails \/ CommitRemoval
    \/ \E m \in deliveries :
          ApplyDeleted(m) \/ ApplySuspension(m) \/ ApplyCreated(m) \/ ApplyRepositories(m)

RequestStep(r) ==
    \/ \E o \in Orgs : \/ \E i \in Insts : Begin(r, "setup", o, None, i)
                      \/ Begin(r, "discover", o, None, None)
                      \/ \E g \in Repos, op \in {"enable", "capture"} : Begin(r, op, o, g, None)
    \/ ListInstallations(r) \/ FetchInstallation(r) \/ UpsertInstallation(r) \/ LinkOrganization(r)
    \/ ReadLink(r) \/ DropToken(r) \/ GetToken(r) \/ MintToken(r) \/ StoreToken(r) \/ UseToken(r)
    \/ CheckAssignment(r) \/ CommitTracking(r) \/ Fail(r)

Next ==
    \/ HubStep \/ HookStep
    \/ \E g \in Repos : DisableTracking(g)
    \/ \E r \in Slots : RequestStep(r)

Spec == Init /\ [][Next]_vars

-----------------------------------------------------------------------------
(* A token is scoped to what the installation could reach when it was      *)
(* minted, and so invalidate_installation_token is called before minting:  *)
(* the token discovery and enable_tracking then use is not older than      *)
(* their request, unless another request had minted it earlier and stored  *)
(* it only after the cache was emptied.                                    *)
FreshTokenIsFresh ==
    \A r \in Slots : At(r, "use") /\ Fresh(r) /\ ~req[r].tok.late => req[r].tok.epoch >= req[r].asked

(* "A just-removed one still readable until it expired" is what dropping   *)
(* the token is for: the cached token is not older than the last change    *)
(* whose webhook was applied, with the same exception.                     *)
CacheIsCurrent ==
    \A i \in Insts : \A t \in cache[i] : ~t.late => t.epoch >= floor[i]

(* "So nothing keeps trying to fetch data the App can no longer reach":    *)
(* the workspace of a tracked repository has an installation, unless       *)
(* another workspace took it over, which stops nothing, or a removal       *)
(* unlinked it that had stopped the repositories of others, or the request *)
(* that tracks the repository ran across the removal.                      *)
TrackedIsServed ==
    \A g \in tracked : link[home[g]] # None \/ home[g] \in moved \/ g \in excused

(* A repository that a webhook reported as removed from the installation   *)
(* and that was not added again is tracked only by a request that ran      *)
(* across the removal, or with a token of before it.                       *)
RemovedIsUntracked == taken \cap tracked \subseteq excused

(* A repository stays with the workspace that tracked it first, whoever    *)
(* else asked for it at the same time.                                     *)
RepositoryStays ==
    [][\A g \in Repos : home[g] # None => home'[g] = home[g]]_vars
=============================================================================
