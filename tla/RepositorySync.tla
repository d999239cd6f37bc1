---------------------------- MODULE RepositorySync ----------------------------
(***************************************************************************)
(* The backfill of one repository, gateway/src/repository_sync.rs, against *)
(* lists on GitHub that change under it, and the source-control webhooks   *)
(* of gateway/src/webhooks.rs that write the same rows.  A sync is a task  *)
(* spawned by enable_tracking; nothing keeps two of them apart.  An item   *)
(* of a list is a number with a version; an etag is the content of the     *)
(* first page.  Jobs, steps and what completed runs announce belong to     *)
(* RunIngest.                                                              *)
(***************************************************************************)
EXTENDS Naturals, Sequences, FiniteSets

CONSTANTS Syncs,      \* slots for tasks that run sync_repository
          Populated,  \* the resources that have items at first
          Length,     \* how many
          MaxItems,   \* bound: items of a resource
          PerPage,    \* items of a page (100 in the code)
          Scopes      \* bounds: slots used, changes on GitHub or of tracking, syncs
                      \* started, failed calls and crashes; a behaviour has one of these

Order == <<"branches", "commits", "pull_requests", "workflows", "workflow_runs">>
Resources == {Order[k] : k \in 1..Len(Order)}

(* Lists GitHub returns with what changed last, or is newest, first. *)
NewestFirst == {"commits", "pull_requests", "workflow_runs"}

Ids == 1..MaxItems

ASSUME SyncConstants ==
    /\ Populated \subseteq Resources
    /\ MaxItems \in Nat /\ Length \in 0..MaxItems
    /\ PerPage \in Nat \ {0}
    /\ Scopes \subseteq [slots : SUBSET Syncs, changes : Nat, starts : Nat, faults : Nat]

VARIABLES github,     \* github[r]: the ids of the list, in its order
          ver,        \* ver[r][i]: version of an item, 0 before it exists
          reviews,    \* reviews[i]: submission times of the reviews of a pull request
          deliveries, \* webhooks GitHub has sent; they come late, repeatedly or never
          tracked,    \* repositories.tracking_enabled
          status,     \* repository_sync_state.sync_status, "none" without a row
          cursor,     \* its cursor: the page to resume from, 0 for NULL
          etag,       \* its etag: {} for NULL
          stored,     \* stored[r][i]: version of the live row, 0 without one
          firstReview,\* pull_requests.first_review_at, 0 for NULL
          detailed,   \* pull requests whose sizes and counts are known
          pc,         \* pc[s]: where the task is
          at,         \* at[s]: position in Order
          page,       \* page[s]: the page to be fetched or held
          onFirst,    \* onFirst[s]: first_page
          tag,        \* tag[s]: etag to send, then etag received
          rows,       \* rows[s]: what the held page will store
          next,       \* next[s]: the page that follows the held one, 0 for none
          chain,      \* history: chain[s], items the walk of s set out to store
          walk,       \* history: walk[r], the chain that left the cursor
          promised,   \* history: promised[r], items a success has vouched for
          movedUp,    \* history: movedUp[r], items that moved to an earlier place
          overlapped, \* history: resources two tasks were at together
          stranded,   \* history: resources left syncing by a crash or a lost error
          slots, changes, starts, faults \* what the scope leaves

hub == <<github, ver, reviews, deliveries>>
sync == <<status, cursor, etag>>
facts == <<stored, firstReview, detailed>>
task == <<pc, at, page, onFirst, tag, rows, next, chain>>
history == <<walk, promised, movedUp, overlapped, stranded>>
counts == <<slots, changes, starts, faults>>
vars == <<hub, tracked, sync, facts, task, history, counts>>

Row == [id : Ids, ver : Nat, review : Nat, details : BOOLEAN]
Message == [kind : {"push", "delete", "pull_request", "review"},
            item : Ids, ver : Nat, ref : Nat]

(* s is between begin_resource and the end of the resource. *)
Walking(s) == pc[s] \in {"fetch", "prepare", "store", "finish", "failing"}
At(s) == Order[at[s]]

TypeOK ==
    /\ github \in [Resources -> Seq(Ids)]
    /\ ver \in [Resources -> [Ids -> Nat]]
    /\ reviews \in [Ids -> SUBSET (Nat \ {0})]
    /\ deliveries \subseteq Message
    /\ tracked \in BOOLEAN
    /\ status \in [Resources -> {"none", "idle", "syncing", "error"}]
    /\ cursor \in [Resources -> Nat]
    /\ etag \in [Resources -> SUBSET Seq(Ids \X Nat)]
    /\ stored \in [Resources -> [Ids -> Nat]]
    /\ firstReview \in [Ids -> Nat]
    /\ detailed \subseteq Ids
    /\ pc \in [Syncs -> {"off", "read", "begin", "fetch", "prepare", "store", "finish", "failing"}]
    /\ at \in [Syncs -> 1..Len(Order)]
    /\ page \in [Syncs -> Nat \ {0}]
    /\ onFirst \in [Syncs -> BOOLEAN]
    /\ tag \in [Syncs -> SUBSET Seq(Ids \X Nat)]
    /\ rows \in [Syncs -> Seq(Row)]
    /\ next \in [Syncs -> Nat]
    /\ chain \in [Syncs -> SUBSET Ids]
    /\ walk \in [Resources -> SUBSET Ids]
    /\ promised \in [Resources -> SUBSET Ids]
    /\ movedUp \in [Resources -> SUBSET Ids]
    /\ overlapped \subseteq Resources
    /\ stranded \subseteq Resources
    /\ slots \subseteq Syncs
    /\ changes \in Nat /\ starts \in Nat /\ faults \in Nat

Init ==
    /\ github = [r \in Resources |-> [k \in 1..(IF r \in Populated THEN Length ELSE 0) |-> k]]
    /\ ver = [r \in Resources |-> [i \in Ids |-> IF r \in Populated /\ i <= Length THEN 1 ELSE 0]]
    /\ reviews = [i \in Ids |-> {}]
    /\ deliveries = {}
    /\ tracked = FALSE
    /\ status = [r \in Resources |-> "none"]
    /\ cursor = [r \in Resources |-> 0]
    /\ etag = [r \in Resources |-> {}]
    /\ stored = [r \in Resources |-> [i \in Ids |-> 0]]
    /\ firstReview = [i \in Ids |-> 0]
    /\ detailed = {}
    /\ pc = [s \in Syncs |-> "off"]
    /\ at = [s \in Syncs |-> 1]
    /\ page = [s \in Syncs |-> 1]
    /\ onFirst = [s \in Syncs |-> FALSE]
    /\ tag = [s \in Syncs |-> {}]
    /\ rows = [s \in Syncs |-> <<>>]
    /\ next = [s \in Syncs |-> 0]
    /\ chain = [s \in Syncs |-> {}]
    /\ walk = [r \in Resources |-> {}]
    /\ promised = [r \in Resources |-> {}]
    /\ movedUp = [r \in Resources |-> {}]
    /\ overlapped = {} /\ stranded = {}
    /\ \E b \in Scopes : /\ slots = b.slots /\ changes = b.changes
                         /\ starts = b.starts /\ faults = b.faults

-----------------------------------------------------------------------------
(* GitHub. *)

Listed(r) == {github[r][k] : k \in 1..Len(github[r])}
Unborn(r) == Ids \ {i \in Ids : ver[r][i] > 0}
Newest(r) == CHOOSE i \in Unborn(r) : \A j \in Unborn(r) : i <= j
Place(r, i) == CHOOSE k \in 1..Len(github[r]) : github[r][k] = i
Without(r, i) ==
    [k \in 1..(Len(github[r]) - 1) |-> github[r][IF k < Place(r, i) THEN k ELSE k + 1]]
(* The last of all submission times so far. *)
LastReview == Cardinality(UNION {{<<i, t>> : t \in reviews[i]} : i \in Ids})

Send(kind, i, v, ref) ==
    deliveries' = deliveries \cup {[kind |-> kind, item |-> i, ver |-> v, ref |-> ref]}

Change ==
    /\ changes > 0
    /\ changes' = changes - 1
    /\ UNCHANGED <<tracked, sync, facts, task, walk, promised, overlapped, stranded,
                   slots, starts, faults>>

(* A push: a commit, newest first, on a branch that keeps its place.       *)
Push(b) ==
    /\ b \in Listed("branches") /\ Unborn("commits") # {}
    /\ LET c == Newest("commits") IN
        /\ github' = [github EXCEPT !["commits"] = <<c>> \o @]
        /\ ver' = [ver EXCEPT !["branches"][b] = @ + 1, !["commits"][c] = 1]
        /\ Send("push", b, ver["branches"][b] + 1, c)
    /\ UNCHANGED <<reviews, movedUp>>
    /\ Change

(* A branch is deleted: what follows it in the list moves up. *)
DeleteBranch(b) ==
    /\ b \in Listed("branches")
    /\ github' = [github EXCEPT !["branches"] = Without("branches", b)]
    /\ ver' = [ver EXCEPT !["branches"][b] = @ + 1]
    /\ Send("delete", b, ver["branches"][b] + 1, 0)
    /\ movedUp' = [movedUp EXCEPT !["branches"] =
          @ \cup {i \in Listed("branches") : Place("branches", i) >= Place("branches", b)}]
    /\ UNCHANGED reviews
    /\ Change

(* A pull request is updated and so becomes the first of its list; a       *)
(* review is an update too.                                                *)
UpdatePull(p, reviewed) ==
    /\ p \in Listed("pull_requests")
    /\ github' = [github EXCEPT !["pull_requests"] = <<p>> \o Without("pull_requests", p)]
    /\ ver' = [ver EXCEPT !["pull_requests"][p] = @ + 1]
    /\ movedUp' = [movedUp EXCEPT !["pull_requests"] = @ \cup {p}]
    /\ IF reviewed
       THEN /\ reviews' = [reviews EXCEPT ![p] = @ \cup {LastReview + 1}]
            /\ Send("review", p, ver["pull_requests"][p] + 1, LastReview + 1)
       ELSE /\ UNCHANGED reviews
            /\ Send("pull_request", p, ver["pull_requests"][p] + 1, 0)
    /\ Change

(* A new pull request or workflow run is the first of its list; a new      *)
(* branch or workflow may come last.                                       *)
Appear(r) ==
    /\ r # "commits" /\ Unborn(r) # {}
    /\ LET i == Newest(r) IN
        /\ github' = [github EXCEPT ![r] = IF r \in NewestFirst THEN <<i>> \o @ ELSE Append(@, i)]
        /\ ver' = [ver EXCEPT ![r][i] = 1]
        /\ CASE r = "pull_requests" -> Send("pull_request", i, 1, 0)
             [] r = "branches" -> Send("push", i, 1, 0)
             [] OTHER -> UNCHANGED deliveries
    /\ UNCHANGED <<reviews, movedUp>>
    /\ Change

-----------------------------------------------------------------------------
(* The rows. *)

(* Mutant: the incoming first_review_at replaces the one that is there. *)
LeastIncoming(a, b) == b

(* LEAST of Postgres ignores NULL. *)
Least(a, b) == IF a = 0 THEN b ELSE IF b = 0 THEN a ELSE IF a <= b THEN a ELSE b

(* upsert_pull_request, for a set of rows with different ids. *)
UpsertPulls(new) ==
    /\ stored' = [stored EXCEPT !["pull_requests"] =
          [i \in Ids |-> IF \E w \in new : w.id = i THEN (CHOOSE w \in new : w.id = i).ver ELSE @[i]]]
    /\ firstReview' = [i \in Ids |->
          IF \E w \in new : w.id = i
          THEN Least(firstReview[i], (CHOOSE w \in new : w.id = i).review)
          ELSE firstReview[i]]
    /\ detailed' = detailed \cup {w.id : w \in {v \in new : v.details}}

(* What a page of another resource does: the incoming columns win. *)
Upsert(r, new) ==
    /\ stored' = [stored EXCEPT ![r] =
          [i \in Ids |-> IF \E w \in new : w.id = i THEN (CHOOSE w \in new : w.id = i).ver ELSE @[i]]]
    /\ UNCHANGED <<firstReview, detailed>>

-----------------------------------------------------------------------------
(* Webhooks.  WebhookQueue says when a delivery is applied; here any that  *)
(* was sent may be, at any time and again, while the repository is tracked.*)

Apply(m, kind) == m \in deliveries /\ m.kind = kind /\ tracked

(* apply_push of a branch that was not deleted, with its commits. *)
ApplyPush(m) ==
    /\ Apply(m, "push")
    /\ stored' = [stored EXCEPT !["branches"][m.item] = m.ver,
                                !["commits"] = [i \in Ids |-> IF i = m.ref THEN 1 ELSE @[i]]]
    /\ UNCHANGED <<hub, tracked, sync, firstReview, detailed, task, history, counts>>

(* apply_push with deleted set: deleted_at is set and the row not live. *)
ApplyDelete(m) ==
    /\ Apply(m, "delete")
    /\ stored' = [stored EXCEPT !["branches"][m.item] = 0]
    /\ UNCHANGED <<hub, tracked, sync, firstReview, detailed, task, history, counts>>

(* apply_pull_request: the review time that is there is written again. *)
ApplyPullRequest(m) ==
    /\ Apply(m, "pull_request")
    /\ UpsertPulls({[id |-> m.item, ver |-> m.ver, review |-> firstReview[m.item], details |-> TRUE]})
    /\ UNCHANGED <<hub, tracked, sync, task, history, counts>>

(* Mutant: the time of the update is taken for that of the review. *)
ApplyReviewUpdated(m) ==
    /\ Apply(m, "review")
    /\ UpsertPulls({[id |-> m.item, ver |-> m.ver, details |-> FALSE,
                     review |-> Least(firstReview[m.item], m.ver)]})
    /\ UNCHANGED <<hub, tracked, sync, task, history, counts>>

(* apply_pull_request_review: the payload's pull request has no counts. *)
ApplyReview(m) ==
    /\ Apply(m, "review")
    /\ UpsertPulls({[id |-> m.item, ver |-> m.ver, details |-> FALSE,
                     review |-> Least(firstReview[m.item], m.ref)]})
    /\ UNCHANGED <<hub, tracked, sync, task, history, counts>>

-----------------------------------------------------------------------------
(* The sync. *)

Goto(s, where) == pc' = [pc EXCEPT ![s] = where]

(* enable_tracking commits and spawns a sync, whether or not one runs. *)
EnableTracking(s) ==
    /\ s \in slots /\ pc[s] = "off" /\ starts > 0
    /\ tracked' = TRUE
    /\ Goto(s, "read")
    /\ starts' = starts - 1
    /\ UNCHANGED <<hub, sync, facts, at, page, onFirst, tag, rows, next, chain, history,
                   slots, changes, faults>>

(* disable_tracking, or an installation event; a running sync goes on. *)
DisableTracking ==
    /\ tracked /\ changes > 0
    /\ tracked' = FALSE
    /\ changes' = changes - 1
    /\ UNCHANGED <<hub, sync, facts, task, history, slots, starts, faults>>

(* sync_repository reads the repository; one that is not tracked (any      *)
(* more) is not found.                                                     *)
ReadRepository(s) ==
    /\ pc[s] = "read"
    /\ Goto(s, IF tracked THEN "begin" ELSE "off")
    /\ at' = [at EXCEPT ![s] = 1]
    /\ UNCHANGED <<hub, tracked, sync, facts, page, onFirst, tag, rows, next, chain, history,
                   counts>>

Meet(s) ==
    overlapped' = overlapped \cup {At(q) : q \in {p \in Syncs \ {s} : Walking(p) /\ At(p) = At(s)}}

(* Mutant: without a cursor the walk starts at a page zero. *)
BeginAtZero(s) ==
    /\ pc[s] = "begin"
    /\ LET r == At(s) IN
        /\ status' = [status EXCEPT ![r] = "syncing"]
        /\ onFirst' = [onFirst EXCEPT ![s] = cursor[r] = 0]
        /\ page' = [page EXCEPT ![s] = cursor[r]]
        /\ tag' = [tag EXCEPT ![s] = etag[r]]
        /\ chain' = [chain EXCEPT ![s] = Listed(r)]
    /\ Goto(s, "fetch")
    /\ UNCHANGED <<hub, tracked, cursor, etag, facts, at, rows, next, history, counts>>

(* begin_resource, and where the walk starts: at the cursor, or at the     *)
(* first page with the stored etag.                                        *)
BeginResource(s) ==
    /\ pc[s] = "begin"
    /\ LET r == At(s) IN
        /\ status' = [status EXCEPT ![r] = "syncing"]
        /\ onFirst' = [onFirst EXCEPT ![s] = cursor[r] = 0]
        /\ page' = [page EXCEPT ![s] = IF cursor[r] = 0 THEN 1 ELSE cursor[r]]
        /\ tag' = [tag EXCEPT ![s] = IF cursor[r] = 0 THEN etag[r] ELSE {}]
        /\ chain' = [chain EXCEPT ![s] = IF cursor[r] = 0 THEN Listed(r) ELSE walk[r]]
        /\ Meet(s)
        /\ stranded' = stranded \ {r}
    /\ Goto(s, "fetch")
    /\ UNCHANGED <<hub, tracked, cursor, etag, facts, at, rows, next, walk, promised, movedUp,
                   counts>>

Low(a, b) == IF a <= b THEN a ELSE b

(* A page as GitHub lists it now: the ids with their versions. *)
PageOf(r, n) ==
    LET ids == SubSeq(github[r], (n - 1) * PerPage + 1, Low(n * PerPage, Len(github[r])))
    IN  [k \in 1..Len(ids) |-> <<ids[k], ver[r][ids[k]]>>]

(* next_link: GitHub names a next page if there is more. *)
NextPage(r, n) == IF n * PerPage < Len(github[r]) THEN n + 1 ELSE 0

(* page_envelope answers 304: the first page is what the etag says, and    *)
(* the resource is finished.  Only lists that put what is new first are    *)
(* vouched for by their first page.                                        *)
NotModified(s) ==
    /\ pc[s] = "fetch"
    /\ tag[s] = {PageOf(At(s), page[s])}
    /\ chain' = [chain EXCEPT ![s] = IF At(s) \in NewestFirst THEN Listed(At(s)) ELSE {}]
    /\ Goto(s, "finish")
    /\ UNCHANGED <<hub, tracked, sync, facts, at, page, onFirst, tag, rows, next, history, counts>>

FetchPage(s) ==
    /\ pc[s] = "fetch"
    /\ LET p == PageOf(At(s), page[s]) IN
        /\ tag[s] # {p}
        /\ tag' = [tag EXCEPT ![s] = {p}]
        /\ rows' = [rows EXCEPT ![s] =
              [k \in 1..Len(p) |-> [id |-> p[k][1], ver |-> p[k][2], review |-> 0, details |-> FALSE]]]
    /\ next' = [next EXCEPT ![s] = NextPage(At(s), page[s])]
    /\ Goto(s, IF At(s) = "pull_requests" THEN "prepare" ELSE "store")
    /\ UNCHANGED <<hub, tracked, sync, facts, at, page, onFirst, chain, history, counts>>

(* first_review_at of the client: the earliest of all submitted reviews. *)
EarliestReview(i) ==
    IF reviews[i] = {} THEN 0 ELSE CHOOSE t \in reviews[i] : \A u \in reviews[i] : t <= u

(* Before the transaction: each pull request is fetched again for its      *)
(* counts, and its first review is taken from the row or from GitHub.      *)
PreparePulls(s) ==
    /\ pc[s] = "prepare"
    /\ rows' = [rows EXCEPT ![s] = [k \in 1..Len(@) |->
          LET i == @[k].id IN
          [id |-> i, ver |-> ver["pull_requests"][i], details |-> TRUE,
           review |-> IF firstReview[i] # 0 THEN firstReview[i] ELSE EarliestReview(i)]]]
    /\ Goto(s, "store")
    /\ UNCHANGED <<hub, tracked, sync, facts, at, page, onFirst, tag, next, chain, history, counts>>

(* Mutant: the cursor is written only when the walk is over. *)
CheckpointLate(s) ==
    /\ cursor' = [cursor EXCEPT ![At(s)] = 0]
    /\ etag' = [etag EXCEPT ![At(s)] = IF onFirst[s] THEN tag[s] ELSE @]
    /\ walk' = [walk EXCEPT ![At(s)] = chain[s]]
    /\ UNCHANGED status

(* checkpoint, in the page's transaction: COALESCE keeps the etag of the   *)
(* first page.                                                             *)
Checkpoint(s) ==
    /\ cursor' = [cursor EXCEPT ![At(s)] = next[s]]
    /\ etag' = [etag EXCEPT ![At(s)] = IF onFirst[s] THEN tag[s] ELSE @]
    /\ walk' = [walk EXCEPT ![At(s)] = chain[s]]
    /\ UNCHANGED status

(* The commit of a page with its checkpoint, and the turn of the loop. *)
StorePage(s, r) ==
    /\ pc[s] = "store" /\ At(s) = r
    /\ Checkpoint(s)
    /\ onFirst' = [onFirst EXCEPT ![s] = FALSE]
    /\ tag' = [tag EXCEPT ![s] = {}]
    /\ rows' = [rows EXCEPT ![s] = <<>>]
    /\ IF next[s] = 0
       THEN Goto(s, "finish") /\ UNCHANGED page
       ELSE Goto(s, "fetch") /\ page' = [page EXCEPT ![s] = next[s]]
    /\ UNCHANGED <<hub, tracked, at, next, chain, promised, movedUp, overlapped, stranded, counts>>

Held(s) == {rows[s][k] : k \in 1..Len(rows[s])}

SyncBranches(s)     == StorePage(s, "branches")      /\ Upsert("branches", Held(s))
SyncCommits(s)      == StorePage(s, "commits")       /\ Upsert("commits", Held(s))
SyncPullRequests(s) == StorePage(s, "pull_requests") /\ UpsertPulls(Held(s))
SyncWorkflows(s)    == StorePage(s, "workflows")     /\ Upsert("workflows", Held(s))
SyncWorkflowRuns(s) == StorePage(s, "workflow_runs") /\ Upsert("workflow_runs", Held(s))

(* sync_repository goes on to the next resource, also after an error. *)
NextResource(s) ==
    /\ Goto(s, IF at[s] = Len(Order) THEN "off" ELSE "begin")
    /\ at' = [at EXCEPT ![s] = IF at[s] = Len(Order) THEN 1 ELSE @ + 1]

(* Mutant: finish_resource leaves the status alone. *)
FinishQuietly(s) ==
    /\ pc[s] = "finish"
    /\ cursor' = [cursor EXCEPT ![At(s)] = 0]
    /\ promised' = [promised EXCEPT ![At(s)] = @ \cup chain[s]]
    /\ NextResource(s)
    /\ UNCHANGED <<hub, tracked, status, etag, facts, page, onFirst, tag, rows, next, chain, walk,
                   movedUp, overlapped, stranded, counts>>

FinishResource(s) ==
    /\ pc[s] = "finish"
    /\ status' = [status EXCEPT ![At(s)] = "idle"]
    /\ cursor' = [cursor EXCEPT ![At(s)] = 0]
    /\ promised' = [promised EXCEPT ![At(s)] = @ \cup chain[s]]
    /\ NextResource(s)
    /\ UNCHANGED <<hub, tracked, etag, facts, page, onFirst, tag, rows, next, chain, walk, movedUp,
                   overlapped, stranded, counts>>

Fault == faults > 0 /\ faults' = faults - 1

(* A call to GitHub or the database fails, or a commit has no date. *)
SyncError(s) ==
    /\ pc[s] \in {"begin", "fetch", "prepare", "store", "finish"}
    /\ Fault
    /\ Meet(s)
    /\ Goto(s, "failing")
    /\ UNCHANGED <<hub, tracked, sync, facts, at, page, onFirst, tag, rows, next, chain, walk,
                   promised, movedUp, stranded, slots, changes, starts>>

(* Mutant: an error is only logged. *)
RecordNothing(s) ==
    /\ pc[s] = "failing"
    /\ NextResource(s)
    /\ UNCHANGED <<hub, tracked, sync, facts, page, onFirst, tag, rows, next, chain, history, counts>>

(* record_error: the cursor stays. *)
RecordError(s) ==
    /\ pc[s] = "failing"
    /\ status' = [status EXCEPT ![At(s)] = IF @ = "none" THEN "none" ELSE "error"]
    /\ NextResource(s)
    /\ UNCHANGED <<hub, tracked, cursor, etag, facts, page, onFirst, tag, rows, next, chain, history,
                   counts>>

Strand(s) == stranded' = IF Walking(s) THEN stranded \cup {At(s)} ELSE stranded

(* record_error fails too: sync_repository returns, with resources left. *)
RecordErrorFails(s) ==
    /\ pc[s] = "failing"
    /\ Fault
    /\ Strand(s)
    /\ Goto(s, "off")
    /\ UNCHANGED <<hub, tracked, sync, facts, at, page, onFirst, tag, rows, next, chain, walk,
                   promised, movedUp, overlapped, slots, changes, starts>>

(* The gateway stops while the task runs; nothing starts it again. *)
Crash(s) ==
    /\ pc[s] # "off"
    /\ Fault
    /\ Strand(s)
    /\ Goto(s, "off")
    /\ UNCHANGED <<hub, tracked, sync, facts, at, page, onFirst, tag, rows, next, chain, walk,
                   promised, movedUp, overlapped, slots, changes, starts>>

-----------------------------------------------------------------------------
HubStep ==
    \/ \E i \in Ids : Push(i) \/ DeleteBranch(i)
    \/ \E i \in Ids, reviewed \in BOOLEAN : UpdatePull(i, reviewed)
    \/ \E r \in Resources : Appear(r)

WebhookStep == \E m \in deliveries :
    ApplyPush(m) \/ ApplyDelete(m) \/ ApplyPullRequest(m) \/ ApplyReview(m)

SyncStep(s) ==
    \/ ReadRepository(s) \/ BeginResource(s) \/ NotModified(s) \/ FetchPage(s) \/ PreparePulls(s)
    \/ SyncBranches(s) \/ SyncCommits(s) \/ SyncPullRequests(s) \/ SyncWorkflows(s)
    \/ SyncWorkflowRuns(s) \/ FinishResource(s) \/ RecordError(s)

Next ==
    \/ HubStep \/ WebhookStep \/ DisableTracking
    \/ \E s \in Syncs : \/ EnableTracking(s) \/ SyncStep(s)
                        \/ SyncError(s) \/ RecordErrorFails(s) \/ Crash(s)

Spec == Init /\ [][Next]_vars

(* A spawned task runs until it returns: its calls are answered or fail. *)
FairSpec == Spec /\ \A s \in Syncs : WF_vars(SyncStep(s))

-----------------------------------------------------------------------------
(* A resource that was marked as synced has every item the walk set out    *)
(* for, however often the walk was interrupted and resumed from its cursor *)
(* or cut short by a 304, and its pull requests have their counts.  Two    *)
(* exceptions: items that moved to an earlier place behind the walk's back,*)
(* and resources that two syncs walked at once.                            *)
SuccessIsComplete ==
    \A r \in Resources \ overlapped : \A i \in promised[r] \ movedUp[r] :
        /\ stored[r][i] > 0
        /\ r = "pull_requests" => i \in detailed

(* sync_status tells what is going on: syncing means that a task is at it, *)
(* or that one died or could not write its error; idle or error means that *)
(* none is.  Two syncs of one resource take this away.                     *)
StatusIsHonest ==
    \A r \in Resources \ overlapped :
        /\ status[r] = "syncing" => r \in stranded \/ \E s \in Syncs : Walking(s) /\ At(s) = r
        /\ \A s \in Syncs : At(s) = r /\ Walking(s) /\ pc[s] # "failing" => status[r] = "syncing"

(* first_review_at is the time of a review that happened, and no write, be *)
(* it of a page prepared before the review, makes it later or forgets it.  *)
FirstReviewIsReal == \A i \in Ids : firstReview[i] = 0 \/ firstReview[i] \in reviews[i]
FirstReviewOnlyEarlier ==
    [][\A i \in Ids : firstReview[i] # 0 => firstReview'[i] \in 1..firstReview[i]]_vars

(* No resource stays syncing for ever, unless its task died or its error   *)
(* could not be written: after the last of the syncs that were started,    *)
(* whatever failed in them, no status is left behind.                      *)
SyncsSettle == []<>(\A r \in Resources : status[r] = "syncing" => r \in stranded)
=============================================================================
