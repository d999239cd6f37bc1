----------------------------- MODULE WebhookQueue -----------------------------
(***************************************************************************)
(* The webhook inbox: gateway/src/webhooks.rs stores every delivery once,  *)
(* keyed by its delivery id, and a processor per gateway replica claims,   *)
(* applies, settles or fails deliveries.  What a delivery does to the      *)
(* facts is the business of other modules; here only the claim that had an *)
(* effect is recorded.                                                     *)
(***************************************************************************)
EXTENDS Naturals, FiniteSets

CONSTANTS Deliveries,   \* delivery ids
          Lifecycle,    \* installation and installation_repositories events
          Processors,   \* one per gateway replica
          MAX_ATTEMPTS, \* claims before a delivery is given up (5 in the code)
          MaxFaults     \* bound: errors, crashes, switches of tracking

ASSUME QueueConstants ==
    /\ IsFiniteSet(Deliveries) /\ Deliveries # {}
    /\ Lifecycle \subseteq Deliveries
    /\ MAX_ATTEMPTS \in Nat \ {0}
    /\ MaxFaults \in Nat

VARIABLES status,   \* status[d]: the row's status, "none" if not received
          valid,    \* valid[d]: signature_valid
          attempts, \* attempts[d]
          arrived,  \* arrived[d]: position in received_at order, 0 if none
          tracked,  \* the repository of the deliveries is tracked
          pc,       \* pc[p]: where processor p is
          work,     \* work[p]: the delivery p has claimed (last)
          ticket,   \* ticket[p]: the attempt p's claim is
          effects,  \* history: effects[d], attempts that committed an effect of d
          stranded, \* history: failures that could not be recorded
          faults    \* errors, crashes and switches of tracking so far

row == <<status, valid, attempts, arrived>>
processor == <<pc, work, ticket>>
vars == <<row, tracked, processor, effects, stranded, faults>>

Status == {"none", "received", "processing", "processed", "ignored", "failed"}

(* p holds a claim. *)
Busy(p) == pc[p] \in {"claimed", "applying", "marking", "failing"}

TypeOK ==
    /\ status \in [Deliveries -> Status]
    /\ valid \in [Deliveries -> BOOLEAN]
    /\ attempts \in [Deliveries -> 0..MAX_ATTEMPTS]
    /\ arrived \in [Deliveries -> Nat]
    /\ tracked \in BOOLEAN
    /\ pc \in [Processors -> {"down", "idle", "claimed", "applying", "marking", "failing"}]
    /\ work \in [Processors -> Deliveries]
    /\ ticket \in [Processors -> 0..MAX_ATTEMPTS]
    /\ effects \in [Deliveries -> SUBSET (1..MAX_ATTEMPTS)]
    /\ stranded \subseteq Deliveries
    /\ faults \in 0..MaxFaults

Init ==
    /\ status = [d \in Deliveries |-> "none"]
    /\ valid = [d \in Deliveries |-> FALSE]
    /\ attempts = [d \in Deliveries |-> 0]
    /\ arrived = [d \in Deliveries |-> 0]
    /\ tracked \in BOOLEAN
    /\ pc = [p \in Processors |-> "down"]
    /\ work \in [Processors -> {CHOOSE d \in Deliveries : TRUE}]
    /\ ticket = [p \in Processors |-> 0]
    /\ effects = [d \in Deliveries |-> {}]
    /\ stranded = {}
    /\ faults = 0

-----------------------------------------------------------------------------
(* receive: the first request with this delivery id makes the row, whether *)
(* its signature verifies or not; any later one changes nothing.           *)
Receive(d, ok) ==
    /\ status[d] = "none"
    /\ status' = [status EXCEPT ![d] = IF ok THEN "received" ELSE "ignored"]
    /\ valid' = [valid EXCEPT ![d] = ok]
    /\ arrived' = [arrived EXCEPT ![d] = 1 + Cardinality({c \in Deliveries : status[c] # "none"})]
    /\ UNCHANGED <<attempts, tracked, processor, effects, stranded, faults>>

(* A user starts or stops tracking the repository; an installation event   *)
(* may stop it as well.                                                    *)
EnableTracking ==
    /\ ~tracked
    /\ faults < MaxFaults
    /\ tracked' = TRUE
    /\ faults' = faults + 1
    /\ UNCHANGED <<row, processor, effects, stranded>>

DisableTracking ==
    /\ tracked
    /\ faults < MaxFaults
    /\ tracked' = FALSE
    /\ faults' = faults + 1
    /\ UNCHANGED <<row, processor, effects, stranded>>

(* Mutant: recovery resets the attempts as well. *)
StartForgets(p) ==
    /\ pc[p] = "down"
    /\ pc' = [pc EXCEPT ![p] = "idle"]
    /\ status' = [d \in Deliveries |-> IF status[d] = "processing" THEN "failed" ELSE status[d]]
    /\ attempts' = [d \in Deliveries |-> IF status[d] = "processing" THEN 0 ELSE attempts[d]]
    /\ stranded' = {}
    /\ UNCHANGED <<valid, arrived, tracked, work, ticket, effects, faults>>

(* Mutant: what a dead replica left in processing is not recovered. *)
StartBlind(p) ==
    /\ pc[p] = "down"
    /\ pc' = [pc EXCEPT ![p] = "idle"]
    /\ UNCHANGED <<row, tracked, work, ticket, effects, stranded, faults>>

(* run_processor starts: every delivery in processing is marked failed, be *)
(* its processor dead or another live replica.                             *)
Start(p) ==
    /\ pc[p] = "down"
    /\ pc' = [pc EXCEPT ![p] = "idle"]
    /\ status' = [d \in Deliveries |-> IF status[d] = "processing" THEN "failed" ELSE status[d]]
    /\ stranded' = {}
    /\ UNCHANGED <<valid, attempts, arrived, tracked, work, ticket, effects, faults>>

(* The recovery UPDATE fails: the error is logged and the loop is entered  *)
(* all the same, so what dead processors held is left to the next start.   *)
StartUnrecovered(p) ==
    /\ pc[p] = "down"
    /\ faults < MaxFaults
    /\ faults' = faults + 1
    /\ pc' = [pc EXCEPT ![p] = "idle"]
    /\ stranded' = stranded \cup {d \in Deliveries :
          /\ status[d] = "processing"
          /\ ~\E q \in Processors \ {p} : work[q] = d /\ (Busy(q) \/ pc[q] = "down")}
    /\ UNCHANGED <<row, tracked, work, ticket, effects>>

(* Mutant: rows whose signature is not valid are claimed too. *)
ClaimableUnsigned ==
    {d \in Deliveries : /\ status[d] \in {"received", "failed", "ignored"}
                        /\ attempts[d] < MAX_ATTEMPTS}

(* Mutant: failed deliveries are retried without limit. *)
ClaimableForEver == {d \in Deliveries : status[d] \in {"received", "failed"} /\ valid[d]}

Claimable ==
    {d \in Deliveries : /\ status[d] \in {"received", "failed"}
                        /\ valid[d] /\ attempts[d] < MAX_ATTEMPTS}

(* claim_delivery: the oldest claimable row, in one short transaction. *)
Claim(p, d) ==
    /\ pc[p] = "idle"
    /\ d \in Claimable /\ \A c \in Claimable : arrived[d] <= arrived[c]
    /\ pc' = [pc EXCEPT ![p] = "claimed"]
    /\ work' = [work EXCEPT ![p] = d]
    /\ ticket' = [ticket EXCEPT ![p] = attempts[d] + 1]
    /\ status' = [status EXCEPT ![d] = "processing"]
    /\ attempts' = [attempts EXCEPT ![d] = @ + 1]
    /\ UNCHANGED <<valid, arrived, tracked, effects, stranded, faults>>

-----------------------------------------------------------------------------
(* apply_delivery. *)

MarkRow(p, s) == status' = [status EXCEPT ![work[p]] = s]

(* fetch_repo_context finds the repository tracked: the transaction opens. *)
FetchContext(p) ==
    /\ pc[p] = "claimed" /\ work[p] \notin Lifecycle
    /\ tracked
    /\ pc' = [pc EXCEPT ![p] = "applying"]
    /\ UNCHANGED <<row, tracked, work, ticket, effects, stranded, faults>>

IgnoreUntracked(p) ==
    /\ pc[p] = "claimed" /\ work[p] \notin Lifecycle
    /\ ~tracked
    /\ MarkRow(p, "ignored")
    /\ pc' = [pc EXCEPT ![p] = "idle"]
    /\ UNCHANGED <<valid, attempts, arrived, tracked, work, ticket, effects, stranded, faults>>

(* Mutant: the row is marked before, not with, the effect. *)
CommitMarkOnly(p) ==
    /\ pc[p] = "applying"
    /\ MarkRow(p, "processed")
    /\ pc' = [pc EXCEPT ![p] = "idle"]
    /\ UNCHANGED <<valid, attempts, arrived, tracked, work, ticket, effects, stranded, faults>>

(* One transaction: the effect and the row's new status. *)
Commit(p) ==
    /\ pc[p] = "applying"
    /\ \/ /\ MarkRow(p, "processed")
          /\ effects' = [effects EXCEPT ![work[p]] = @ \cup {ticket[p]}]
       \/ MarkRow(p, "ignored") /\ UNCHANGED effects
    /\ pc' = [pc EXCEPT ![p] = "idle"]
    /\ UNCHANGED <<valid, attempts, arrived, tracked, work, ticket, stranded, faults>>

(* apply_installation, apply_installation_repositories: the effects are    *)
(* committed first, mark_delivery is a statement of its own.               *)
ApplyLifecycle(p) ==
    /\ pc[p] = "claimed" /\ work[p] \in Lifecycle
    /\ effects' = [effects EXCEPT ![work[p]] = @ \cup {ticket[p]}]
    /\ pc' = [pc EXCEPT ![p] = "marking"]
    /\ UNCHANGED <<row, tracked, work, ticket, stranded, faults>>

(* A payload without an installation id: nothing to apply. *)
IgnoreLifecycle(p) ==
    /\ pc[p] = "claimed" /\ work[p] \in Lifecycle
    /\ MarkRow(p, "ignored")
    /\ pc' = [pc EXCEPT ![p] = "idle"]
    /\ UNCHANGED <<valid, attempts, arrived, tracked, work, ticket, effects, stranded, faults>>

MarkLifecycle(p) ==
    /\ pc[p] = "marking"
    /\ MarkRow(p, "processed")
    /\ pc' = [pc EXCEPT ![p] = "idle"]
    /\ UNCHANGED <<valid, attempts, arrived, tracked, work, ticket, effects, stranded, faults>>

(* apply_delivery returns an error. *)
ApplyError(p) ==
    /\ pc[p] \in {"claimed", "applying", "marking"}
    /\ faults < MaxFaults
    /\ faults' = faults + 1
    /\ pc' = [pc EXCEPT ![p] = "failing"]
    /\ UNCHANGED <<row, tracked, work, ticket, effects, stranded>>

(* process_one records the failure, whatever the status has become. *)
MarkFailed(p) ==
    /\ pc[p] = "failing"
    /\ MarkRow(p, "failed")
    /\ pc' = [pc EXCEPT ![p] = "idle"]
    /\ UNCHANGED <<valid, attempts, arrived, tracked, work, ticket, effects, stranded, faults>>

(* ... or cannot: the row stays in processing until a replica starts. *)
MarkFailedError(p) ==
    /\ pc[p] = "failing"
    /\ faults < MaxFaults
    /\ faults' = faults + 1
    /\ pc' = [pc EXCEPT ![p] = "idle"]
    /\ stranded' = stranded \cup {work[p]}
    /\ UNCHANGED <<row, tracked, work, ticket, effects>>

(* The replica dies; an open transaction is rolled back. *)
Crash(p) ==
    /\ pc[p] # "down"
    /\ faults < MaxFaults
    /\ faults' = faults + 1
    /\ pc' = [pc EXCEPT ![p] = "down"]
    /\ UNCHANGED <<row, tracked, work, ticket, effects, stranded>>

-----------------------------------------------------------------------------
ProcessorStep(p) ==
    \/ \E d \in Deliveries : Claim(p, d)
    \/ FetchContext(p) \/ IgnoreUntracked(p) \/ Commit(p)
    \/ ApplyLifecycle(p) \/ IgnoreLifecycle(p) \/ MarkLifecycle(p)
    \/ MarkFailed(p)

Next ==
    \/ \E d \in Deliveries, ok \in BOOLEAN : Receive(d, ok)
    \/ EnableTracking \/ DisableTracking
    \/ \E p \in Processors : \/ Start(p) \/ ProcessorStep(p)
                             \/ StartUnrecovered(p) \/ ApplyError(p)
                             \/ MarkFailedError(p) \/ Crash(p)

Spec == Init /\ [][Next]_vars

(* A replica that is down is started again, and a running one polls every  *)
(* second and gets through what it has claimed.                            *)
Fairness == \A p \in Processors : WF_vars(Start(p)) /\ WF_vars(ProcessorStep(p))

FairSpec == Spec /\ Fairness

-----------------------------------------------------------------------------
(* A claim never outlives its number: two processors that hold the same    *)
(* delivery (after a restart stole it) do so on different attempts, so the *)
(* work done for a delivery is bounded by MAX_ATTEMPTS, thefts included.   *)
ClaimsNumbered ==
    \A p \in Processors : Busy(p) =>
        /\ ticket[p] \in 1..attempts[work[p]]
        /\ \A q \in Processors : Busy(q) /\ q # p /\ work[q] = work[p] => ticket[q] # ticket[p]

(* A claim has at most one effect, so a delivery is applied at most        *)
(* MAX_ATTEMPTS times however often it fails, is stolen or is replayed;    *)
(* and what has no valid signature is never claimed.                       *)
EffectsBounded ==
    /\ \A d \in Deliveries : /\ effects[d] \subseteq 1..attempts[d]
                             /\ status[d] = "none" \/ ~valid[d] => attempts[d] = 0
    /\ \A p \in Processors : pc[p] \in {"claimed", "applying"}
                                  => ticket[p] \notin effects[work[p]]

(* A delivery is processed only with its effect committed; the status of   *)
(* one in processing is owed to a processor, to one that died and is yet   *)
(* to start, or to a failure or a recovery that could not be written.      *)
ProcessedIsApplied ==
    /\ \A d \in Deliveries :
        /\ status[d] = "processed" => effects[d] # {}
        /\ status[d] = "processing" =>
              \/ d \in stranded
              \/ \E p \in Processors : work[p] = d /\ (Busy(p) \/ pc[p] = "down")
    /\ \A p \in Processors : pc[p] = "marking" => ticket[p] \in effects[work[p]]

(* The inductive invariant of the queue. *)
QueueInv == ClaimsNumbered /\ EffectsBounded /\ ProcessedIsApplied

Settled(d) ==
    \/ status[d] \in {"processed", "ignored"}
    \/ status[d] = "failed" /\ attempts[d] = MAX_ATTEMPTS

(* Every received delivery is processed, ignored or given up after         *)
(* MAX_ATTEMPTS claims, unless its failure could not be recorded: a        *)
(* failing delivery at the head of the queue does not block it for ever.   *)
DeliveriesSettle ==
    \A d \in Deliveries : status[d] = "received" ~> Settled(d) \/ d \in stranded
=============================================================================
