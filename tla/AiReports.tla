------------------------------ MODULE AiReports ------------------------------
(***************************************************************************)
(* The AI worker (ai-worker/src/buildlens_ai): how an event, a schedule, a *)
(* manual request or the recovery pass becomes a claim on an ai_reports    *)
(* row, and how ReportProcessor.process turns a claim into a paid model    *)
(* call admitted under the monthly budget lock.                            *)
(*                                                                         *)
(* A task is an asyncio task of some replica: the consumer (prefetch 1),   *)
(* the scheduler loop, or one spawned by /reports/retrigger.  Any task may *)
(* be on a replica of its own, so they crash one by one.  Every generation *)
(* costs one unit, the price projected_cost reserves for it.               *)
(***************************************************************************)
EXTENDS Naturals, FiniteSets

CONSTANTS Events,      \* events of the buildlens.events exchange
          Reports,     \* ai_reports rows: a (run, kind), or a repo_health row
          ReportOf,    \* ReportOf[e]: the row e asks for, NoReport if none
          Health,      \* the repo_health rows of one repository and one day
          NoReport, NoEvent, NoTask,
          Consumers, Schedulers, Retriggers,
          Cap,         \* ai_monthly_cost_cap_usd, in generations
          MaxCopies,   \* bound: copies of an event the relay delivers
          MaxRetries,  \* bound: manual requests
          MaxMonth,    \* bound: months that pass
          MaxFaults    \* bound: crashes, lost sessions, unusable paid answers

Tasks == Consumers \cup Schedulers \cup Retriggers
Months == 1..MaxMonth

ASSUME AiConstants ==
    /\ ReportOf \in [Events -> Reports \cup {NoReport}]
    /\ Health \subseteq Reports
    /\ \A e, f \in Events : ReportOf[e] = ReportOf[f] /\ ReportOf[e] \in Health => e = f
    /\ NoReport \notin Reports /\ NoEvent \notin Events /\ NoTask \notin Tasks
    /\ Cap \in Nat /\ MaxCopies \in Nat /\ MaxRetries \in Nat /\ MaxFaults \in Nat
    /\ MaxMonth \in Nat \ {0}

VARIABLES queue,     \* queue[e]: copies of e in the ai queue
          receipt,   \* receipt[e]: the ai_event_receipts row
          report,    \* report[k]: ai_reports.status
          stale,     \* stale[k]: updated_at is more than 900 s ago
          source,    \* source[k]: the event whose receipt points to k
          requested, \* requested[k]: month of requested_at
          recorded,  \* recorded[m]: sum of cost_usd over rows requested in m
          pc,        \* pc[t]: where in process task t is
          held,      \* held[t]: the event whose message t has not acked
          claim,     \* claim[t]: the row t works on
          via,       \* via[t]: the claim carries a receipt_id
          batch,     \* batch[t]: rows t has recovered and not started on
          lock,      \* the task whose session holds the budget lock
          month,     \* now
          billed,    \* history: billed[m], generations paid for in month m
          foreign,   \* history: those made for rows requested in another month
          slips,     \* history: costs never recorded and locks lost
          retries,   \* manual requests so far
          faults     \* faults so far

ledger == <<report, stale, source, requested>>
tasks == <<pc, held, claim, via, batch>>
money == <<month, billed, foreign, slips>>
vars == <<queue, receipt, ledger, recorded, tasks, lock, money, retries, faults>>

Status == {"none", "pending", "processing", "completed", "failed"}
Working == {"working", "locked", "generating", "generated"}

TypeOK ==
    /\ queue \in [Events -> 0..MaxCopies]
    /\ receipt \in [Events -> Status]
    /\ report \in [Reports -> Status]
    /\ stale \in [Reports -> BOOLEAN]
    /\ source \in [Reports -> Events \cup {NoEvent}]
    /\ requested \in [Reports -> Months]
    /\ recorded \in [Months -> Nat]
    /\ pc \in [Tasks -> {"idle", "claimed"} \cup Working]
    /\ held \in [Tasks -> Events \cup {NoEvent}]
    /\ claim \in [Tasks -> Reports \cup {NoReport}]
    /\ \A t \in Tasks : pc[t] # "idle" => claim[t] \in Reports
    /\ via \in [Tasks -> BOOLEAN]
    /\ batch \in [Tasks -> SUBSET Reports]
    /\ lock \in Tasks \cup {NoTask}
    /\ month \in Months
    /\ billed \in [Months -> Nat]
    /\ foreign \in [Months -> Nat]
    /\ slips \in 0..MaxFaults
    /\ retries \in 0..MaxRetries
    /\ faults \in 0..MaxFaults

(* The worker starts on a queue that holds every copy it will ever get. *)
Init ==
    /\ queue \in [Events -> 1..MaxCopies]
    /\ receipt = [e \in Events |-> "none"]
    /\ report = [k \in Reports |-> "none"]
    /\ stale = [k \in Reports |-> FALSE]
    /\ source = [k \in Reports |-> NoEvent]
    /\ requested = [k \in Reports |-> 1]
    /\ recorded = [m \in Months |-> 0]
    /\ pc = [t \in Tasks |-> "idle"]
    /\ held = [t \in Tasks |-> NoEvent]
    /\ claim = [t \in Tasks |-> NoReport]
    /\ via = [t \in Tasks |-> FALSE]
    /\ batch = [t \in Tasks |-> {}]
    /\ lock = NoTask
    /\ month = 1
    /\ billed = [m \in Months |-> 0]
    /\ foreign = [m \in Months |-> 0]
    /\ slips = 0
    /\ retries = 0
    /\ faults = 0

-----------------------------------------------------------------------------
(* How a claim comes about. *)

StartsWith(t, k, withReceipt, at) ==
    /\ pc' = [pc EXCEPT ![t] = at]
    /\ claim' = [claim EXCEPT ![t] = k]
    /\ via' = [via EXCEPT ![t] = withReceipt]

(* INSERT INTO ai_reports ... 'pending', requested_at = now(). *)
InsertReport(k, e) ==
    /\ report' = [report EXCEPT ![k] = "pending"]
    /\ stale' = [stale EXCEPT ![k] = FALSE]
    /\ source' = [source EXCEPT ![k] = e]
    /\ requested' = [requested EXCEPT ![k] = month]

(* event_report_kind raises InvalidEventError, for instance because the    *)
(* run's row is back in progress: the message is dead-lettered.            *)
Reject(t, e) ==
    /\ t \in Consumers /\ pc[t] = "idle" /\ queue[e] > 0
    /\ queue' = [queue EXCEPT ![e] = @ - 1]
    /\ UNCHANGED <<receipt, ledger, recorded, tasks, lock, money, retries, faults>>

(* claim_event finds nothing to do: the event has its receipt, it asks for *)
(* no report, or the report of that run and kind exists.  The receipt is   *)
(* completed and the message acked.                                        *)
IgnoreEvent(t, e) ==
    /\ t \in Consumers /\ pc[t] = "idle" /\ queue[e] > 0
    /\ \/ receipt[e] # "none" /\ UNCHANGED receipt
       \/ /\ receipt[e] = "none"
          /\ ReportOf[e] = NoReport \/ report[ReportOf[e]] # "none"
          /\ receipt' = [receipt EXCEPT ![e] = "completed"]
    /\ queue' = [queue EXCEPT ![e] = @ - 1]
    /\ UNCHANGED <<ledger, recorded, tasks, lock, money, retries, faults>>

(* Mutant: the receipt is inserted in a transaction of its own. *)
ClaimEventInTwo(t, e) ==
    /\ t \in Consumers /\ pc[t] = "idle" /\ queue[e] > 0
    /\ receipt[e] = "none" /\ ReportOf[e] # NoReport /\ report[ReportOf[e]] = "none"
    /\ receipt' = [receipt EXCEPT ![e] = "pending"]
    /\ UNCHANGED <<queue, ledger, recorded, tasks, lock, money, retries, faults>>

(* claim_event: the receipt and the report are inserted together. *)
ClaimEvent(t, e) ==
    /\ t \in Consumers /\ pc[t] = "idle" /\ queue[e] > 0
    /\ receipt[e] = "none" /\ ReportOf[e] # NoReport /\ report[ReportOf[e]] = "none"
    /\ queue' = [queue EXCEPT ![e] = @ - 1]
    /\ held' = [held EXCEPT ![t] = e]
    /\ receipt' = [receipt EXCEPT ![e] = "pending"]
    /\ InsertReport(ReportOf[e], e)
    /\ StartsWith(t, ReportOf[e], TRUE, "claimed")
    /\ UNCHANGED <<recorded, batch, lock, money, retries, faults>>

(* manual_retrigger: a run's report that is missing or failed. *)
Retrigger(t, k) ==
    /\ t \in Retriggers /\ pc[t] = "idle" /\ k \notin Health
    /\ \/ report[k] = "none" /\ InsertReport(k, NoEvent)
       \/ /\ report[k] = "failed"
          /\ report' = [report EXCEPT ![k] = "pending"]
          /\ stale' = [stale EXCEPT ![k] = FALSE]
          /\ UNCHANGED <<source, requested>>
    /\ retries < MaxRetries
    /\ retries' = retries + 1
    /\ StartsWith(t, k, FALSE, "claimed")
    /\ UNCHANGED <<queue, receipt, recorded, held, batch, lock, money, faults>>

(* claim_scheduled, under its own advisory lock: only if the day has no    *)
(* repo_health row yet.                                                    *)
ClaimScheduled(t, k) ==
    /\ t \in Schedulers /\ pc[t] = "idle" /\ batch[t] = {}
    /\ k \in Health \ {ReportOf[e] : e \in Events}
    /\ \A j \in Health : report[j] = "none"
    /\ InsertReport(k, NoEvent)
    /\ StartsWith(t, k, FALSE, "claimed")
    /\ UNCHANGED <<queue, receipt, recorded, held, batch, lock, money, retries, faults>>

(* Mutant: rows that nobody has started on are left alone. *)
RecoverableOnlyStale == {k \in Reports : report[k] = "processing" /\ stale[k]}

Recoverable == {k \in Reports : \/ report[k] = "pending"
                                \/ report[k] = "processing" /\ stale[k]}

(* claim_recoverable_reports: all of them (limit 10) in one transaction. *)
Recover(t) ==
    /\ t \in Schedulers /\ pc[t] = "idle" /\ batch[t] = {}
    /\ Recoverable # {}
    /\ batch' = [batch EXCEPT ![t] = Recoverable]
    /\ report' = [k \in Reports |-> IF k \in Recoverable THEN "processing" ELSE report[k]]
    /\ stale' = [k \in Reports |-> stale[k] /\ k \notin Recoverable]
    /\ receipt' = [e \in Events |->
          IF \E k \in Recoverable : source[k] = e THEN "processing" ELSE receipt[e]]
    /\ UNCHANGED <<queue, source, requested, recorded, pc, held, claim, via, lock, money, retries, faults>>

(* recover: the claims are processed one after the other. *)
NextRecovered(t, k) ==
    /\ pc[t] = "idle" /\ k \in batch[t]
    /\ batch' = [batch EXCEPT ![t] = @ \ {k}]
    /\ StartsWith(t, k, source[k] # NoEvent, "working")
    /\ UNCHANGED <<queue, receipt, ledger, recorded, held, lock, money, retries, faults>>

-----------------------------------------------------------------------------
(* ReportProcessor.process. *)

(* The claim's receipt, if it carries one, gets the report's status. *)
MarkReceipt(t, status) ==
    receipt' = IF via[t] THEN [receipt EXCEPT ![source[claim[t]]] = status] ELSE receipt

(* mark_processing: no row matches if the report is completed; the task    *)
(* goes on all the same.                                                   *)
MarkProcessing(t) ==
    /\ pc[t] = "claimed"
    /\ pc' = [pc EXCEPT ![t] = "working"]
    /\ report' = [report EXCEPT ![claim[t]] = IF @ = "completed" THEN @ ELSE "processing"]
    /\ stale' = [stale EXCEPT ![claim[t]] = FALSE]
    /\ MarkReceipt(t, "processing")
    /\ UNCHANGED <<queue, source, requested, recorded, held, claim, via, batch, lock, money, retries, faults>>

(* Mutant: the budget lock is not taken. *)
AcquireLockFree(t) ==
    /\ pc[t] = "working"
    /\ lock' = t
    /\ pc' = [pc EXCEPT ![t] = "locked"]
    /\ UNCHANGED <<queue, receipt, ledger, recorded, held, claim, via, batch, money, retries, faults>>

(* monthly_budget_lock: pg_advisory_lock, held by the session. *)
AcquireLock(t) ==
    /\ pc[t] = "working"
    /\ lock = NoTask
    /\ lock' = t
    /\ pc' = [pc EXCEPT ![t] = "locked"]
    /\ UNCHANGED <<queue, receipt, ledger, recorded, held, claim, via, batch, money, retries, faults>>

(* Mutant: the projected cost is left out of the comparison. *)
WithinCapSpentOnly == recorded[month] <= Cap

(* spent + projected <= cap, spent being the rows requested this month. *)
WithinCap == recorded[month] + 1 <= Cap

Admit(t) ==
    /\ pc[t] = "locked" /\ lock = t
    /\ WithinCap
    /\ pc' = [pc EXCEPT ![t] = "generating"]
    /\ UNCHANGED <<queue, receipt, ledger, recorded, held, claim, via, batch, lock, money, retries, faults>>

(* External: the model provider charges for task t's request. *)
Charge(t) ==
    /\ billed' = [billed EXCEPT ![month] = @ + 1]
    /\ foreign' = [foreign EXCEPT ![month] = IF requested[claim[t]] = month THEN @ ELSE @ + 1]

Respond(t) ==
    /\ pc[t] = "generating"
    /\ Charge(t)
    /\ pc' = [pc EXCEPT ![t] = "generated"]
    /\ UNCHANGED <<queue, receipt, ledger, recorded, held, claim, via, batch, lock, month, slips, retries, faults>>

(* Mutant: no return after the failure is recorded. *)
DoneWithoutReturn(t) ==
    /\ held' = [held EXCEPT ![t] = NoEvent]
    /\ claim' = [claim EXCEPT ![t] = NoReport]
    /\ via' = [via EXCEPT ![t] = FALSE]
    /\ lock' = IF lock = t THEN NoTask ELSE lock
    /\ UNCHANGED pc

(* The task is done with its claim: the lock goes, a message is acked. *)
Done(t) ==
    /\ pc' = [pc EXCEPT ![t] = "idle"]
    /\ held' = [held EXCEPT ![t] = NoEvent]
    /\ claim' = [claim EXCEPT ![t] = NoReport]
    /\ via' = [via EXCEPT ![t] = FALSE]
    /\ lock' = IF lock = t THEN NoTask ELSE lock

(* complete_report and _fail_report: one transaction on report and receipt *)
(* with the usage added; neither looks at the status it overwrites.        *)
Settle(t, status, cost) ==
    /\ report' = [report EXCEPT ![claim[t]] = status]
    /\ stale' = [stale EXCEPT ![claim[t]] = FALSE]
    /\ recorded' = [recorded EXCEPT ![requested[claim[t]]] = @ + cost]
    /\ MarkReceipt(t, status)
    /\ Done(t)
    /\ UNCHANGED <<queue, source, requested, batch>>

Complete(t) ==
    /\ pc[t] = "generated" /\ lock = t
    /\ Settle(t, "completed", 1)
    /\ UNCHANGED <<money, retries, faults>>

(* An error before the lock: the context, the token count, or no lock      *)
(* within command_timeout (30 s).                                          *)
FailEarly(t) ==
    /\ pc[t] = "working"
    /\ Settle(t, "failed", 0)
    /\ UNCHANGED <<money, retries, faults>>

(* MonthlyCostCapError, or the session died before the spend was read. *)
Refuse(t) ==
    /\ pc[t] = "locked"
    /\ ~WithinCap \/ lock # t
    /\ Settle(t, "failed", 0)
    /\ UNCHANGED <<money, retries, faults>>

(* The provider refuses the request and charges nothing. *)
FailUnpaid(t) ==
    /\ pc[t] = "generating"
    /\ Settle(t, "failed", 0)
    /\ UNCHANGED <<money, retries, faults>>

(* Mutant: the usage of an answer that is turned down is not recorded. *)
FailPaidForgotten(t) ==
    /\ pc[t] = "generated"
    /\ Settle(t, "failed", 0)
    /\ UNCHANGED <<money, retries, faults>>

(* validate_grounding turns the answer down, or the commit fails: the      *)
(* usage is recorded with the failure.                                     *)
FailPaid(t) ==
    /\ pc[t] = "generated"
    /\ Settle(t, "failed", 1)
    /\ UNCHANGED <<money, retries, faults>>

-----------------------------------------------------------------------------
(* Failures, bounded by MaxFaults. *)

(* ReportGenerationError: paid, but no structured report; generate raises  *)
(* before it has looked at the usage, so no cost is recorded.              *)
FailUnparsed(t) ==
    /\ pc[t] = "generating" /\ faults < MaxFaults
    /\ Charge(t)
    /\ slips' = slips + 1 /\ faults' = faults + 1
    /\ Settle(t, "failed", 0)
    /\ UNCHANGED <<month, retries>>

(* The database session that holds the advisory lock breaks. *)
LoseSession(t) ==
    /\ lock = t /\ faults < MaxFaults
    /\ lock' = NoTask
    /\ slips' = slips + 1 /\ faults' = faults + 1
    /\ UNCHANGED <<queue, receipt, ledger, recorded, tasks, month, billed, foreign, retries>>

(* The replica dies, or the worker cannot even record a failure: the claim *)
(* is dropped and an unacked message goes back to the queue.               *)
Crash(t) ==
    /\ pc[t] # "idle" \/ batch[t] # {}
    /\ faults < MaxFaults
    /\ \/ pc[t] = "generating" /\ Charge(t) /\ slips' = slips + 1
       \/ pc[t] = "generated" /\ slips' = slips + 1 /\ UNCHANGED <<billed, foreign>>
       \/ pc[t] # "generated" /\ UNCHANGED <<billed, foreign, slips>>
    /\ faults' = faults + 1
    /\ queue' = IF held[t] \in Events THEN [queue EXCEPT ![held[t]] = @ + 1] ELSE queue
    /\ batch' = [batch EXCEPT ![t] = {}]
    /\ Done(t)
    /\ UNCHANGED <<receipt, ledger, recorded, month, retries>>

(* Time passes. *)
Age(k) ==
    /\ report[k] = "processing" /\ ~stale[k]
    /\ stale' = [stale EXCEPT ![k] = TRUE]
    /\ UNCHANGED <<queue, receipt, report, source, requested, recorded, tasks, lock, money, retries, faults>>

NextMonth ==
    /\ month < MaxMonth
    /\ month' = month + 1
    /\ UNCHANGED <<queue, receipt, ledger, recorded, tasks, lock, billed, foreign, slips, retries, faults>>

-----------------------------------------------------------------------------
Consume(t) == \E e \in Events : Reject(t, e) \/ IgnoreEvent(t, e) \/ ClaimEvent(t, e)

Process(t) ==
    \/ MarkProcessing(t)
    \/ AcquireLock(t)
    \/ FailEarly(t)
    \/ Admit(t)
    \/ Refuse(t)
    \/ Respond(t)
    \/ FailUnpaid(t)
    \/ Complete(t)
    \/ FailPaid(t)

Next ==
    \/ \E t \in Tasks :
        \/ Consume(t)
        \/ \E k \in Reports : Retrigger(t, k) \/ ClaimScheduled(t, k) \/ NextRecovered(t, k)
        \/ Recover(t)
        \/ Process(t)
        \/ FailUnparsed(t) \/ LoseSession(t) \/ Crash(t)
    \/ \E k \in Reports : Age(k)
    \/ NextMonth

Spec == Init /\ [][Next]_vars

(* The scheduler loop runs for as long as the worker does (recovery is not *)
(* subject to ai_scheduled_reports_enabled, only new daily reports are), a *)
(* call to the provider or the database ends, and time passes.  A wait for *)
(* the lock ends too, in FailEarly at the latest.                          *)
Fairness ==
    /\ \A t \in Tasks : /\ WF_vars(Process(t))
                        /\ WF_vars(Recover(t))
                        /\ WF_vars(\E k \in Reports : NextRecovered(t, k))
    /\ \A k \in Reports : WF_vars(Age(k))

FairSpec == Spec /\ Fairness

-----------------------------------------------------------------------------
(* One session at a time is between its spend check and its commit, but    *)
(* for sessions the database lost in between: pg_advisory_lock.            *)
SpendingIsSerial ==
    /\ \A t \in Tasks : lock = t => pc[t] \in {"locked", "generating", "generated"}
    /\ Cardinality({t \in Tasks : pc[t] \in {"generating", "generated"}}) <= 1 + slips

(* The cap holds up to what the code cannot see: in no month is more paid  *)
(* for than Cap, plus a generation for every cost that was never recorded  *)
(* and every lock lost, plus those made for rows requested in an earlier   *)
(* month, which monthly_spend leaves out.                                  *)
BudgetAccounted ==
    \A m \in Months : billed[m] <= Cap + slips + foreign[m]

(* A receipt swallows later copies of its event, so it must have left a    *)
(* row that recovery can find: receipt and report are inserted together.   *)
ReceiptHasReport ==
    \A e \in Events : receipt[e] # "none" /\ ReportOf[e] # NoReport
                          => report[ReportOf[e]] # "none"

(* Every claimed report is settled: a claim dropped by a crash, whose      *)
(* event is acked on its next delivery, is found by the recovery pass.     *)
ReportsSettle ==
    \A k \in Reports : report[k] \in {"pending", "processing"}
                           ~> report[k] \in {"completed", "failed"}

(* docs/phases.md, line 68: "This makes the default $10 ceiling hard       *)
(* across multiple worker replicas."                                       *)
HardCap == \A m \in Months : billed[m] <= Cap

(* docs/phases.md, lines 58-62: the receipt is "the strict message-level   *)
(* claim" and "the report is claimed before model input is counted or      *)
(* generated", lest a replay "charge the account twice".  Without faults   *)
(* or retries no report is paid for twice.                                 *)
PaidOnce == \A m \in Months : billed[m] <= Cardinality({k \in Reports : report[k] # "none"})
=============================================================================
