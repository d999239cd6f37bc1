--------------------------- MODULE AiReportsProofs ---------------------------
(***************************************************************************)
(* The AI worker's claims and its budget for any number of events, rows,   *)
(* tasks and faults.  Two inductive invariants: ClaimInv, what a claim can *)
(* rely on, and BudgetInv, where every generation that was paid for is     *)
(* accounted.                                                              *)
(***************************************************************************)
EXTENDS AiReports, FiniteSetTheorems, TLAPS

(* A message is held by the task that inserted its receipt, and by no      *)
(* other; whatever a task works on or has recovered is a row that exists;  *)
(* a receipt that a row points to exists.                                  *)
ClaimInv ==
    /\ TypeOK
    /\ \A t \in Tasks : held[t] \in Events =>
          receipt[held[t]] # "none" /\ queue[held[t]] < MaxCopies
    /\ \A t, u \in Tasks : held[t] = held[u] /\ held[t] \in Events => t = u
    /\ \A t \in Tasks : pc[t] # "idle" => report[claim[t]] # "none"
    /\ \A t \in Tasks : \A k \in batch[t] : report[k] # "none"
    /\ \A k \in Reports : source[k] \in Events => report[k] # "none" /\ receipt[source[k]] # "none"
    /\ \A t \in Tasks : via[t] => pc[t] # "idle" /\ source[claim[t]] \in Events
    /\ slips <= faults
    /\ ReceiptHasReport

(* Tasks between admission and settlement, those of them that have lost    *)
(* the budget lock, those that wait for the provider, and those whose      *)
(* answer was paid for and will be charged to month m.                     *)
Spending == {t \in Tasks : pc[t] \in {"generating", "generated"}}
Unlocked == {t \in Spending : lock # t}
Generating == {t \in Tasks : pc[t] = "generating"}
Unrecorded(m) == {t \in Tasks : pc[t] = "generated" /\ requested[claim[t]] = m}

(* What is paid for in month m, but for foreign rows, is recorded there,   *)
(* will be, or has slipped; a slip that was a lost lock is not yet used up *)
(* while its task goes on.  So when a task is admitted under the lock, all *)
(* other tasks that can still be charged are counted in slips.             *)
BudgetInv ==
    /\ \A t \in Tasks : lock = t => pc[t] \in {"locked", "generating", "generated"}
    /\ IsFiniteSet(Spending)
    /\ Cardinality(Unlocked) <= slips
    /\ \A m \in Months : foreign[m] <= billed[m] /\ (m > month => billed[m] = 0)
    /\ \A m \in Months : billed[m] + Cardinality(Unlocked)
                            <= foreign[m] + recorded[m] + slips + Cardinality(Unrecorded(m))
    /\ billed[month] + Cardinality(Generating) <= foreign[month] + Cap + slips
    /\ BudgetAccounted

-----------------------------------------------------------------------------
(* The worker starts without claims. *)
LEMMA InitClaims == Init => ClaimInv
<1> SUFFICES ASSUME Init PROVE ClaimInv
    OBVIOUS
<1>1. TypeOK
    BY AiConstants DEF Init, TypeOK, Status, Working, Months
<1>2. slips <= faults
    BY DEF Init
<1>3. ReceiptHasReport
    BY DEF Init, ReceiptHasReport
<1> QED BY <1>1, <1>2, <1>3, AiConstants DEF Init, ClaimInv

(* Steps of the consumer that settle a message without a claim. *)
LEMMA DropStep ==
    ASSUME ClaimInv, NEW t \in Tasks, NEW e \in Events, Reject(t, e) \/ IgnoreEvent(t, e)
    PROVE  ClaimInv'
<1>1. /\ queue' \in [Events -> 0..MaxCopies] /\ receipt' \in [Events -> Status]
      /\ \A f \in Events : queue'[f] <= queue[f]
      /\ \A f \in Events : receipt[f] # "none" => receipt'[f] # "none"
      /\ \A f \in Events : receipt'[f] # "none" => \/ receipt[f] # "none"
                                                   \/ ReportOf[f] = NoReport
                                                   \/ report[ReportOf[f]] # "none"
    BY AiConstants DEF Reject, IgnoreEvent, ClaimInv, TypeOK, Status
<1>2. UNCHANGED <<ledger, recorded, tasks, lock, money, retries, faults>>
    BY DEF Reject, IgnoreEvent
<1>3. TypeOK'
    BY <1>1, <1>2 DEF ClaimInv, TypeOK, ledger, tasks, money
<1>4. ReceiptHasReport'
    BY <1>1, <1>2 DEF ClaimInv, ReceiptHasReport, ledger
<1>5. ASSUME NEW u \in Tasks, held'[u] \in Events
      PROVE  receipt'[held'[u]] # "none" /\ queue'[held'[u]] < MaxCopies
  <2>1. queue[held[u]] \in Nat /\ queue'[held[u]] \in Nat /\ held' = held
    BY <1>1, <1>2, <1>5 DEF ClaimInv, TypeOK, tasks
  <2> QED BY <1>1, <1>5, <2>1, AiConstants DEF ClaimInv
<1>6. \A k \in Reports : source'[k] \in Events => report'[k] # "none" /\ receipt'[source'[k]] # "none"
    BY <1>1, <1>2 DEF ClaimInv, ledger
<1> QED BY <1>2, <1>3, <1>4, <1>5, <1>6 DEF ClaimInv, ledger, tasks, money

(* Rows and receipts only ever come to be: what ClaimInv says of them is   *)
(* kept by a step that starts on no new row.                               *)
LEMMA RowsStay ==
    ASSUME ClaimInv, TypeOK', slips' <= faults', source' = source,
           \A k \in Reports : report[k] # "none" => report'[k] # "none",
           \A e \in Events : receipt[e] # "none" <=> receipt'[e] # "none",
           \A t \in Tasks : held'[t] \in {held[t], NoEvent},
           \A t \in Tasks : held'[t] \in Events => queue'[held[t]] <= queue[held[t]],
           \A t \in Tasks : pc'[t] # "idle" =>
               \/ pc[t] # "idle" /\ claim'[t] = claim[t]
               \/ pc[t] = "idle" /\ claim'[t] \in Reports /\ report[claim'[t]] # "none",
           \A t \in Tasks : via'[t] => pc'[t] # "idle" /\ source[claim'[t]] \in Events,
           \A t \in Tasks : \A k \in batch'[t] : report[k] # "none"
    PROVE  ClaimInv'
<1>1. ReceiptHasReport'
    BY AiConstants DEF ClaimInv, ReceiptHasReport
<1>2. ASSUME NEW t \in Tasks, held'[t] \in Events
      PROVE  receipt'[held'[t]] # "none" /\ queue'[held'[t]] < MaxCopies
  <2>1. held'[t] = held[t]
    BY <1>2, AiConstants
  <2>2. queue[held[t]] \in Nat /\ queue'[held[t]] \in Nat
    BY <1>2, <2>1 DEF ClaimInv, TypeOK
  <2> QED BY <1>2, <2>1, <2>2, AiConstants DEF ClaimInv
<1>3. \A t, u \in Tasks : held'[t] = held'[u] /\ held'[t] \in Events => t = u
    BY AiConstants DEF ClaimInv
<1>4. \A t \in Tasks : pc'[t] # "idle" => report'[claim'[t]] # "none"
    BY DEF ClaimInv, TypeOK
<1>5. \A t \in Tasks : \A k \in batch'[t] : report'[k] # "none"
    BY DEF TypeOK
<1>6. \A k \in Reports : source'[k] \in Events => report'[k] # "none" /\ receipt'[source'[k]] # "none"
    BY DEF ClaimInv
<1> QED BY <1>1, <1>2, <1>3, <1>4, <1>5, <1>6 DEF ClaimInv

(* Task t inserts row k, for event e unless that is NoEvent. *)
Inserts(t, k, e, b) ==
    /\ pc[t] = "idle" /\ report[k] = "none"
    /\ InsertReport(k, e) /\ StartsWith(t, k, b, "claimed")
    /\ b => e \in Events
    /\ IF e = NoEvent THEN UNCHANGED <<queue, receipt, held>>
       ELSE /\ queue[e] > 0 /\ receipt[e] = "none" /\ ReportOf[e] = k
            /\ queue' = [queue EXCEPT ![e] = @ - 1]
            /\ held' = [held EXCEPT ![t] = e]
            /\ receipt' = [receipt EXCEPT ![e] = "pending"]
    /\ retries' \in 0..MaxRetries
    /\ UNCHANGED <<recorded, batch, lock, money, faults>>

(* A row is inserted for a task that was idle, with the receipt of the     *)
(* event that asked for it.                                                *)
LEMMA InsertStep ==
    ASSUME ClaimInv, NEW t \in Tasks,
           \/ \E e \in Events : ClaimEvent(t, e)
           \/ \E k \in Reports : ClaimScheduled(t, k)
           \/ \E k \in Reports : Retrigger(t, k) /\ report[k] = "none"
    PROVE  ClaimInv'
<1>1. PICK k \in Reports, e \in Events \cup {NoEvent}, b \in BOOLEAN : Inserts(t, k, e, b)
  <2>1. ASSUME NEW e \in Events, ClaimEvent(t, e) PROVE Inserts(t, ReportOf[e], e, TRUE)
    <3>1. e # NoEvent /\ retries' \in 0..MaxRetries
      BY <2>1, AiConstants DEF ClaimEvent, ClaimInv, TypeOK
    <3> QED BY <2>1, <3>1 DEF ClaimEvent, Inserts
  <2>2. ASSUME NEW k \in Reports, ClaimScheduled(t, k) PROVE Inserts(t, k, NoEvent, FALSE)
    <3>1. report[k] = "none" /\ retries' \in 0..MaxRetries
      BY <2>2 DEF ClaimScheduled, ClaimInv, TypeOK
    <3> QED BY <2>2, <3>1 DEF ClaimScheduled, Inserts
  <2>3. ASSUME NEW k \in Reports, Retrigger(t, k), report[k] = "none"
        PROVE  Inserts(t, k, NoEvent, FALSE)
    <3>1. retries' \in 0..MaxRetries
      BY <2>3, AiConstants DEF Retrigger, ClaimInv, TypeOK
    <3> QED BY <2>3, <3>1 DEF Retrigger, Inserts
  <2>4. \A e \in Events : ClaimEvent(t, e) => ReportOf[e] \in Reports
    BY AiConstants DEF ClaimEvent
  <2> QED BY <2>1, <2>2, <2>3, <2>4
<1>2. TypeOK'
  <2>1. /\ report' \in [Reports -> Status] /\ stale' \in [Reports -> BOOLEAN]
        /\ source' \in [Reports -> Events \cup {NoEvent}] /\ requested' \in [Reports -> Months]
    BY <1>1 DEF Inserts, InsertReport, ClaimInv, TypeOK, Status
  <2>2. /\ pc' \in [Tasks -> {"idle", "claimed"} \cup Working]
        /\ claim' \in [Tasks -> Reports \cup {NoReport}] /\ via' \in [Tasks -> BOOLEAN]
        /\ \A u \in Tasks : pc'[u] # "idle" => claim'[u] \in Reports
    BY <1>1 DEF Inserts, StartsWith, ClaimInv, TypeOK
  <2>3. /\ queue' \in [Events -> 0..MaxCopies] /\ receipt' \in [Events -> Status]
        /\ held' \in [Tasks -> Events \cup {NoEvent}]
    <3>1. CASE e = NoEvent
      BY <1>1, <3>1 DEF Inserts, ClaimInv, TypeOK
    <3>2. CASE e \in Events
      <4>1. e # NoEvent /\ queue[e] - 1 \in 0..MaxCopies
        BY <1>1, <3>2, AiConstants DEF Inserts, ClaimInv, TypeOK
      <4> QED BY <1>1, <3>2, <4>1 DEF Inserts, ClaimInv, TypeOK, Status
    <3> QED BY <3>1, <3>2
  <2> QED BY <1>1, <2>1, <2>2, <2>3 DEF Inserts, ClaimInv, TypeOK, money
<1>3. /\ \A u \in Tasks \ {t} : pc'[u] = pc[u] /\ claim'[u] = claim[u] /\ via'[u] = via[u]
      /\ pc'[t] = "claimed" /\ claim'[t] = k /\ via'[t] = b
    BY <1>1 DEF Inserts, StartsWith, ClaimInv, TypeOK
<1>4. /\ \A j \in Reports \ {k} : report'[j] = report[j] /\ source'[j] = source[j]
      /\ report'[k] = "pending" /\ source'[k] = e
    BY <1>1 DEF Inserts, InsertReport, ClaimInv, TypeOK
<1>5. /\ \A f \in Events : f # e => receipt'[f] = receipt[f] /\ queue'[f] = queue[f]
      /\ \A u \in Tasks \ {t} : held'[u] = held[u]
      /\ e \in Events => /\ receipt[e] = "none" /\ receipt'[e] = "pending" /\ held'[t] = e
                         /\ queue[e] \in 0..MaxCopies /\ queue[e] > 0 /\ queue'[e] = queue[e] - 1
      /\ e = NoEvent => held'[t] = held[t]
    BY <1>1, AiConstants DEF Inserts, ClaimInv, TypeOK
<1>6. ReceiptHasReport'
    BY <1>1, <1>4, <1>5, AiConstants DEF Inserts, ClaimInv, ReceiptHasReport
<1>7. /\ \A u \in Tasks : held'[u] \in Events =>
             receipt'[held'[u]] # "none" /\ queue'[held'[u]] < MaxCopies
      /\ \A u, v \in Tasks : held'[u] = held'[v] /\ held'[u] \in Events => u = v
    BY <1>5, AiConstants DEF ClaimInv
<1>8. /\ \A u \in Tasks : pc'[u] # "idle" => report'[claim'[u]] # "none"
      /\ \A u \in Tasks : \A j \in batch'[u] : report'[j] # "none"
    BY <1>1, <1>3, <1>4 DEF Inserts, ClaimInv, TypeOK
<1>9. \A j \in Reports : source'[j] \in Events => report'[j] # "none" /\ receipt'[source'[j]] # "none"
    BY <1>1, <1>4, <1>5 DEF ClaimInv
<1>10. \A u \in Tasks : via'[u] => pc'[u] # "idle" /\ source'[claim'[u]] \in Events
    BY <1>1, <1>3, <1>4 DEF Inserts, ClaimInv, TypeOK
<1> QED BY <1>1, <1>2, <1>6, <1>7, <1>8, <1>9, <1>10 DEF Inserts, ClaimInv, money

(* A failed row is claimed again by hand. *)
LEMMA RetryStep ==
    ASSUME ClaimInv, NEW t \in Tasks, NEW k \in Reports, Retrigger(t, k), report[k] # "none"
    PROVE  ClaimInv'
<1>1. TypeOK' /\ slips' <= faults' /\ source' = source
  <2>1. /\ report' \in [Reports -> Status] /\ stale' \in [Reports -> BOOLEAN]
        /\ source' = source /\ requested' = requested
    BY DEF Retrigger, ClaimInv, TypeOK, Status
  <2>3. retries' \in 0..MaxRetries
    BY AiConstants DEF Retrigger, ClaimInv, TypeOK
  <2>2. /\ pc' \in [Tasks -> {"idle", "claimed"} \cup Working]
        /\ claim' \in [Tasks -> Reports \cup {NoReport}] /\ via' \in [Tasks -> BOOLEAN]
        /\ \A u \in Tasks : pc'[u] # "idle" => claim'[u] \in Reports
    BY DEF Retrigger, StartsWith, ClaimInv, TypeOK
  <2> QED BY <2>1, <2>2, <2>3 DEF Retrigger, ClaimInv, TypeOK, money
<1>2. /\ \A j \in Reports : report[j] # "none" => report'[j] # "none"
      /\ UNCHANGED <<receipt, queue, held, batch>>
    BY DEF Retrigger, ClaimInv, TypeOK
<1>3. \A u \in Tasks : /\ u # t => pc'[u] = pc[u] /\ claim'[u] = claim[u] /\ via'[u] = via[u]
                       /\ u = t => pc[u] = "idle" /\ claim'[u] = k /\ ~via'[u]
    BY DEF Retrigger, StartsWith, ClaimInv, TypeOK
<1>4. \A e \in Events : queue[e] \in Nat
    BY DEF ClaimInv, TypeOK
<1>5. /\ \A u \in Tasks : held'[u] \in {held[u], NoEvent}
      /\ \A u \in Tasks : held'[u] \in Events => queue'[held[u]] <= queue[held[u]]
    BY <1>2, <1>4
<1>6. \A u \in Tasks : pc'[u] # "idle" =>
               \/ pc[u] # "idle" /\ claim'[u] = claim[u]
               \/ pc[u] = "idle" /\ claim'[u] \in Reports /\ report[claim'[u]] # "none"
    BY <1>3
<1>7. \A u \in Tasks : via'[u] => pc'[u] # "idle" /\ source[claim'[u]] \in Events
    BY <1>3 DEF ClaimInv
<1> QED BY <1>1, <1>2, <1>5, <1>6, <1>7, RowsStay DEF ClaimInv

(* claim_recoverable_reports: rows and receipts that are there change      *)
(* their status.                                                           *)
LEMMA RecoverStep ==
    ASSUME ClaimInv, NEW t \in Tasks, Recover(t) \/ \E k \in Reports : NextRecovered(t, k)
    PROVE  ClaimInv'
<1>1. CASE Recover(t)
  <2>1. /\ batch' \in [Tasks -> SUBSET Reports]
        /\ \A u \in Tasks : batch'[u] = IF u = t THEN Recoverable ELSE batch[u]
    BY <1>1 DEF Recover, Recoverable, ClaimInv, TypeOK
  <2>2. /\ report' \in [Reports -> Status] /\ stale' \in [Reports -> BOOLEAN]
        /\ \A k \in Reports : report[k] # "none" => report'[k] # "none"
        /\ \A k \in Recoverable : report[k] # "none"
    BY <1>1 DEF Recover, Recoverable, ClaimInv, TypeOK, Status
  <2>3. receipt' \in [Events -> Status] /\ \A e \in Events : receipt[e] # "none" <=> receipt'[e] # "none"
    BY <1>1 DEF Recover, Recoverable, ClaimInv, TypeOK, Status
  <2>4. UNCHANGED <<queue, source, requested, recorded, pc, held, claim, via, lock, money, retries, faults>>
    BY <1>1 DEF Recover
  <2>5. TypeOK' /\ slips' <= faults'
    BY <2>1, <2>2, <2>3, <2>4 DEF ClaimInv, TypeOK, money
  <2>6. \A e \in Events : queue[e] \in Nat
    BY DEF ClaimInv, TypeOK
  <2>7. \A u \in Tasks : \A k \in batch'[u] : report[k] # "none"
    BY <2>1, <2>2 DEF ClaimInv
  <2>8. /\ \A u \in Tasks : held'[u] \in {held[u], NoEvent}
        /\ \A u \in Tasks : held'[u] \in Events => queue'[held[u]] <= queue[held[u]]
        /\ \A u \in Tasks : via'[u] => pc'[u] # "idle" /\ source[claim'[u]] \in Events
        /\ \A u \in Tasks : pc'[u] # "idle" => pc[u] # "idle" /\ claim'[u] = claim[u]
    BY <2>4, <2>6 DEF ClaimInv
  <2> QED BY <2>2, <2>3, <2>4, <2>5, <2>7, <2>8, RowsStay
<1>2. ASSUME NEW k \in Reports, NextRecovered(t, k) PROVE ClaimInv'
  <2>1. k \in batch[t] /\ report[k] # "none" /\ pc[t] = "idle"
    BY <1>2 DEF NextRecovered, ClaimInv
  <2>2. PICK b \in BOOLEAN : StartsWith(t, k, b, "working") /\ (b => source[k] \in Events)
    BY <1>2 DEF NextRecovered, ClaimInv, TypeOK
  <2>3. /\ pc' \in [Tasks -> {"idle", "claimed"} \cup Working]
        /\ claim' \in [Tasks -> Reports \cup {NoReport}] /\ via' \in [Tasks -> BOOLEAN]
        /\ \A u \in Tasks : pc'[u] # "idle" => claim'[u] \in Reports
    BY <2>2 DEF StartsWith, ClaimInv, TypeOK, Working
  <2>4. \A u \in Tasks : /\ u # t => pc'[u] = pc[u] /\ claim'[u] = claim[u] /\ via'[u] = via[u]
                         /\ u = t => pc'[u] = "working" /\ claim'[u] = k /\ via'[u] = b
    BY <2>2 DEF StartsWith, ClaimInv, TypeOK
  <2>5. batch' \in [Tasks -> SUBSET Reports] /\ \A u \in Tasks : batch'[u] \subseteq batch[u]
    BY <1>2 DEF NextRecovered, ClaimInv, TypeOK
  <2>6. UNCHANGED <<queue, receipt, ledger, recorded, held, lock, money, retries, faults>>
    BY <1>2 DEF NextRecovered
  <2>7. TypeOK' /\ slips' <= faults' /\ source' = source /\ report' = report
    BY <2>3, <2>5, <2>6 DEF ClaimInv, TypeOK, money, ledger
  <2>8. \A e \in Events : queue[e] \in Nat
    BY DEF ClaimInv, TypeOK
  <2>9. /\ \A u \in Tasks : held'[u] \in {held[u], NoEvent}
        /\ \A u \in Tasks : held'[u] \in Events => queue'[held[u]] <= queue[held[u]]
        /\ \A u \in Tasks : \A j \in batch'[u] : report[j] # "none"
    BY <2>5, <2>6, <2>8 DEF ClaimInv
  <2>10. \A u \in Tasks : via'[u] => pc'[u] # "idle" /\ source[claim'[u]] \in Events
    BY <2>2, <2>4 DEF ClaimInv
  <2>11. \A u \in Tasks : pc'[u] # "idle" =>
               \/ pc[u] # "idle" /\ claim'[u] = claim[u]
               \/ pc[u] = "idle" /\ claim'[u] \in Reports /\ report[claim'[u]] # "none"
    BY <2>1, <2>4
  <2> QED BY <2>6, <2>7, <2>9, <2>10, <2>11, RowsStay
<1> QED BY <1>1, <1>2

(* A receipt that a claim carries exists, so marking it makes none. *)
LEMMA Marked ==
    ASSUME ClaimInv, NEW t \in Tasks, NEW status \in Status \ {"none"}, MarkReceipt(t, status)
    PROVE  /\ receipt' \in [Events -> Status]
           /\ \A e \in Events : receipt[e] # "none" <=> receipt'[e] # "none"
<1>1. CASE ~via[t]
    BY <1>1 DEF MarkReceipt, ClaimInv, TypeOK
<1>2. CASE via[t]
  <2>1. source[claim[t]] \in Events /\ receipt[source[claim[t]]] # "none"
    BY <1>2 DEF ClaimInv, TypeOK
  <2> QED BY <1>2, <2>1 DEF MarkReceipt, ClaimInv, TypeOK
<1> QED BY <1>1, <1>2

(* mark_processing, and the steps that move a task or the clock only. *)
LEMMA MoveStep ==
    ASSUME ClaimInv, NEW t,
           \/ /\ t \in Tasks
              /\ \/ MarkProcessing(t) \/ AcquireLock(t) \/ Admit(t) \/ Respond(t)
                 \/ LoseSession(t)
           \/ \E k \in Reports : Age(k)
           \/ NextMonth
    PROVE  ClaimInv'
<1>1. UNCHANGED <<queue, source, requested, recorded, held, claim, via, batch, retries>>
    BY DEF MarkProcessing, AcquireLock, Admit, Respond, LoseSession, Age, NextMonth, ledger, tasks
<1>2. /\ report' \in [Reports -> Status] /\ stale' \in [Reports -> BOOLEAN]
      /\ \A k \in Reports : report[k] # "none" => report'[k] # "none"
    BY DEF MarkProcessing, AcquireLock, Admit, Respond, LoseSession, Age, NextMonth, ledger, tasks,
           ClaimInv, TypeOK, Status
<1>3. receipt' \in [Events -> Status] /\ \A e \in Events : receipt[e] # "none" <=> receipt'[e] # "none"
  <2>1. CASE t \in Tasks /\ MarkProcessing(t)
    <3>1. "processing" \in Status \ {"none"}
      BY DEF Status
    <3> QED BY <2>1, <3>1, Marked DEF MarkProcessing
  <2>2. CASE ~(t \in Tasks /\ MarkProcessing(t))
    BY <2>2 DEF AcquireLock, Admit, Respond, LoseSession, Age, NextMonth, ClaimInv, TypeOK
  <2> QED BY <2>1, <2>2
<1>4. /\ pc' \in [Tasks -> {"idle", "claimed"} \cup Working] /\ lock' \in Tasks \cup {NoTask}
      /\ \A u \in Tasks : pc'[u] # "idle" <=> pc[u] # "idle"
    BY DEF MarkProcessing, AcquireLock, Admit, Respond, LoseSession, Age, NextMonth, tasks,
           ClaimInv, TypeOK, Working
<1>5. month' \in Months /\ slips' \in 0..MaxFaults /\ faults' \in 0..MaxFaults /\ slips' <= faults'
  <2>1. CASE LoseSession(t)
    BY <2>1, AiConstants DEF LoseSession, ClaimInv, TypeOK
  <2>2. CASE NextMonth
    BY <2>2, AiConstants DEF NextMonth, ClaimInv, TypeOK, Months
  <2>3. CASE ~LoseSession(t) /\ ~NextMonth
    BY <2>3 DEF MarkProcessing, AcquireLock, Admit, Respond, Age, money, ClaimInv, TypeOK
  <2> QED BY <2>1, <2>2, <2>3
<1>6. billed' \in [Months -> Nat] /\ foreign' \in [Months -> Nat]
    BY DEF MarkProcessing, AcquireLock, Admit, Respond, Charge, LoseSession, Age, NextMonth, money,
           ClaimInv, TypeOK
<1>7. TypeOK'
    BY <1>1, <1>2, <1>3, <1>4, <1>5, <1>6 DEF ClaimInv, TypeOK
<1>8. \A e \in Events : queue[e] \in Nat
    BY DEF ClaimInv, TypeOK
<1>9. /\ \A u \in Tasks : held'[u] \in {held[u], NoEvent}
      /\ \A u \in Tasks : held'[u] \in Events => queue'[held[u]] <= queue[held[u]]
      /\ \A u \in Tasks : \A k \in batch'[u] : report[k] # "none"
      /\ \A u \in Tasks : via'[u] => pc'[u] # "idle" /\ source[claim'[u]] \in Events
      /\ \A u \in Tasks : pc'[u] # "idle" => pc[u] # "idle" /\ claim'[u] = claim[u]
    BY <1>1, <1>4, <1>8 DEF ClaimInv
<1> QED BY <1>1, <1>2, <1>3, <1>5, <1>7, <1>9, RowsStay

(* The steps that end in Settle. *)
Settles(t) ==
    FailEarly(t) \/ Refuse(t) \/ FailUnpaid(t) \/ Complete(t) \/ FailPaid(t) \/ FailUnparsed(t)

(* Done leaves the other tasks alone. *)
LEMMA DoneLeaves ==
    ASSUME ClaimInv, NEW t \in Tasks, Done(t)
    PROVE  /\ pc' \in [Tasks -> {"idle", "claimed"} \cup Working]
           /\ held' \in [Tasks -> Events \cup {NoEvent}]
           /\ claim' \in [Tasks -> Reports \cup {NoReport}]
           /\ via' \in [Tasks -> BOOLEAN]
           /\ lock' \in Tasks \cup {NoTask}
           /\ pc'[t] = "idle" /\ held'[t] = NoEvent /\ ~via'[t]
           /\ \A u \in Tasks \ {t} : /\ pc'[u] = pc[u] /\ claim'[u] = claim[u]
                                     /\ held'[u] = held[u] /\ via'[u] = via[u]
    BY DEF Done, ClaimInv, TypeOK

(* complete_report and _fail_report write to a row that exists. *)
LEMMA SettleStep ==
    ASSUME ClaimInv, NEW t \in Tasks, Settles(t)
    PROVE  ClaimInv'
<1>1. PICK status \in {"completed", "failed"}, cost \in {0, 1} : Settle(t, status, cost)
    BY DEF Settles, FailEarly, Refuse, FailUnpaid, Complete, FailPaid, FailUnparsed
<1>2. claim[t] \in Reports
    BY DEF Settles, FailEarly, Refuse, FailUnpaid, Complete, FailPaid, FailUnparsed, ClaimInv, TypeOK
<1>3. month' = month /\ retries' = retries
    BY DEF Settles, FailEarly, Refuse, FailUnpaid, Complete, FailPaid, FailUnparsed, money
<1>4. slips' \in 0..MaxFaults /\ faults' \in 0..MaxFaults /\ slips' <= faults'
  <2>1. CASE FailUnparsed(t)
    BY <2>1, AiConstants DEF FailUnparsed, ClaimInv, TypeOK
  <2>2. CASE ~FailUnparsed(t)
    BY <2>2 DEF Settles, FailEarly, Refuse, FailUnpaid, Complete, FailPaid, money, ClaimInv, TypeOK
  <2> QED BY <2>1, <2>2
<1>5. billed' \in [Months -> Nat] /\ foreign' \in [Months -> Nat]
    BY DEF Settles, FailEarly, Refuse, FailUnpaid, Complete, FailPaid, FailUnparsed, Charge, money,
           ClaimInv, TypeOK
<1>6. receipt' \in [Events -> Status] /\ \A e \in Events : receipt[e] # "none" <=> receipt'[e] # "none"
  <2>1. status \in Status \ {"none"}
    BY DEF Status
  <2> QED BY <1>1, <2>1, Marked DEF Settle
<1>7. /\ report' \in [Reports -> Status] /\ stale' \in [Reports -> BOOLEAN]
      /\ recorded' \in [Months -> Nat]
      /\ \A k \in Reports : report[k] # "none" => report'[k] # "none"
  <2>1. requested[claim[t]] \in Months /\ recorded[requested[claim[t]]] + cost \in Nat
    BY <1>2 DEF ClaimInv, TypeOK
  <2> QED BY <1>1, <1>2, <2>1 DEF Settle, ClaimInv, TypeOK, Status
<1>8. UNCHANGED <<queue, source, requested, batch>>
    BY <1>1 DEF Settle
<1>9. Done(t)
    BY <1>1 DEF Settle
<1>10. TypeOK'
    BY <1>3, <1>4, <1>5, <1>6, <1>7, <1>8, <1>9, DoneLeaves DEF ClaimInv, TypeOK
<1>11. \A e \in Events : queue[e] \in Nat
    BY DEF ClaimInv, TypeOK
<1>12. /\ \A u \in Tasks : held'[u] \in {held[u], NoEvent}
       /\ \A u \in Tasks : held'[u] \in Events => queue'[held[u]] <= queue[held[u]]
       /\ \A u \in Tasks : \A k \in batch'[u] : report[k] # "none"
       /\ \A u \in Tasks : via'[u] => pc'[u] # "idle" /\ source[claim'[u]] \in Events
       /\ \A u \in Tasks : pc'[u] # "idle" => pc[u] # "idle" /\ claim'[u] = claim[u]
    BY <1>8, <1>9, <1>11, DoneLeaves, AiConstants DEF ClaimInv
<1> QED BY <1>4, <1>6, <1>7, <1>8, <1>10, <1>12, RowsStay

(* A crash puts back the message of the task, which no other task holds. *)
LEMMA CrashStep ==
    ASSUME ClaimInv, NEW t \in Tasks, Crash(t)
    PROVE  ClaimInv'
<1>1. Done(t) /\ UNCHANGED <<receipt, ledger, recorded, month, retries>>
    BY DEF Crash
<1>2. slips' \in 0..MaxFaults /\ faults' \in 0..MaxFaults /\ slips' <= faults'
    BY AiConstants DEF Crash, ClaimInv, TypeOK
<1>3. billed' \in [Months -> Nat] /\ foreign' \in [Months -> Nat]
    BY DEF Crash, Charge, ClaimInv, TypeOK
<1>4. batch' \in [Tasks -> SUBSET Reports] /\ \A u \in Tasks : batch'[u] \subseteq batch[u]
    BY DEF Crash, ClaimInv, TypeOK
<1>5. queue' \in [Events -> 0..MaxCopies] /\ \A e \in Events : e # held[t] => queue'[e] = queue[e]
  <2>1. CASE held[t] \notin Events
    BY <2>1 DEF Crash, ClaimInv, TypeOK
  <2>2. CASE held[t] \in Events
    <3>1. queue[held[t]] + 1 \in 0..MaxCopies
      BY <2>2, AiConstants DEF ClaimInv, TypeOK
    <3> QED BY <2>2, <3>1 DEF Crash, ClaimInv, TypeOK
  <2> QED BY <2>1, <2>2
<1>6. TypeOK'
    BY <1>1, <1>2, <1>3, <1>4, <1>5, DoneLeaves DEF ClaimInv, TypeOK, ledger
<1>7. \A e \in Events : queue[e] \in Nat
    BY DEF ClaimInv, TypeOK
<1>8. /\ \A u \in Tasks : held'[u] \in {held[u], NoEvent}
      /\ \A u \in Tasks : held'[u] \in Events => u # t /\ held[u] # held[t] /\ held[u] \in Events
    BY <1>1, DoneLeaves, AiConstants DEF ClaimInv
<1>9. \A u \in Tasks : held'[u] \in Events => queue'[held[u]] <= queue[held[u]]
    BY <1>5, <1>7, <1>8
<1>10. /\ \A u \in Tasks : \A k \in batch'[u] : report[k] # "none"
       /\ \A u \in Tasks : via'[u] => pc'[u] # "idle" /\ source[claim'[u]] \in Events
       /\ \A u \in Tasks : pc'[u] # "idle" => pc[u] # "idle" /\ claim'[u] = claim[u]
    BY <1>1, <1>4, DoneLeaves DEF ClaimInv
<1> QED BY <1>1, <1>2, <1>6, <1>8, <1>9, <1>10, RowsStay DEF ledger

(* Every step keeps what claims rely on. *)
LEMMA StepClaims == ClaimInv /\ [Next]_vars => ClaimInv'
<1> SUFFICES ASSUME ClaimInv, [Next]_vars PROVE ClaimInv'
    OBVIOUS
<1>1. ASSUME NEW t \in Tasks, Consume(t) PROVE ClaimInv'
    BY <1>1, DropStep, InsertStep DEF Consume
<1>2. ASSUME NEW t \in Tasks, NEW k \in Reports,
             Retrigger(t, k) \/ ClaimScheduled(t, k) \/ NextRecovered(t, k)
      PROVE  ClaimInv'
    BY <1>2, InsertStep, RetryStep, RecoverStep
<1>3. ASSUME NEW t \in Tasks, Recover(t) PROVE ClaimInv'
    BY <1>3, RecoverStep
<1>4. ASSUME NEW t \in Tasks, Process(t) \/ FailUnparsed(t) PROVE ClaimInv'
    BY <1>4, MoveStep, SettleStep DEF Process, Settles
<1>5. ASSUME NEW t \in Tasks, LoseSession(t) \/ Crash(t) PROVE ClaimInv'
    BY <1>5, MoveStep, CrashStep
<1>6. ASSUME \/ \E k \in Reports : Age(k)
             \/ NextMonth
      PROVE  ClaimInv'
    BY <1>6, MoveStep
<1>7. CASE UNCHANGED vars
    BY <1>7 DEF vars, ledger, tasks, money, ClaimInv, TypeOK, ReceiptHasReport
<1> QED BY <1>1, <1>2, <1>3, <1>4, <1>5, <1>6, <1>7 DEF Next

(* ai_reports and the receipts are well typed. *)
THEOREM AiTypes == Spec => []TypeOK
<1>1. ClaimInv => TypeOK
    BY DEF ClaimInv
<1> QED BY <1>1, InitClaims, StepClaims, PTL DEF Spec

(* A receipt swallows later copies of its event only if its report exists, *)
(* however the consumer, the scheduler, manual requests and crashes        *)
(* interleave: claim_event inserts both in one transaction.                *)
THEOREM ReceiptsHaveReports == Spec => []ReceiptHasReport
<1>1. ClaimInv => ReceiptHasReport
    BY DEF ClaimInv
<1> QED BY <1>1, InitClaims, StepClaims, PTL DEF Spec

-----------------------------------------------------------------------------
(* Counting: one more, one less, and parts of a finite set. *)
LEMMA CountOne ==
    ASSUME NEW S, IsFiniteSet(S), NEW x
    PROVE  /\ Cardinality(S) \in Nat
           /\ Cardinality(S \cup {x}) = IF x \in S THEN Cardinality(S) ELSE Cardinality(S) + 1
           /\ Cardinality(S \ {x}) = IF x \in S THEN Cardinality(S) - 1 ELSE Cardinality(S)
           /\ Cardinality(S \cup {x}) \in Nat /\ Cardinality(S \cup {x}) <= Cardinality(S) + 1
           /\ Cardinality(S \ {x}) \in Nat /\ Cardinality(S \ {x}) <= Cardinality(S)
           /\ IsFiniteSet(S \cup {x}) /\ IsFiniteSet(S \ {x})
<1>1. /\ IsFiniteSet(S \cup {x}) /\ IsFiniteSet(S \ {x})
      /\ Cardinality(S \cup {x}) = IF x \in S THEN Cardinality(S) ELSE Cardinality(S) + 1
      /\ Cardinality(S \ {x}) = IF x \in S THEN Cardinality(S) - 1 ELSE Cardinality(S)
    BY FS_AddElement, FS_RemoveElement
<1>2. /\ Cardinality(S) \in Nat /\ Cardinality(S \cup {x}) \in Nat /\ Cardinality(S \ {x}) \in Nat
    BY <1>1, FS_CardinalityType
<1> QED BY <1>1, <1>2

(* The sets that are counted are parts of Spending. *)
LEMMA Counts ==
    ASSUME BudgetInv
    PROVE  /\ IsFiniteSet(Unlocked) /\ Cardinality(Unlocked) \in Nat
           /\ IsFiniteSet(Generating) /\ Cardinality(Generating) \in Nat
           /\ \A m \in Months : IsFiniteSet(Unrecorded(m)) /\ Cardinality(Unrecorded(m)) \in Nat
<1>1. IsFiniteSet(Spending)
    BY DEF BudgetInv
<1>2. /\ Unlocked \in SUBSET Spending /\ Generating \in SUBSET Spending
      /\ \A m \in Months : Unrecorded(m) \in SUBSET Spending
    BY DEF Unlocked, Generating, Unrecorded, Spending
<1> QED BY <1>1, <1>2, FS_Subset, FS_CardinalityType

(* Nothing is spent at first. *)
LEMMA InitBudget == Init => BudgetInv
<1> SUFFICES ASSUME Init PROVE BudgetInv
    OBVIOUS
<1>1. /\ Spending = {} /\ Unlocked = {} /\ Generating = {}
      /\ \A m \in Months : Unrecorded(m) = {}
    BY DEF Init, Spending, Unlocked, Generating, Unrecorded
<1>2. IsFiniteSet({}) /\ Cardinality({}) = 0
    BY FS_EmptySet
<1>3. 1 \in Months /\ month = 1 /\ Cap \in Nat /\ slips = 0
    BY AiConstants DEF Init, Months
<1>4. \A m \in Months : recorded[m] = 0 /\ billed[m] = 0 /\ foreign[m] = 0
    BY DEF Init
<1>5. \A t \in Tasks : lock # t
    BY AiConstants DEF Init
<1> QED BY <1>1, <1>2, <1>3, <1>4, <1>5 DEF BudgetInv, BudgetAccounted

(* A step away from the lock and the money. *)
LEMMA BudgetAlone ==
    ASSUME BudgetInv, UNCHANGED <<lock, recorded, money>>,
           \A u \in Tasks : pc[u] \in {"locked", "generating", "generated"} => pc'[u] = pc[u],
           \A u \in Tasks : pc'[u] \in {"generating", "generated"} => pc'[u] = pc[u],
           \A u \in Tasks : pc[u] = "generated" => requested'[claim'[u]] = requested[claim[u]]
    PROVE  BudgetInv'
<1>1. Spending' = Spending /\ Unlocked' = Unlocked
    BY DEF Spending, Unlocked
<1>2. Generating' = Generating /\ \A m \in Months : Unrecorded(m)' = Unrecorded(m)
    BY DEF Generating, Unrecorded
<1>3. UNCHANGED <<recorded, lock, month, billed, foreign, slips>>
    BY DEF money
<1> QED BY <1>1, <1>2, <1>3 DEF BudgetInv, BudgetAccounted

(* Claims come and go, rows are inserted and recovered. *)
LEMMA ClaimsSpendNothing ==
    ASSUME ClaimInv, BudgetInv, NEW t,
           \/ t \in Tasks /\ (Consume(t) \/ Recover(t) \/ MarkProcessing(t))
           \/ \E k \in Reports :
                 \/ t \in Tasks /\ (Retrigger(t, k) \/ ClaimScheduled(t, k) \/ NextRecovered(t, k))
                 \/ Age(k)
           \/ UNCHANGED vars
    PROVE  BudgetInv'
<1> DEFINE Quiet == /\ UNCHANGED <<lock, recorded, money>>
                    /\ \A u \in Tasks : pc[u] \in {"locked", "generating", "generated"}
                          => pc'[u] = pc[u] /\ claim'[u] = claim[u]
                    /\ \A u \in Tasks : pc'[u] \in {"generating", "generated"} => pc'[u] = pc[u]
                    /\ \A k \in Reports : report[k] # "none" => requested'[k] = requested[k]
<1>1. Quiet
  <2>1. CASE t \in Tasks /\ Consume(t)
    <3>1. PICK e \in Events : Reject(t, e) \/ IgnoreEvent(t, e) \/ ClaimEvent(t, e)
      BY <2>1 DEF Consume
    <3>2. CASE Reject(t, e) \/ IgnoreEvent(t, e)
      BY <3>2 DEF Reject, IgnoreEvent, tasks, ledger
    <3>3. CASE ClaimEvent(t, e)
      BY <2>1, <3>3, AiConstants DEF ClaimEvent, InsertReport, StartsWith, ClaimInv, TypeOK
    <3> QED BY <3>1, <3>2, <3>3
  <2>2. CASE t \in Tasks /\ Recover(t)
    BY <2>2 DEF Recover
  <2>3. CASE t \in Tasks /\ MarkProcessing(t)
    BY <2>3 DEF MarkProcessing, ClaimInv, TypeOK
  <2>4. ASSUME NEW k \in Reports, t \in Tasks,
               Retrigger(t, k) \/ ClaimScheduled(t, k) \/ NextRecovered(t, k)
        PROVE  Quiet
    BY <2>4 DEF Retrigger, ClaimScheduled, NextRecovered, InsertReport, StartsWith, ledger, ClaimInv, TypeOK
  <2>5. ASSUME NEW k \in Reports, Age(k) PROVE Quiet
    BY <2>5 DEF Age, tasks
  <2>6. CASE UNCHANGED vars
    BY <2>6 DEF vars, tasks, ledger
  <2> QED BY <2>1, <2>2, <2>3, <2>4, <2>5, <2>6
<1>2. \A u \in Tasks : pc[u] = "generated" => requested'[claim'[u]] = requested[claim[u]]
    BY <1>1 DEF ClaimInv, TypeOK
<1> HIDE DEF Quiet
<1> QED BY <1>1, <1>2, BudgetAlone DEF Quiet

(* What the types say of the numbers. *)
LEMMA Numbers ==
    ASSUME ClaimInv
    PROVE  /\ slips \in Nat /\ Cap \in Nat /\ month \in Months /\ Months \subseteq Nat
           /\ \A m \in Months : billed[m] \in Nat /\ foreign[m] \in Nat /\ recorded[m] \in Nat
    BY AiConstants DEF ClaimInv, TypeOK, Months

(* The lock is taken by a task that spends nothing yet. *)
LEMMA AcquireBudget ==
    ASSUME ClaimInv, BudgetInv, NEW t \in Tasks, AcquireLock(t)
    PROVE  BudgetInv'
<1>1. /\ pc[t] = "working" /\ pc'[t] = "locked" /\ lock = NoTask /\ lock' = t
      /\ \A u \in Tasks \ {t} : pc'[u] = pc[u]
      /\ UNCHANGED <<requested, claim, recorded, month, billed, foreign, slips>>
    BY DEF AcquireLock, ledger, money, ClaimInv, TypeOK
<1>2. Spending' = Spending /\ Unlocked' = Unlocked
    BY <1>1, AiConstants DEF Spending, Unlocked
<1>3. Generating' = Generating /\ \A m \in Months : Unrecorded(m)' = Unrecorded(m)
    BY <1>1 DEF Generating, Unrecorded
<1>4. \A u \in Tasks : lock' = u => pc'[u] \in {"locked", "generating", "generated"}
    BY <1>1
<1> QED BY <1>1, <1>2, <1>3, <1>4 DEF BudgetInv, BudgetAccounted

(* Admission: every other task that spends has lost the lock, so what it   *)
(* can still cost is covered by slips.                                     *)
LEMMA AdmitBudget ==
    ASSUME ClaimInv, BudgetInv, NEW t \in Tasks, Admit(t)
    PROVE  BudgetInv'
<1>1. /\ pc[t] = "locked" /\ pc'[t] = "generating" /\ lock = t
      /\ \A u \in Tasks \ {t} : pc'[u] = pc[u]
      /\ UNCHANGED <<requested, claim, recorded, month, billed, foreign, slips, lock>>
      /\ recorded[month] + 1 <= Cap
    BY DEF Admit, WithinCap, ledger, money, ClaimInv, TypeOK
<1>2. Spending' = Spending \cup {t} /\ Unlocked' = Unlocked /\ Generating' = Generating \cup {t}
    BY <1>1 DEF Spending, Unlocked, Generating
<1>3. \A m \in Months : Unrecorded(m)' = Unrecorded(m)
    BY <1>1 DEF Unrecorded
<1>4. t \notin Generating /\ IsFiniteSet(Spending) /\ IsFiniteSet(Spending')
    BY <1>1, <1>2, CountOne DEF Generating, BudgetInv
<1>5. month \in Months
    BY Numbers
<1>6. Cardinality(Generating) + Cardinality(Unrecorded(month)) <= Cardinality(Unlocked)
  <2> DEFINE G == Generating
             R == Unrecorded(month)
  <2>1. G \cap R = {} /\ G \cup R \in SUBSET Unlocked
    BY <1>1 DEF Generating, Unrecorded, Unlocked, Spending
  <2>2. /\ IsFiniteSet(G) /\ IsFiniteSet(R) /\ IsFiniteSet(Unlocked)
        /\ Cardinality(G) \in Nat /\ Cardinality(R) \in Nat /\ Cardinality(Unlocked) \in Nat
    BY <1>5, Counts
  <2>3. Cardinality(G \cap R) = 0
    BY <2>1, FS_EmptySet
  <2> HIDE DEF G, R
  <2>4. Cardinality(G \cup R) = Cardinality(G) + Cardinality(R) - Cardinality(G \cap R)
    BY <2>2, FS_Union
  <2>5. Cardinality(G \cup R) <= Cardinality(Unlocked)
    BY <2>1, <2>2, FS_Subset
  <2>6. Cardinality(G) + Cardinality(R) <= Cardinality(Unlocked)
    BY <2>2, <2>3, <2>4, <2>5
  <2> QED BY <2>6 DEF G, R
<1>7. Cardinality(Generating)' = Cardinality(Generating) + 1
    BY <1>2, <1>4, Counts, CountOne
<1>8. billed'[month'] + Cardinality(Generating)' <= foreign'[month'] + Cap + slips'
  <2>1. billed[month] + Cardinality(Unlocked)
            <= foreign[month] + recorded[month] + slips + Cardinality(Unrecorded(month))
    BY <1>5 DEF BudgetInv
  <2>2. /\ Cardinality(Unlocked) \in Nat /\ Cardinality(Generating) \in Nat
        /\ Cardinality(Unrecorded(month)) \in Nat
    BY <1>5, Counts
  <2> QED BY <1>1, <1>5, <1>6, <1>7, <2>1, <2>2, Numbers
<1>9. \A u \in Tasks : lock' = u => pc'[u] \in {"locked", "generating", "generated"}
    BY <1>1
<1> QED BY <1>1, <1>2, <1>3, <1>4, <1>8, <1>9 DEF BudgetInv, BudgetAccounted

(* The provider answers: the charge moves from Generating to Unrecorded,   *)
(* or to foreign.                                                          *)
LEMMA RespondBudget ==
    ASSUME ClaimInv, BudgetInv, NEW t \in Tasks, Respond(t)
    PROVE  BudgetInv'
<1>1. /\ pc[t] = "generating" /\ pc'[t] = "generated"
      /\ \A u \in Tasks \ {t} : pc'[u] = pc[u]
      /\ UNCHANGED <<requested, claim, recorded, month, slips, lock>>
      /\ claim[t] \in Reports
    BY DEF Respond, ledger, ClaimInv, TypeOK
<1>2. Spending' = Spending /\ Unlocked' = Unlocked /\ Generating' = Generating \ {t}
    BY <1>1 DEF Spending, Unlocked, Generating
<1>3. \A m \in Months : Unrecorded(m)' = IF requested[claim[t]] = m THEN Unrecorded(m) \cup {t}
                                         ELSE Unrecorded(m)
    BY <1>1 DEF Unrecorded
<1>4. t \in Generating /\ \A m \in Months : t \notin Unrecorded(m)
    BY <1>1 DEF Generating, Unrecorded
<1>5. /\ Cardinality(Generating)' = Cardinality(Generating) - 1
      /\ \A m \in Months : Cardinality(Unrecorded(m))' =
            IF requested[claim[t]] = m THEN Cardinality(Unrecorded(m)) + 1
            ELSE Cardinality(Unrecorded(m))
    BY <1>2, <1>3, <1>4, Counts, CountOne
<1>6. /\ \A m \in Months \ {month} : billed'[m] = billed[m] /\ foreign'[m] = foreign[m]
      /\ billed'[month] = billed[month] + 1
      /\ foreign'[month] = IF requested[claim[t]] = month THEN foreign[month] ELSE foreign[month] + 1
    BY DEF Respond, Charge, ClaimInv, TypeOK
<1>7. \A u \in Tasks : lock' = u => pc'[u] \in {"locked", "generating", "generated"}
    BY <1>1 DEF BudgetInv
<1>8. \A m \in Months : foreign'[m] <= billed'[m] /\ (m > month' => billed'[m] = 0)
    BY <1>1, <1>6, Numbers DEF BudgetInv
<1>9. \A m \in Months : billed'[m] + Cardinality(Unlocked)'
                            <= foreign'[m] + recorded'[m] + slips' + Cardinality(Unrecorded(m))'
    BY <1>1, <1>2, <1>5, <1>6, Numbers, Counts DEF BudgetInv
<1>10. billed'[month'] + Cardinality(Generating)' <= foreign'[month'] + Cap + slips'
    BY <1>1, <1>5, <1>6, Numbers, Counts DEF BudgetInv
<1>11. \A m \in Months : billed'[m] <= Cap + slips' + foreign'[m]
  <2>1. Cardinality(Generating)' \in Nat
    <3>1. Cardinality(Generating) >= 1
      BY <1>4, Counts, FS_EmptySet
    <3> QED BY <1>5, <3>1, Counts
  <2>2. billed'[month] <= Cap + slips' + foreign'[month]
    BY <1>1, <1>6, <1>10, <2>1, Numbers
  <2> QED BY <1>1, <1>6, <2>2 DEF BudgetInv, BudgetAccounted
<1> QED BY <1>1, <1>2, <1>7, <1>8, <1>9, <1>10, <1>11 DEF BudgetInv, BudgetAccounted

(* A lost session is a slip, and its task spends without the lock. *)
LEMMA LoseBudget ==
    ASSUME ClaimInv, BudgetInv, NEW t \in Tasks, LoseSession(t)
    PROVE  BudgetInv'
<1>1. /\ lock = t /\ lock' = NoTask /\ slips' = slips + 1
      /\ UNCHANGED <<pc, requested, claim, recorded, month, billed, foreign>>
    BY DEF LoseSession, tasks, ledger
<1>2. /\ Spending' = Spending /\ Generating' = Generating
      /\ Unlocked' = IF t \in Spending THEN Unlocked \cup {t} ELSE Unlocked
      /\ \A m \in Months : Unrecorded(m)' = Unrecorded(m)
    BY <1>1, AiConstants DEF Spending, Unlocked, Generating, Unrecorded
<1>3. /\ Cardinality(Unlocked)' \in Nat
      /\ Cardinality(Unlocked)' <= Cardinality(Unlocked) + 1
  <2>1. Cardinality(Unlocked) \in Nat /\ IsFiniteSet(Unlocked)
    BY Counts
  <2>2. CASE t \in Spending
    BY <1>2, <2>1, <2>2, CountOne
  <2>3. CASE t \notin Spending
    BY <1>2, <2>1, <2>3
  <2> QED BY <2>2, <2>3
<1>4. \A u \in Tasks : lock' # u
    BY <1>1, AiConstants
<1>5. Cardinality(Unlocked)' <= slips'
    BY <1>1, <1>3, Counts, Numbers DEF BudgetInv
<1>6. \A m \in Months : billed'[m] + Cardinality(Unlocked)'
                            <= foreign'[m] + recorded'[m] + slips' + Cardinality(Unrecorded(m))'
    BY <1>1, <1>2, <1>3, Counts, Numbers DEF BudgetInv
<1>7. billed'[month'] + Cardinality(Generating)' <= foreign'[month'] + Cap + slips'
    BY <1>1, <1>2, Counts, Numbers DEF BudgetInv
<1>8. \A m \in Months : billed'[m] <= Cap + slips' + foreign'[m]
    BY <1>1, Numbers DEF BudgetInv, BudgetAccounted
<1> QED BY <1>1, <1>2, <1>4, <1>5, <1>6, <1>7, <1>8 DEF BudgetInv, BudgetAccounted

(* A month begins with nothing billed, and those who wait for the provider *)
(* were admitted in the month before.                                      *)
LEMMA MonthBudget ==
    ASSUME ClaimInv, BudgetInv, NextMonth
    PROVE  BudgetInv'
<1>1. /\ month' = month + 1 /\ month' \in Months
      /\ UNCHANGED <<pc, requested, claim, recorded, lock, billed, foreign, slips>>
    BY AiConstants DEF NextMonth, tasks, ledger, ClaimInv, TypeOK, Months
<1>2. /\ Spending' = Spending /\ Generating' = Generating /\ Unlocked' = Unlocked
      /\ \A m \in Months : Unrecorded(m)' = Unrecorded(m)
    BY <1>1 DEF Spending, Unlocked, Generating, Unrecorded
<1>3. month \in Nat /\ billed[month'] = 0 /\ foreign[month'] \in Nat
  <2>1. foreign[month'] \in Nat
    BY <1>1, Numbers
  <2>2. month \in Nat
    BY Numbers
  <2>3. month' > month
    BY <1>1, <2>2
  <2> QED BY <1>1, <2>1, <2>2, <2>3 DEF BudgetInv
<1>4. billed'[month'] + Cardinality(Generating)' <= foreign'[month'] + Cap + slips'
    BY <1>1, <1>2, <1>3, Counts, Numbers DEF BudgetInv
<1>5. \A m \in Months : m > month' => billed'[m] = 0
    BY <1>1, <1>3, Numbers DEF BudgetInv
<1> QED BY <1>1, <1>2, <1>4, <1>5 DEF BudgetInv, BudgetAccounted

(* A task that is done: its cost is recorded, or has slipped. *)
LEMMA LeaveBudget ==
    ASSUME ClaimInv, BudgetInv, NEW t \in Tasks, Done(t), slips' \in Nat, slips' >= slips,
           UNCHANGED <<requested, month>>,
           \A m \in Months : recorded'[m] \in Nat /\ recorded'[m] >= recorded[m],
           \/ UNCHANGED <<billed, foreign>>
           \/ pc[t] = "generating" /\ Charge(t) /\ slips' = slips + 1,
           pc[t] = "generated" =>
               \/ slips' = slips + 1
               \/ recorded'[requested[claim[t]]] = recorded[requested[claim[t]]] + 1
    PROVE  BudgetInv'
<1>1. /\ pc'[t] = "idle" /\ lock' # t /\ (lock' = lock \/ (lock = t /\ lock' = NoTask))
      /\ \A u \in Tasks \ {t} : pc'[u] = pc[u] /\ claim'[u] = claim[u]
  <2>1. NoTask # t
    BY AiConstants
  <2>2. lock' # t /\ (lock' = lock \/ (lock = t /\ lock' = NoTask))
    BY <2>1 DEF Done
  <2>3. pc'[t] = "idle" /\ \A u \in Tasks \ {t} : pc'[u] = pc[u] /\ claim'[u] = claim[u]
    BY DEF Done, ClaimInv, TypeOK
  <2> QED BY <2>2, <2>3
<1>2. /\ Spending' = Spending \ {t} /\ Unlocked' = Unlocked \ {t} /\ Generating' = Generating \ {t}
      /\ \A m \in Months : Unrecorded(m)' = Unrecorded(m) \ {t}
    BY <1>1, AiConstants DEF Spending, Unlocked, Generating, Unrecorded
<1>3. IsFiniteSet(Spending)'
    BY <1>2, CountOne DEF BudgetInv
<1>4. /\ Cardinality(Unlocked)' \in Nat /\ Cardinality(Unlocked)' <= Cardinality(Unlocked)
      /\ Cardinality(Generating)' \in Nat /\ Cardinality(Generating)' <= Cardinality(Generating)
    BY <1>2, Counts, CountOne
<1>5. \A m \in Months : /\ Cardinality(Unrecorded(m))' \in Nat
                        /\ Cardinality(Unrecorded(m))' =
                              IF t \in Unrecorded(m) THEN Cardinality(Unrecorded(m)) - 1
                              ELSE Cardinality(Unrecorded(m))
  <2> SUFFICES ASSUME NEW m \in Months
               PROVE  /\ Cardinality(Unrecorded(m))' \in Nat
                      /\ Cardinality(Unrecorded(m))' =
                            IF t \in Unrecorded(m) THEN Cardinality(Unrecorded(m)) - 1
                            ELSE Cardinality(Unrecorded(m))
    OBVIOUS
  <2>1. Unrecorded(m)' = Unrecorded(m) \ {t} /\ IsFiniteSet(Unrecorded(m))
    BY <1>2, Counts
  <2> DEFINE U == Unrecorded(m)
  <2>2. /\ Cardinality(U \ {t}) \in Nat
        /\ Cardinality(U \ {t}) = IF t \in U THEN Cardinality(U) - 1 ELSE Cardinality(U)
    BY <2>1, CountOne
  <2> QED BY <2>1, <2>2
<1>6. /\ \A m \in Months : /\ billed'[m] \in Nat /\ foreign'[m] \in Nat /\ foreign'[m] >= foreign[m]
                           /\ billed'[m] <= billed[m] + (slips' - slips)
                           /\ foreign'[m] <= billed'[m]
                           /\ m > month => billed'[m] = 0
  <2>1. CASE UNCHANGED <<billed, foreign>>
    BY <2>1, Numbers DEF BudgetInv
  <2>2. CASE pc[t] = "generating" /\ Charge(t) /\ slips' = slips + 1
    BY <2>2, Numbers DEF BudgetInv, Charge, ClaimInv, TypeOK
  <2> QED BY <2>1, <2>2
<1>7. \A u \in Tasks : lock' = u => pc'[u] \in {"locked", "generating", "generated"}
    BY <1>1, AiConstants DEF BudgetInv
<1>8. ASSUME NEW m \in Months
      PROVE  billed'[m] + Cardinality(Unlocked)'
                            <= foreign'[m] + recorded'[m] + slips' + Cardinality(Unrecorded(m))'
  <2>1. CASE t \notin Unrecorded(m)
    BY <1>4, <1>5, <1>6, <2>1, Counts, Numbers DEF BudgetInv
  <2>2. CASE t \in Unrecorded(m)
    <3>1. pc[t] = "generated" /\ requested[claim[t]] = m /\ billed'[m] = billed[m] /\ foreign'[m] = foreign[m]
      BY <2>2 DEF Unrecorded
    <3> QED BY <1>4, <1>5, <2>2, <3>1, Counts, Numbers DEF BudgetInv
  <2> QED BY <2>1, <2>2
<1>9. billed'[month'] + Cardinality(Generating)' <= foreign'[month'] + Cap + slips'
    BY <1>4, <1>6, Counts, Numbers DEF BudgetInv
<1>10. \A m \in Months : billed'[m] <= Cap + slips' + foreign'[m]
    BY <1>6, Numbers DEF BudgetInv, BudgetAccounted
<1>11. Cardinality(Unlocked)' <= slips'
    BY <1>4, Counts, Numbers DEF BudgetInv
<1> QED BY <1>3, <1>6, <1>7, <1>8, <1>9, <1>10, <1>11 DEF BudgetInv, BudgetAccounted

(* Settling a claim, and crashing. *)
LEMMA SettleBudget ==
    ASSUME ClaimInv, ClaimInv', BudgetInv, NEW t \in Tasks, Settles(t) \/ Crash(t)
    PROVE  BudgetInv'
<1>0. slips' \in Nat /\ slips \in Nat
    BY Numbers DEF ClaimInv, TypeOK
<1>1. CASE Crash(t)
  <2>1. /\ Done(t) /\ UNCHANGED <<requested, month, recorded>> /\ slips' >= slips
        /\ \/ UNCHANGED <<billed, foreign>>
           \/ pc[t] = "generating" /\ Charge(t) /\ slips' = slips + 1
        /\ pc[t] = "generated" => slips' = slips + 1
    BY <1>0, <1>1 DEF Crash, ledger
  <2> QED BY <1>0, <2>1, LeaveBudget, Numbers
<1>2. CASE Settles(t)
  <2>1. PICK status \in {"completed", "failed"}, cost \in {0, 1} :
            Settle(t, status, cost) /\ (pc[t] = "generated" => cost = 1)
    BY <1>2 DEF Settles, FailEarly, Refuse, FailUnpaid, Complete, FailPaid, FailUnparsed
  <2>2. claim[t] \in Reports /\ requested[claim[t]] \in Months
    BY <1>2 DEF Settles, FailEarly, Refuse, FailUnpaid, Complete, FailPaid, FailUnparsed, ClaimInv, TypeOK
  <2>3. /\ \A m \in Months : recorded'[m] \in Nat /\ recorded'[m] >= recorded[m]
        /\ pc[t] = "generated" => recorded'[requested[claim[t]]] = recorded[requested[claim[t]]] + 1
    BY <2>1, <2>2 DEF Settle, ClaimInv, TypeOK
  <2>4. /\ slips' >= slips /\ month' = month
        /\ \/ UNCHANGED <<billed, foreign>>
           \/ pc[t] = "generating" /\ Charge(t) /\ slips' = slips + 1
    BY <1>0, <1>2 DEF Settles, FailEarly, Refuse, FailUnpaid, Complete, FailPaid, FailUnparsed, money
  <2>5. Done(t) /\ requested' = requested
    BY <2>1 DEF Settle
  <2> QED BY <1>0, <2>3, <2>4, <2>5, LeaveBudget
<1> QED BY <1>1, <1>2

(* Every step keeps the budget balanced. *)
LEMMA StepBudget == ClaimInv /\ ClaimInv' /\ BudgetInv /\ [Next]_vars => BudgetInv'
<1> SUFFICES ASSUME ClaimInv, ClaimInv', BudgetInv, [Next]_vars PROVE BudgetInv'
    OBVIOUS
<1>1. ASSUME NEW t \in Tasks, Process(t) PROVE BudgetInv'
    BY <1>1, ClaimsSpendNothing, AcquireBudget, AdmitBudget, RespondBudget, SettleBudget
       DEF Process, Settles
<1>2. ASSUME NEW t \in Tasks, FailUnparsed(t) \/ LoseSession(t) \/ Crash(t) PROVE BudgetInv'
    BY <1>2, LoseBudget, SettleBudget DEF Settles
<1>3. ASSUME NEW t \in Tasks,
             \/ Consume(t) \/ Recover(t)
             \/ \E k \in Reports : Retrigger(t, k) \/ ClaimScheduled(t, k) \/ NextRecovered(t, k)
      PROVE  BudgetInv'
    BY <1>3, ClaimsSpendNothing
<1>4. CASE \/ UNCHANGED vars
           \/ \E k \in Reports : Age(k)
    BY <1>4, ClaimsSpendNothing
<1>5. CASE NextMonth
    BY <1>5, MonthBudget
<1> QED BY <1>1, <1>2, <1>3, <1>4, <1>5 DEF Next

(* The two invariants together. *)
LEMMA AiInvariants == Spec => [](ClaimInv /\ BudgetInv)
    BY InitClaims, InitBudget, StepClaims, StepBudget, PTL DEF Spec

(* One session at a time spends under the budget lock; every other one     *)
(* that does has lost its session, and is counted.                         *)
THEOREM SpendingSerial == Spec => []SpendingIsSerial
<1>1. ClaimInv /\ BudgetInv => SpendingIsSerial
  <2> SUFFICES ASSUME ClaimInv, BudgetInv PROVE SpendingIsSerial
    OBVIOUS
  <2>1. IsFiniteSet(Unlocked \cup {lock}) /\ Spending \in SUBSET (Unlocked \cup {lock})
    BY Counts, CountOne DEF Unlocked
  <2>2. Cardinality(Spending) <= Cardinality(Unlocked \cup {lock}) /\ Cardinality(Spending) \in Nat
    BY <2>1, FS_Subset, FS_CardinalityType
  <2>3. Cardinality(Unlocked \cup {lock}) <= Cardinality(Unlocked) + 1
    BY Counts, CountOne
  <2>4. Cardinality(Unlocked \cup {lock}) \in Nat
    BY <2>1, FS_CardinalityType
  <2>5. Cardinality(Spending) <= 1 + slips
    BY <2>2, <2>3, <2>4, Counts, Numbers DEF BudgetInv
  <2> QED BY <2>5 DEF SpendingIsSerial, Spending, BudgetInv
<1> QED BY <1>1, AiInvariants, PTL

(* In no month is more paid for than the cap, what slipped through faults, *)
(* and what is charged to other months: with any number of replicas, lost  *)
(* locks and crashes.                                                      *)
THEOREM BudgetHolds == Spec => []BudgetAccounted
<1>1. BudgetInv => BudgetAccounted
    BY DEF BudgetInv
<1> QED BY <1>1, AiInvariants, PTL
=============================================================================
