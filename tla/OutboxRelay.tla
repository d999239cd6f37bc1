----------------------------- MODULE OutboxRelay -----------------------------
(***************************************************************************)
(* The transactional outbox and its relay: gateway/src/events.rs writes an *)
(* event_outbox row inside the ingest transaction, gateway/src/relay.rs    *)
(* drains the table into RabbitMQ from any number of gateway replicas.     *)
(*                                                                         *)
(* A relay's batch is one database transaction: the rows it selected FOR   *)
(* UPDATE SKIP LOCKED stay locked in claimed[r] until it commits or rolls  *)
(* back, and the marks it makes meanwhile are visible to no one.  The      *)
(* broker, on the other hand, keeps every copy it has accepted.            *)
(***************************************************************************)
EXTENDS Naturals, FiniteSets

CONSTANTS Relays,       \* gateway replicas running the relay
          Queues,       \* consumer queues that may bind to the exchange
          MaxEvents,    \* bound: ids handed out by events::enqueue
          BATCH_SIZE,   \* rows claimed at once (50 in the code)
          MAX_ATTEMPTS, \* nacks after which a row is parked (8 in the code)
          MaxFaults     \* bound: crashes, lost connections, database errors

ASSUME RelayConstants ==
    /\ MaxEvents \in Nat
    /\ BATCH_SIZE \in Nat \ {0}
    /\ MAX_ATTEMPTS \in Nat \ {0}
    /\ MaxFaults \in Nat

(* UUIDv7 ids sort by creation time; naturals in order stand for them. *)
Ids == 1..MaxEvents

VARIABLES status,     \* status[e]: the row's status, or where its writer is
          attempts,   \* attempts[e]: failed publishes recorded on the row
          due,        \* due[e]: available_at <= now()
          conn,       \* conn[r]: relay r is "down", "serving" or "draining"
          claimed,    \* claimed[r]: rows locked by r's open transaction
          todo,       \* todo[r]: claimed rows r has not published yet
          acked,      \* acked[r]: rows marked published in r's transaction
          bound,      \* queues bound to the exchange
          copies,     \* copies[e][q]: copies of e that queue q ever accepted
          subscribed, \* history: queues bound when row e was committed
          faults      \* history: batches that could have been rolled back

rows == <<status, attempts, due>>
relay == <<conn, claimed, todo, acked>>
broker == <<bound, copies, subscribed>>
vars == <<rows, relay, broker, faults>>

Status == {"absent", "uncommitted", "rolledback", "pending", "published", "failed"}

TypeOK ==
    /\ status \in [Ids -> Status]
    /\ attempts \in [Ids -> 0..MAX_ATTEMPTS]
    /\ due \in [Ids -> BOOLEAN]
    /\ conn \in [Relays -> {"down", "serving", "draining"}]
    /\ claimed \in [Relays -> SUBSET Ids]
    /\ todo \in [Relays -> SUBSET Ids]
    /\ acked \in [Relays -> SUBSET Ids]
    /\ bound \in SUBSET Queues
    /\ copies \in [Ids -> [Queues -> Nat]]
    /\ subscribed \in [Ids -> SUBSET Queues]
    /\ faults \in 0..MaxFaults

Init ==
    /\ status = [e \in Ids |-> "absent"]
    /\ attempts = [e \in Ids |-> 0]
    /\ due = [e \in Ids |-> TRUE]
    /\ conn = [r \in Relays |-> "down"]
    /\ claimed = [r \in Relays |-> {}]
    /\ todo = [r \in Relays |-> {}]
    /\ acked = [r \in Relays |-> {}]
    /\ bound \in SUBSET Queues
    /\ copies = [e \in Ids |-> [q \in Queues |-> 0]]
    /\ subscribed = [e \in Ids |-> {}]
    /\ faults = 0

-----------------------------------------------------------------------------
(* The ingest side: events::enqueue generates the id and inserts the row   *)
(* inside the caller's transaction; the row appears when that commits.     *)

Enqueue(e) ==
    /\ status[e] = "absent"
    /\ \A d \in Ids : d < e => status[d] # "absent"
    /\ status' = [status EXCEPT ![e] = "uncommitted"]
    /\ UNCHANGED <<attempts, due, relay, broker, faults>>

CommitFact(e) ==
    /\ status[e] = "uncommitted"
    /\ status' = [status EXCEPT ![e] = "pending"]
    /\ subscribed' = [subscribed EXCEPT ![e] = bound]
    /\ UNCHANGED <<attempts, due, relay, bound, copies, faults>>

RollbackFact(e) ==
    /\ status[e] = "uncommitted"
    /\ status' = [status EXCEPT ![e] = "rolledback"]
    /\ UNCHANGED <<attempts, due, relay, broker, faults>>

-----------------------------------------------------------------------------
(* The relay loop. *)

(* connect: open a channel with confirms, declare the exchanges. *)
Connect(r) ==
    /\ conn[r] = "down"
    /\ conn' = [conn EXCEPT ![r] = "serving"]
    /\ UNCHANGED <<rows, claimed, todo, acked, broker, faults>>

Locked == UNION {claimed[r] : r \in Relays}

(* Mutant: SKIP LOCKED forgotten, a replica also takes rows another holds. *)
ReadyIgnoresLocks == {e \in Ids : status[e] = "pending" /\ due[e]}

(* Mutant: the status filter lets rows through that are already settled. *)
ReadyIgnoresStatus ==
    {e \in Ids : status[e] \in {"pending", "published"} /\ due[e]} \ Locked

(* Mutant: only rows that were never tried are selected. *)
ReadyFirstTryOnly ==
    {e \in Ids : status[e] = "pending" /\ due[e] /\ attempts[e] = 0} \ Locked

(* status = 'pending' AND available_at <= now(), locked rows skipped. *)
Ready == {e \in Ids : status[e] = "pending" /\ due[e]} \ Locked

(* ORDER BY id ... LIMIT: a batch is the lowest rows of S, as many as fit. *)
IsBatch(B, S) ==
    /\ B # {} /\ B \subseteq S
    /\ Cardinality(B) <= BATCH_SIZE
    /\ \A d \in B, e \in S \ B : d < e
    /\ B = S \/ Cardinality(B) = BATCH_SIZE

(* drain_batch, the SELECT ... FOR UPDATE SKIP LOCKED.  With no row ready  *)
(* the code commits an empty transaction and waits for the next tick.      *)
Claim(r) ==
    /\ conn[r] = "serving"
    /\ \E B \in SUBSET Ready :
        /\ IsBatch(B, Ready)
        /\ claimed' = [claimed EXCEPT ![r] = B]
        /\ todo' = [todo EXCEPT ![r] = B]
    /\ conn' = [conn EXCEPT ![r] = "draining"]
    /\ UNCHANGED <<rows, acked, broker, faults>>

(* The row drain_batch publishes next: rows are visited in id order. *)
IsNext(e, r) == e \in todo[r] /\ \A d \in todo[r] : e <= d

(* External: a copy of e lands in every queue of Q. *)
Accept(e, Q) ==
    copies' = [copies EXCEPT ![e] =
                  [q \in Queues |-> IF q \in Q THEN @[q] + 1 ELSE @[q]]]

(* The broker confirms: every bound queue has the message (none, when none *)
(* is bound: an unroutable message is acked).  The row is marked published *)
(* inside the open transaction.                                            *)
PublishAck(r) ==
    /\ \E e \in todo[r] :
        /\ IsNext(e, r)
        /\ Accept(e, bound)
        /\ todo' = [todo EXCEPT ![r] = @ \ {e}]
        /\ acked' = [acked EXCEPT ![r] = @ \cup {e}]
    /\ UNCHANGED <<rows, conn, claimed, bound, subscribed, faults>>

(* Mutant: the confirmation is not inspected, a nacked row is marked too. *)
PublishNackMarks(r) ==
    /\ \E e \in todo[r], Q \in SUBSET bound :
        /\ IsNext(e, r)
        /\ Q # bound
        /\ Accept(e, Q)
        /\ todo' = [todo EXCEPT ![r] = @ \ {e}]
        /\ acked' = [acked EXCEPT ![r] = @ \cup {e}]
    /\ UNCHANGED <<rows, conn, claimed, bound, subscribed, faults>>

(* The broker nacks: some queue failed, the others may hold the message.   *)
(* record_failure's marks become visible at the commit.                    *)
PublishNack(r) ==
    /\ \E e \in todo[r], Q \in SUBSET bound :
        /\ IsNext(e, r)
        /\ Q # bound
        /\ Accept(e, Q)
        /\ todo' = [todo EXCEPT ![r] = @ \ {e}]
    /\ UNCHANGED <<rows, conn, claimed, acked, bound, subscribed, faults>>

Nacked(r) == claimed[r] \ (todo[r] \cup acked[r])

(* Mutant: off by one in the comparison with the limit. *)
ParksLate(e) == attempts[e] + 1 > MAX_ATTEMPTS

(* record_failure: at the limit the row is parked, else it backs off. *)
Parks(e) == attempts[e] + 1 >= MAX_ATTEMPTS

(* The locks go and relay r moves on to pc. *)
EndBatch(r, pc) ==
    /\ conn' = [conn EXCEPT ![r] = pc]
    /\ claimed' = [claimed EXCEPT ![r] = {}]
    /\ todo' = [todo EXCEPT ![r] = {}]
    /\ acked' = [acked EXCEPT ![r] = {}]

CommitBatch(r) ==
    /\ conn[r] = "draining"
    /\ todo[r] = {}
    /\ status' = [e \in Ids |-> IF e \in acked[r] THEN "published"
                                ELSE IF e \in Nacked(r) /\ Parks(e) THEN "failed"
                                ELSE status[e]]
    /\ attempts' = [e \in Ids |-> IF e \in Nacked(r) THEN attempts[e] + 1 ELSE attempts[e]]
    /\ due' = [e \in Ids |-> due[e] /\ ~(e \in Nacked(r) /\ ~Parks(e))]
    /\ EndBatch(r, "serving")
    /\ UNCHANGED <<broker, faults>>

(* The backoff of a nacked row runs out. *)
BackoffElapsed(e) ==
    /\ status[e] = "pending" /\ ~due[e]
    /\ due' = [due EXCEPT ![e] = TRUE]
    /\ UNCHANGED <<status, attempts, relay, broker, faults>>

-----------------------------------------------------------------------------
(* Failures.  Each drops the open transaction: the marks are lost, what    *)
(* the broker accepted is not.                                             *)

(* RelayError::Connection while publishing e: before, or after, the broker *)
(* took the message.  run reconnects.                                      *)
LoseConnection(r) ==
    /\ faults < MaxFaults
    /\ \E e \in todo[r], Q \in SUBSET bound : IsNext(e, r) /\ Accept(e, Q)
    /\ EndBatch(r, "down")
    /\ faults' = faults + 1
    /\ UNCHANGED <<rows, bound, subscribed>>

(* RelayError::Db from the UPDATE after a confirm, or from the commit: the *)
(* connection to the broker is kept and the next tick tries again.         *)
DbError(r) ==
    /\ faults < MaxFaults
    /\ conn[r] = "draining"
    /\ EndBatch(r, "serving")
    /\ faults' = faults + 1
    /\ UNCHANGED <<rows, broker>>

(* The gateway process dies or is shut down, and is started again. *)
Crash(r) ==
    /\ faults < MaxFaults
    /\ conn[r] # "down"
    /\ EndBatch(r, "down")
    /\ faults' = faults + 1
    /\ UNCHANGED <<rows, broker>>

(* A consumer starts and binds its durable queue. *)
Bind(q) ==
    /\ q \notin bound
    /\ bound' = bound \cup {q}
    /\ UNCHANGED <<rows, relay, copies, subscribed, faults>>

-----------------------------------------------------------------------------
RelayStep(r) ==
    \/ Connect(r)
    \/ Claim(r)
    \/ PublishAck(r)
    \/ PublishNack(r)
    \/ CommitBatch(r)
    \/ LoseConnection(r)
    \/ DbError(r)
    \/ Crash(r)

Next ==
    \/ \E e \in Ids : Enqueue(e) \/ CommitFact(e) \/ RollbackFact(e) \/ BackoffElapsed(e)
    \/ \E r \in Relays : RelayStep(r)
    \/ \E q \in Queues : Bind(q)

Spec == Init /\ [][Next]_vars

(* The relay task ticks every second for as long as the gateway runs, run  *)
(* reconnects for ever, and a publish is answered: the steps below happen. *)
(* Nothing is assumed of ingest, of consumers, or of failures.             *)
Fairness ==
    /\ \A r \in Relays :
        /\ WF_vars(Connect(r))
        /\ WF_vars(Claim(r))
        /\ WF_vars(PublishAck(r) \/ PublishNack(r))
        /\ WF_vars(CommitBatch(r))
    /\ \A e \in Ids : WF_vars(BackoffElapsed(e))

FairSpec == Spec /\ Fairness

-----------------------------------------------------------------------------
(* No row is in two open batches: FOR UPDATE SKIP LOCKED. *)
ClaimsExclusive ==
    \A r, s \in Relays : r # s => claimed[r] \cap claimed[s] = {}

(* A batch holds pending rows only, in an order of marks the code keeps. *)
BatchShape ==
    \A r \in Relays :
        /\ todo[r] \subseteq claimed[r]
        /\ acked[r] \subseteq claimed[r] \ todo[r]
        /\ \A e \in claimed[r] : status[e] = "pending"
        /\ conn[r] # "draining" => claimed[r] = {}

(* What is marked published, committed or not, is in every queue that was  *)
(* bound when the event was recorded.                                      *)
MarkedIsDelivered ==
    \A e \in Ids :
        (status[e] = "published" \/ \E r \in Relays : e \in acked[r])
            => \A q \in subscribed[e] : copies[e][q] > 0

SubscribersStayBound == \A e \in Ids : subscribed[e] \subseteq bound

(* A row that is still to be sent has attempts left. *)
AttemptsLeft ==
    \A e \in Ids : status[e] \notin {"published", "failed"} => attempts[e] < MAX_ATTEMPTS

(* Sent in a batch that is still open. *)
InFlight(e) == \E r \in Relays : e \in claimed[r] \ todo[r]

(* Every copy is accounted for: one per recorded nack, one per failure     *)
(* that rolled a batch back, one for the publish that was committed, one   *)
(* for a publish that is not committed yet.                                *)
CopiesAccounted ==
    \A e \in Ids, q \in Queues :
        copies[e][q] <= attempts[e] + faults
                        + (IF status[e] = "published" THEN 1 ELSE 0)
                        + (IF InFlight(e) THEN 1 ELSE 0)

(* The inductive invariant of the relay: replicas never hold the same row, *)
(* a published mark means the subscribed queues hold the event, a pending  *)
(* row has attempts left, and every copy in a queue is explained.          *)
RelayInv ==
    /\ ClaimsExclusive
    /\ BatchShape
    /\ MarkedIsDelivered
    /\ SubscribersStayBound
    /\ AttemptsLeft
    /\ CopiesAccounted

(* Draining from several replicas duplicates nothing by itself: a queue    *)
(* holds a second copy of an event only if the broker nacked it or a       *)
(* failure rolled a batch back (000009_ingestion.up.sql: SKIP LOCKED lets  *)
(* replicas drain without duplicating each other's rows).                  *)
NoSpuriousDuplicates ==
    \A e \in Ids, q \in Queues : copies[e][q] <= 1 + attempts[e] + faults

(* The relay implements at-least-once delivery: only committed facts are   *)
(* sent, a row is settled as published only when every queue subscribed at *)
(* its commit holds it, and a settled row is never sent again.             *)
OutcomeOf(s) ==
    IF s = "pending" THEN "owed"
    ELSE IF s = "published" THEN "delivered"
    ELSE IF s = "failed" THEN "parked"
    ELSE "absent"

Delivery == INSTANCE EventDelivery WITH
    outcome  <- [e \in Ids |-> OutcomeOf(status[e])],
    promised <- subscribed,
    got      <- [e \in Ids |-> {q \in Queues : copies[e][q] > 0}]

ImplementsDelivery == Delivery!AbsSpec

(* A committed event does not stay pending: it is published, or parked     *)
(* after MAX_ATTEMPTS nacks, whatever finite number of failures happen.    *)
EventuallySettled ==
    \A e \in Ids : status[e] = "pending" ~> status[e] \in {"published", "failed"}

(* 000009_ingestion.up.sql, lines 68-69: "uuidv7, so ORDER BY id is        *)
(* chronological order. The relay preserves publish order for free."  When *)
(* an event is first sent, every earlier committed event has been sent.    *)
Sent(e) == \E q \in Queues : copies[e][q] > 0

PublishOrder ==
    [][\A e \in Ids : ~Sent(e) /\ Sent(e)' =>
           \A d \in Ids : d < e /\ status[d] = "pending" => Sent(d)]_vars
=============================================================================
