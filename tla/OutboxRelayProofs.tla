-------------------------- MODULE OutboxRelayProofs --------------------------
(***************************************************************************)
(* Proofs about OutboxRelay, for any number of replicas, queues, events,   *)
(* batch size, attempt limit and failures.                                 *)
(***************************************************************************)
EXTENDS OutboxRelay, TLAPS

USE RelayConstants DEF Ids

(* The relay's variables keep their types; in particular no row records    *)
(* more than MAX_ATTEMPTS failures (this needs AttemptsLeft, hence the     *)
(* conjunction with the inductive invariant below).                        *)
LEMMA InitRelay == Init => TypeOK /\ RelayInv
  <1> SUFFICES ASSUME Init PROVE TypeOK /\ RelayInv
    OBVIOUS
  <1> USE DEF Init
  <1>1. TypeOK
    BY DEF TypeOK, Status
  <1>2. ClaimsExclusive /\ BatchShape /\ MarkedIsDelivered /\ SubscribersStayBound /\ AttemptsLeft
    BY DEF ClaimsExclusive, BatchShape, MarkedIsDelivered, SubscribersStayBound, AttemptsLeft
  <1>3. CopiesAccounted
    BY DEF CopiesAccounted, InFlight
  <1> QED
    BY <1>1, <1>2, <1>3 DEF RelayInv

(* What a step of ingest, of the clock or of a consumer leaves to prove:   *)
(* it touches neither the batches nor the copies.                          *)
LEMMA EnqueueStep ==
    ASSUME TypeOK, RelayInv, NEW e \in Ids, Enqueue(e) \/ RollbackFact(e)
    PROVE  TypeOK' /\ RelayInv'
  <1> USE DEF Enqueue, RollbackFact, rows, relay, broker, RelayInv
  <1>0. /\ status[e] \in {"absent", "uncommitted"}
        /\ status'[e] \in {"uncommitted", "rolledback"}
        /\ \A d \in Ids \ {e} : status'[d] = status[d]
        /\ status' \in [Ids -> Status]
        /\ UNCHANGED <<attempts, due, conn, claimed, todo, acked, bound, copies, subscribed, faults>>
    BY DEF TypeOK, Status
  <1>1. TypeOK'
    BY <1>0 DEF TypeOK
  <1> HIDE DEF Enqueue, RollbackFact
  <1>2. ClaimsExclusive' /\ SubscribersStayBound'
    BY <1>0 DEF ClaimsExclusive, SubscribersStayBound
  <1>3. BatchShape'
    BY <1>0 DEF BatchShape, TypeOK
  <1>4. MarkedIsDelivered'
    BY <1>0 DEF MarkedIsDelivered, TypeOK
  <1>5. AttemptsLeft'
    BY <1>0 DEF AttemptsLeft, TypeOK
  <1>6. CopiesAccounted'
    BY <1>0 DEF CopiesAccounted, InFlight, TypeOK
  <1> QED
    BY <1>1, <1>2, <1>3, <1>4, <1>5, <1>6

(* The commit of an ingest transaction (webhooks.rs) keeps the invariant: *)
(* the queues bound at that moment become the subscribers of the row.     *)
LEMMA CommitFactStep ==
    ASSUME TypeOK, RelayInv, NEW e \in Ids, CommitFact(e)
    PROVE  TypeOK' /\ RelayInv'
  <1> USE DEF RelayInv
  <1>0. /\ status[e] = "uncommitted" /\ status'[e] = "pending"
        /\ \A d \in Ids \ {e} : status'[d] = status[d] /\ subscribed'[d] = subscribed[d]
        /\ subscribed'[e] = bound
        /\ status' \in [Ids -> Status] /\ subscribed' \in [Ids -> SUBSET Queues]
        /\ UNCHANGED <<attempts, due, conn, claimed, todo, acked, bound, copies, faults>>
    BY DEF CommitFact, relay, TypeOK, Status
  <1>1. TypeOK'
    BY <1>0 DEF TypeOK
  <1>2. ClaimsExclusive' /\ SubscribersStayBound'
    BY <1>0 DEF ClaimsExclusive, SubscribersStayBound
  <1>3. BatchShape'
    BY <1>0 DEF BatchShape, TypeOK
  <1>4. MarkedIsDelivered'
    BY <1>0 DEF MarkedIsDelivered, BatchShape, TypeOK
  <1>5. AttemptsLeft'
    BY <1>0 DEF AttemptsLeft, TypeOK
  <1>6. CopiesAccounted'
    BY <1>0 DEF CopiesAccounted, InFlight, TypeOK
  <1> QED
    BY <1>1, <1>2, <1>3, <1>4, <1>5, <1>6

(* The clock and a starting consumer. *)
LEMMA EnvironmentStep ==
    ASSUME TypeOK, RelayInv,
           (\E e \in Ids : BackoffElapsed(e)) \/ (\E q \in Queues : Bind(q))
    PROVE  TypeOK' /\ RelayInv'
  <1> USE DEF RelayInv
  <1>0. /\ due' \in [Ids -> BOOLEAN] /\ bound' \in SUBSET Queues /\ bound \subseteq bound'
        /\ UNCHANGED <<status, attempts, conn, claimed, todo, acked, copies, subscribed, faults>>
    BY DEF BackoffElapsed, Bind, rows, relay, broker, TypeOK
  <1>1. TypeOK'
    BY <1>0 DEF TypeOK
  <1>2. ClaimsExclusive' /\ BatchShape' /\ MarkedIsDelivered'
    BY <1>0 DEF ClaimsExclusive, BatchShape, MarkedIsDelivered
  <1>3. SubscribersStayBound' /\ AttemptsLeft'
    BY <1>0 DEF SubscribersStayBound, AttemptsLeft
  <1>4. CopiesAccounted'
    BY <1>0 DEF CopiesAccounted, InFlight
  <1> QED
    BY <1>1, <1>2, <1>3, <1>4

(* Reconnecting (relay.rs, connect) opens no batch. *)
LEMMA ConnectStep ==
    ASSUME TypeOK, RelayInv, NEW r \in Relays, Connect(r)
    PROVE  TypeOK' /\ RelayInv'
  <1> USE DEF RelayInv
  <1>0. /\ conn' \in [Relays -> {"down", "serving", "draining"}]
        /\ conn[r] = "down"
        /\ \A s \in Relays \ {r} : conn'[s] = conn[s]
        /\ UNCHANGED <<status, attempts, due, claimed, todo, acked, bound, copies, subscribed, faults>>
    BY DEF Connect, rows, broker, TypeOK
  <1>1. TypeOK'
    BY <1>0 DEF TypeOK
  <1>2. ClaimsExclusive' /\ MarkedIsDelivered' /\ SubscribersStayBound' /\ AttemptsLeft'
    BY <1>0 DEF ClaimsExclusive, MarkedIsDelivered, SubscribersStayBound, AttemptsLeft
  <1>3. BatchShape'
    BY <1>0 DEF BatchShape
  <1>4. CopiesAccounted'
    BY <1>0 DEF CopiesAccounted, InFlight
  <1> QED
    BY <1>1, <1>2, <1>3, <1>4

(* The claim is disjoint from what every other replica has locked. *)
LEMMA ClaimStep ==
    ASSUME TypeOK, RelayInv, NEW r \in Relays, Claim(r)
    PROVE  TypeOK' /\ RelayInv'
  <1> USE DEF RelayInv
  <1>1. PICK B \in SUBSET Ready : /\ claimed' = [claimed EXCEPT ![r] = B]
                                  /\ todo' = [todo EXCEPT ![r] = B]
    BY DEF Claim
  <1>2. /\ conn[r] = "serving" /\ conn' = [conn EXCEPT ![r] = "draining"]
        /\ UNCHANGED <<status, attempts, due, acked, bound, copies, subscribed, faults>>
    BY DEF Claim, rows, broker
  <1>3. B \subseteq Ids /\ \A e \in B : status[e] = "pending" /\ \A s \in Relays : e \notin claimed[s]
    BY DEF Ready, Locked
  <1>4. claimed[r] = {} /\ todo[r] = {} /\ acked[r] = {}
    BY <1>2 DEF BatchShape
  <1>5. TypeOK'
    BY <1>1, <1>2, <1>3 DEF TypeOK
  <1>6. ClaimsExclusive'
    BY <1>1, <1>3 DEF ClaimsExclusive, TypeOK
  <1>7. BatchShape'
    BY <1>1, <1>2, <1>3, <1>4 DEF BatchShape, TypeOK
  <1>8. MarkedIsDelivered' /\ SubscribersStayBound' /\ AttemptsLeft'
    BY <1>2 DEF MarkedIsDelivered, SubscribersStayBound, AttemptsLeft
  <1>9. \A e \in Ids : InFlight(e)' <=> InFlight(e)
    BY <1>1, <1>4 DEF InFlight, TypeOK
  <1>10. CopiesAccounted'
    BY <1>2, <1>9 DEF CopiesAccounted
  <1> QED
    BY <1>5, <1>6, <1>7, <1>8, <1>10

(* Sending moves one row of r's batch from "to do" to "in flight": the     *)
(* copies it adds are the ones the in-flight term of CopiesAccounted pays. *)
LEMMA PublishStep ==
    ASSUME TypeOK, RelayInv, NEW r \in Relays, PublishAck(r) \/ PublishNack(r)
    PROVE  TypeOK' /\ RelayInv'
  <1> USE DEF RelayInv
  <1>1. PICK e \in todo[r], Q \in SUBSET bound :
            /\ Accept(e, Q)
            /\ todo' = [todo EXCEPT ![r] = @ \ {e}]
            /\ \/ acked' = [acked EXCEPT ![r] = @ \cup {e}] /\ Q = bound
               \/ acked' = acked
    BY DEF PublishAck, PublishNack
  <1>2. UNCHANGED <<status, attempts, due, conn, claimed, bound, subscribed, faults>>
    BY DEF PublishAck, PublishNack, rows
  <1>3. e \in Ids /\ e \in claimed[r] /\ status[e] = "pending"
    BY DEF BatchShape, TypeOK
  <1>4. /\ copies' \in [Ids -> [Queues -> Nat]]
        /\ \A d \in Ids \ {e} : copies'[d] = copies[d]
        /\ \A q \in Queues : copies'[e][q] >= copies[e][q] /\ copies'[e][q] <= copies[e][q] + 1
        /\ \A q \in Q : copies'[e][q] > 0
    BY <1>1, <1>3 DEF Accept, TypeOK
  <1>a. /\ acked' \in [Relays -> SUBSET Ids]
        /\ \A s \in Relays \ {r} : acked'[s] = acked[s]
        /\ acked'[r] \subseteq acked[r] \cup {e}
        /\ Q # bound => acked'[r] = acked[r]
    <2>1. CASE acked' = acked
      BY <2>1 DEF TypeOK
    <2>2. CASE acked' = [acked EXCEPT ![r] = @ \cup {e}] /\ Q = bound
      BY <2>2, <1>3 DEF TypeOK
    <2> QED
      BY <1>1, <2>1, <2>2
  <1>5. TypeOK'
    <2>1. todo' \in [Relays -> SUBSET Ids]
      BY <1>1, <1>3 DEF TypeOK
    <2> QED
      BY <1>2, <1>4, <1>a, <2>1 DEF TypeOK
  <1>6. ClaimsExclusive' /\ SubscribersStayBound' /\ AttemptsLeft'
    BY <1>2 DEF ClaimsExclusive, SubscribersStayBound, AttemptsLeft
  <1>7. BatchShape'
    BY <1>1, <1>2, <1>3, <1>a DEF BatchShape, TypeOK
  <1>8. MarkedIsDelivered'
    <2> SUFFICES ASSUME NEW d \in Ids,
                        status'[d] = "published" \/ \E s \in Relays : d \in acked'[s],
                        NEW q \in subscribed'[d]
                 PROVE  copies'[d][q] > 0
      BY DEF MarkedIsDelivered
    <2>1. q \in Queues /\ q \in bound
      BY <1>2 DEF SubscribersStayBound, TypeOK
    <2>2. CASE d = e /\ Q = bound
      BY <2>1, <2>2, <1>4
    <2>3. CASE ~(d = e /\ Q = bound)
      <3>1. status[d] = "published" \/ \E s \in Relays : d \in acked[s]
        <4>1. CASE status'[d] = "published"
          BY <4>1, <1>2
        <4>2. CASE \E s \in Relays : d \in acked'[s]
          <5>1. PICK s \in Relays : d \in acked'[s]
            BY <4>2
          <5>2. d \in acked[s]
            BY <5>1, <1>a, <2>3
          <5> QED
            BY <5>2
        <4> QED
          BY <4>1, <4>2
      <3>2. copies[d][q] > 0 /\ copies[d][q] \in Nat
        BY <3>1, <2>1, <1>2 DEF MarkedIsDelivered, TypeOK
      <3> QED
        BY <3>2, <2>1, <1>4, <1>3 DEF TypeOK
    <2> QED
      BY <2>2, <2>3
  <1>9. /\ ~InFlight(e) /\ InFlight(e)'
        /\ \A d \in Ids \ {e} : InFlight(d)' <=> InFlight(d)
    BY <1>1, <1>2, <1>3 DEF InFlight, ClaimsExclusive, BatchShape, TypeOK
  <1>10. CopiesAccounted'
    <2> SUFFICES ASSUME NEW d \in Ids, NEW q \in Queues
                 PROVE  CopiesAccounted!(d, q)'
      BY DEF CopiesAccounted
    <2>0. /\ copies[d][q] \in Nat /\ copies'[d][q] \in Nat /\ attempts[d] \in Nat /\ faults \in Nat
          /\ CopiesAccounted!(d, q)
      BY <1>4 DEF CopiesAccounted, TypeOK
    <2>1. CASE d = e
      BY <2>0, <2>1, <1>2, <1>4, <1>9
    <2>2. CASE d # e
      BY <2>0, <2>2, <1>2, <1>4, <1>9
    <2> QED
      BY <2>1, <2>2
  <1> QED
    BY <1>5, <1>6, <1>7, <1>8, <1>10

(* The commit turns r's in-flight rows into published ones or recorded     *)
(* nacks: what the in-flight term paid is now paid by the row itself.      *)
LEMMA CommitBatchStep ==
    ASSUME TypeOK, RelayInv, NEW r \in Relays, CommitBatch(r)
    PROVE  TypeOK' /\ RelayInv'
  <1> USE DEF RelayInv
  <1>1. /\ status' = [e \in Ids |-> IF e \in acked[r] THEN "published"
                                ELSE IF e \in Nacked(r) /\ Parks(e) THEN "failed"
                                ELSE status[e]]
        /\ attempts' = [e \in Ids |-> IF e \in Nacked(r) THEN attempts[e] + 1 ELSE attempts[e]]
        /\ due' = [e \in Ids |-> due[e] /\ ~(e \in Nacked(r) /\ ~Parks(e))]
        /\ conn' = [conn EXCEPT ![r] = "serving"]
        /\ claimed' = [claimed EXCEPT ![r] = {}]
        /\ todo' = [todo EXCEPT ![r] = {}]
        /\ acked' = [acked EXCEPT ![r] = {}]
        /\ todo[r] = {}
        /\ UNCHANGED <<bound, copies, subscribed, faults>>
    BY DEF CommitBatch, EndBatch, broker
  <1>2. /\ Nacked(r) \subseteq claimed[r] /\ Nacked(r) \cap acked[r] = {}
        /\ claimed[r] = Nacked(r) \cup acked[r]
        /\ claimed[r] \subseteq Ids
        /\ \A e \in claimed[r] : status[e] = "pending" /\ attempts[e] < MAX_ATTEMPTS
    BY <1>1 DEF Nacked, BatchShape, AttemptsLeft, TypeOK
  <1>3. TypeOK'
    <2>1. status' \in [Ids -> Status]
      BY <1>1 DEF TypeOK, Status
    <2>2. attempts' \in [Ids -> 0..MAX_ATTEMPTS]
      BY <1>1, <1>2 DEF TypeOK
    <2>3. due' \in [Ids -> BOOLEAN]
      BY <1>1, Zenon DEF TypeOK
    <2> QED
      BY <1>1, <2>1, <2>2, <2>3 DEF TypeOK
  <1>4. ClaimsExclusive' /\ SubscribersStayBound'
    BY <1>1 DEF ClaimsExclusive, SubscribersStayBound, TypeOK
  <1>5. BatchShape'
    <2> SUFFICES ASSUME NEW s \in Relays, s # r
                 PROVE  BatchShape!(s)'
      BY <1>1 DEF BatchShape, TypeOK
    <2>1. \A e \in claimed[s] : e \notin claimed[r] /\ e \in Ids
      BY DEF ClaimsExclusive, TypeOK
    <2> QED
      BY <1>1, <1>2, <2>1 DEF BatchShape, TypeOK
  <1>6. MarkedIsDelivered'
    BY <1>1 DEF MarkedIsDelivered, TypeOK
  <1>7. AttemptsLeft'
    BY <1>1, <1>2 DEF AttemptsLeft, Parks, TypeOK
  <1>8. \A e \in Ids \ claimed[r] : InFlight(e)' <=> InFlight(e)
    BY <1>1 DEF InFlight, TypeOK
  <1>9. CopiesAccounted'
    <2> SUFFICES ASSUME NEW e \in Ids, NEW q \in Queues
                 PROVE  CopiesAccounted!(e, q)'
      BY DEF CopiesAccounted
    <2>0. /\ copies[e][q] \in Nat /\ attempts[e] \in Nat /\ faults \in Nat
          /\ CopiesAccounted!(e, q)
      BY DEF CopiesAccounted, TypeOK
    <2>1. CASE e \in acked[r]
      <3>1. /\ status[e] = "pending" /\ status'[e] = "published"
            /\ attempts'[e] = attempts[e] /\ copies'[e][q] = copies[e][q] /\ faults' = faults
        BY <2>1, <1>1, <1>2
      <3> QED
        BY <2>0, <3>1
    <2>2. CASE e \in Nacked(r)
      BY <2>0, <2>2, <1>1, <1>2
    <2>3. CASE e \notin claimed[r]
      BY <2>0, <2>3, <1>1, <1>2, <1>8
    <2> QED
      BY <2>1, <2>2, <2>3, <1>2
  <1> QED
    BY <1>3, <1>4, <1>5, <1>6, <1>7, <1>9

(* A failure adds one to the account of every event, which pays for the    *)
(* rows it releases although their copies are out.                         *)
LEMMA FailureStep ==
    ASSUME TypeOK, RelayInv, NEW r \in Relays, LoseConnection(r) \/ DbError(r) \/ Crash(r)
    PROVE  TypeOK' /\ RelayInv'
  <1> USE DEF RelayInv
  <1>1. /\ conn' \in [Relays -> {"down", "serving", "draining"}]
        /\ \A s \in Relays \ {r} : conn'[s] = conn[s]
        /\ claimed' = [claimed EXCEPT ![r] = {}]
        /\ todo' = [todo EXCEPT ![r] = {}]
        /\ acked' = [acked EXCEPT ![r] = {}]
        /\ faults < MaxFaults /\ faults' = faults + 1
        /\ UNCHANGED <<status, attempts, due, bound, subscribed>>
    BY DEF LoseConnection, DbError, Crash, EndBatch, rows, broker, TypeOK
  <1>2. /\ copies' \in [Ids -> [Queues -> Nat]]
        /\ \A e \in Ids, q \in Queues : copies'[e][q] >= copies[e][q]
        /\ \A e \in Ids, q \in Queues : copies'[e][q] <= copies[e][q] + 1
        /\ \A e \in Ids : InFlight(e) => copies'[e] = copies[e]
    <2>1. CASE copies' = copies
      BY <2>1 DEF TypeOK
    <2>2. CASE \E e \in todo[r], Q \in SUBSET bound : Accept(e, Q)
      <3>1. PICK e \in todo[r], Q \in SUBSET bound : Accept(e, Q)
        BY <2>2
      <3>2. e \in Ids /\ ~InFlight(e)
        BY DEF InFlight, BatchShape, ClaimsExclusive, TypeOK
      <3>3. /\ copies' \in [Ids -> [Queues -> Nat]]
            /\ \A d \in Ids \ {e} : copies'[d] = copies[d]
            /\ \A q \in Queues : copies'[e][q] >= copies[e][q]
            /\ \A q \in Queues : copies'[e][q] <= copies[e][q] + 1
        BY <3>1, <3>2 DEF Accept, TypeOK
      <3>4. \A d \in Ids, q \in Queues : copies[d][q] \in Nat
        BY DEF TypeOK
      <3>5. \A d \in Ids, q \in Queues :
                copies'[d][q] >= copies[d][q] /\ copies'[d][q] <= copies[d][q] + 1
        <4> TAKE d \in Ids, q \in Queues
        <4>1. CASE d = e
          BY <4>1, <3>3
        <4>2. CASE d # e
          <5>1. copies'[d][q] = copies[d][q] /\ copies[d][q] \in Nat
            BY <4>2, <3>3, <3>4
          <5> QED
            BY <5>1
        <4> QED
          BY <4>1, <4>2
      <3>7. \A d \in Ids : InFlight(d) => copies'[d] = copies[d]
        BY <3>2, <3>3
      <3> QED
        BY <3>3, <3>5, <3>7
    <2> QED
      BY <2>1, <2>2 DEF LoseConnection, DbError, Crash, broker
  <1>3. TypeOK'
    BY <1>1, <1>2 DEF TypeOK
  <1>4. ClaimsExclusive' /\ SubscribersStayBound' /\ AttemptsLeft'
    BY <1>1 DEF ClaimsExclusive, SubscribersStayBound, AttemptsLeft, TypeOK
  <1>5. BatchShape'
    BY <1>1 DEF BatchShape, TypeOK
  <1>6. MarkedIsDelivered'
    BY <1>1, <1>2 DEF MarkedIsDelivered, TypeOK
  <1>7. \A e \in Ids : InFlight(e)' => InFlight(e)
    BY <1>1 DEF InFlight, TypeOK
  <1>8. CopiesAccounted'
    <2> SUFFICES ASSUME NEW e \in Ids, NEW q \in Queues
                 PROVE  CopiesAccounted!(e, q)'
      BY DEF CopiesAccounted
    <2>0. /\ copies[e][q] \in Nat /\ copies'[e][q] \in Nat /\ attempts[e] \in Nat /\ faults \in Nat
          /\ CopiesAccounted!(e, q)
      BY <1>2 DEF CopiesAccounted, TypeOK
    <2>1. CASE InFlight(e)
      BY <2>0, <2>1, <1>1, <1>2
    <2>2. CASE ~InFlight(e)
      <3>1. ~InFlight(e)'
        BY <2>2, <1>7
      <3> QED
        BY <2>0, <2>2, <3>1, <1>1, <1>2
    <2> QED
      BY <2>1, <2>2
  <1> QED
    BY <1>3, <1>4, <1>5, <1>6, <1>8

(* Every step preserves the types and the inductive invariant. *)
LEMMA NextRelay == TypeOK /\ RelayInv /\ [Next]_vars => TypeOK' /\ RelayInv'
  <1> SUFFICES ASSUME TypeOK, RelayInv, [Next]_vars PROVE TypeOK' /\ RelayInv'
    OBVIOUS
  <1>1. CASE \E e \in Ids : Enqueue(e) \/ RollbackFact(e)
    BY <1>1, EnqueueStep
  <1>2. CASE \E e \in Ids : CommitFact(e)
    BY <1>2, CommitFactStep
  <1>3. CASE (\E e \in Ids : BackoffElapsed(e)) \/ (\E q \in Queues : Bind(q))
    BY <1>3, EnvironmentStep
  <1>4. ASSUME NEW r \in Relays, RelayStep(r) PROVE TypeOK' /\ RelayInv'
    BY <1>4, ConnectStep, ClaimStep, PublishStep, CommitBatchStep, FailureStep DEF RelayStep
  <1>5. CASE UNCHANGED vars
    BY <1>5 DEF vars, rows, relay, broker, TypeOK, RelayInv, ClaimsExclusive, BatchShape,
                MarkedIsDelivered, SubscribersStayBound, AttemptsLeft, CopiesAccounted, InFlight
  <1> QED
    BY <1>1, <1>2, <1>3, <1>4, <1>5 DEF Next

(* The variables of the relay keep their types in every behaviour. *)
THEOREM RelayTypes == Spec => []TypeOK
  <1>1. Spec => [](TypeOK /\ RelayInv)
    BY InitRelay, NextRelay, PTL DEF Spec
  <1> QED
    BY <1>1, PTL

(* The inductive invariant of the relay: replicas never share a row, a     *)
(* published mark means delivered, copies are accounted for.               *)
THEOREM RelaySafe == Spec => []RelayInv
  <1>1. Spec => [](TypeOK /\ RelayInv)
    BY InitRelay, NextRelay, PTL DEF Spec
  <1> QED
    BY <1>1, PTL

(* However many replicas drain the outbox, a queue receives an event again *)
(* only after a nack or a rolled-back batch.                               *)
THEOREM NoDuplicatesOfItsOwn == Spec => []NoSpuriousDuplicates
  <1>1. TypeOK /\ RelayInv => NoSpuriousDuplicates
    <2> SUFFICES ASSUME TypeOK, RelayInv, NEW e \in Ids, NEW q \in Queues
                 PROVE  copies[e][q] <= 1 + attempts[e] + faults
      BY DEF NoSpuriousDuplicates
    <2>1. /\ copies[e][q] \in Nat /\ attempts[e] \in Nat /\ faults \in Nat
          /\ CopiesAccounted!(e, q)
      BY DEF TypeOK, RelayInv, CopiesAccounted
    <2>2. ~(status[e] = "published" /\ InFlight(e))
      BY DEF RelayInv, BatchShape, InFlight
    <2> QED
      BY <2>1, <2>2
  <1> QED
    BY <1>1, RelayTypes, RelaySafe, PTL

-----------------------------------------------------------------------------
(* The refinement.  The abstract variables as state functions of the relay. *)
AbsOutcome == [e \in Ids |-> OutcomeOf(status[e])]
AbsGot == [e \in Ids |-> {q \in Queues : copies[e][q] > 0}]

(* The refinement mapping, written out: the abstract variables as the row  *)
(* statuses and queue contents of the relay.                               *)
LEMMA AbstractVariables ==
    /\ Delivery!AbsInit <=> /\ AbsOutcome = [e \in Ids |-> "absent"]
                            /\ subscribed = [e \in Ids |-> {}]
                            /\ AbsGot = [e \in Ids |-> {}]
    /\ Delivery!absVars = <<AbsOutcome, subscribed, AbsGot>>
  BY DEF Delivery!AbsInit, Delivery!absVars, AbsOutcome, AbsGot

(* A commit of ingest is an Owe step. *)
LEMMA CommitFactOwes ==
    ASSUME TypeOK, NEW e \in Ids, CommitFact(e)
    PROVE  Delivery!Owe(e, bound)
  <1>1. /\ status[e] = "uncommitted" /\ status' = [status EXCEPT ![e] = "pending"]
        /\ subscribed' = [subscribed EXCEPT ![e] = bound] /\ copies' = copies
    BY DEF CommitFact
  <1>2. AbsOutcome[e] = "absent"
    BY <1>1 DEF AbsOutcome, OutcomeOf
  <1>3. AbsOutcome' = [AbsOutcome EXCEPT ![e] = "owed"]
    BY <1>1 DEF AbsOutcome, OutcomeOf, TypeOK
  <1>4. AbsGot' = AbsGot
    BY <1>1 DEF AbsGot
  <1> QED
    BY <1>1, <1>2, <1>3, <1>4 DEF Delivery!Owe, AbsOutcome, AbsGot

(* A copy accepted by the broker is a Send step. *)
LEMMA AcceptSends ==
    ASSUME TypeOK, NEW e \in Ids, status[e] = "pending", NEW Q \in SUBSET Queues,
           Accept(e, Q), UNCHANGED <<status, subscribed>>
    PROVE  Delivery!Send(e, Q)
  <1>1. AbsOutcome[e] = "owed" /\ AbsOutcome' = AbsOutcome
    BY DEF AbsOutcome, OutcomeOf
  <1>2. AbsGot' = [AbsGot EXCEPT ![e] = @ \cup Q]
    <2>1. /\ \A d \in Ids \ {e} : copies'[d] = copies[d]
          /\ \A q \in Queues : copies[e][q] \in Nat
          /\ \A q \in Q : copies'[e][q] = copies[e][q] + 1
          /\ \A q \in Queues \ Q : copies'[e][q] = copies[e][q]
      BY DEF Accept, TypeOK
    <2>2. {q \in Queues : copies'[e][q] > 0} = {q \in Queues : copies[e][q] > 0} \cup Q
      BY <2>1
    <2>3. \A d \in Ids \ {e} : AbsGot'[d] = AbsGot[d]
      BY <2>1 DEF AbsGot
    <2>4. AbsGot'[e] = AbsGot[e] \cup Q
      BY <2>2 DEF AbsGot
    <2>5. /\ DOMAIN AbsGot' = Ids /\ DOMAIN AbsGot = Ids
          /\ AbsGot' = [d \in Ids |-> AbsGot'[d]]
      BY DEF AbsGot
    <2>6. AbsGot' = [d \in Ids |-> IF d = e THEN AbsGot[e] \cup Q ELSE AbsGot[d]]
      BY <2>3, <2>4, <2>5
    <2> QED
      BY <2>5, <2>6
  <1> QED
    BY <1>1, <1>2 DEF Delivery!Send, AbsOutcome, AbsGot

(* The commit of a batch settles its acked rows as delivered and parks the *)
(* rows that are out of attempts.                                          *)
LEMMA CommitBatchSettles ==
    ASSUME TypeOK, RelayInv, NEW r \in Relays, CommitBatch(r)
    PROVE  \E D, P \in SUBSET Ids : Delivery!Settle(D, P)
  <1> DEFINE D == acked[r]
             P == {e \in Nacked(r) : Parks(e)}
  <1>1. /\ status' = [e \in Ids |-> IF e \in acked[r] THEN "published"
                                ELSE IF e \in Nacked(r) /\ Parks(e) THEN "failed"
                                ELSE status[e]]
        /\ UNCHANGED <<copies, subscribed>>
    BY DEF CommitBatch, broker
  <1>2. /\ D \subseteq Ids /\ P \subseteq Ids /\ D \cap P = {}
        /\ \A e \in D \cup P : e \in Ids /\ status[e] = "pending"
    BY DEF RelayInv, BatchShape, Nacked, TypeOK
  <1>3. \A e \in D \cup P : AbsOutcome[e] = "owed"
    BY <1>2 DEF AbsOutcome, OutcomeOf
  <1>4. \A e \in D : subscribed[e] \subseteq AbsGot[e]
    BY <1>2 DEF RelayInv, MarkedIsDelivered, AbsGot, TypeOK
  <1>5. AbsOutcome' = [e \in Ids |-> IF e \in D THEN "delivered"
                                     ELSE IF e \in P THEN "parked"
                                     ELSE AbsOutcome[e]]
    BY <1>1 DEF AbsOutcome, OutcomeOf
  <1>6. AbsGot' = AbsGot
    BY <1>1 DEF AbsGot
  <1>7. Delivery!Settle(D, P)
    BY <1>1, <1>2, <1>3, <1>4, <1>5, <1>6 DEF Delivery!Settle, AbsOutcome, AbsGot
  <1> QED
    BY <1>2, <1>7

(* Steps the abstract specification does not see. *)
LEMMA HiddenSteps ==
    ASSUME UNCHANGED <<copies, subscribed>>,
           \A e \in Ids : OutcomeOf(status'[e]) = OutcomeOf(status[e])
    PROVE  UNCHANGED Delivery!absVars
  <1>1. AbsOutcome' = AbsOutcome /\ AbsGot' = AbsGot
    BY DEF AbsOutcome, AbsGot
  <1> QED
    BY <1>1, AbstractVariables DEF Delivery!absVars, AbsOutcome, AbsGot

(* Every step of the relay is a step of the abstract delivery, or a stutter. *)
LEMMA StepRefines ==
    TypeOK /\ RelayInv /\ [Next]_vars => [Delivery!AbsNext]_(Delivery!absVars)
  <1> SUFFICES ASSUME TypeOK, RelayInv, [Next]_vars
               PROVE  Delivery!AbsNext \/ UNCHANGED Delivery!absVars
    OBVIOUS
  <1>0. bound \in SUBSET Queues
    BY DEF TypeOK
  <1>1. ASSUME NEW e \in Ids, Enqueue(e) \/ RollbackFact(e)
        PROVE  UNCHANGED Delivery!absVars
    <2>1. \A d \in Ids : OutcomeOf(status'[d]) = OutcomeOf(status[d])
      BY <1>1 DEF Enqueue, RollbackFact, OutcomeOf, TypeOK
    <2> QED
      BY <1>1, <2>1, HiddenSteps DEF Enqueue, RollbackFact, broker
  <1>2. ASSUME NEW e \in Ids, CommitFact(e) PROVE Delivery!AbsNext
    BY <1>0, <1>2, CommitFactOwes DEF Delivery!AbsNext
  <1>3. ASSUME NEW e \in Ids, BackoffElapsed(e) PROVE UNCHANGED Delivery!absVars
    BY <1>3, HiddenSteps DEF BackoffElapsed, broker
  <1>4. ASSUME NEW q \in Queues, Bind(q) PROVE UNCHANGED Delivery!absVars
    BY <1>4, HiddenSteps DEF Bind, rows
  <1>5. ASSUME NEW r \in Relays, Connect(r) \/ Claim(r) \/ DbError(r) \/ Crash(r)
        PROVE  UNCHANGED Delivery!absVars
    BY <1>5, HiddenSteps DEF Connect, Claim, DbError, Crash, rows, broker
  <1>6. ASSUME NEW r \in Relays, PublishAck(r) \/ PublishNack(r) \/ LoseConnection(r)
        PROVE  Delivery!AbsNext
    <2>1. PICK e \in todo[r], Q \in SUBSET bound : Accept(e, Q)
      BY <1>6 DEF PublishAck, PublishNack, LoseConnection
    <2>2. e \in Ids /\ status[e] = "pending" /\ Q \in SUBSET Queues
      BY <1>0 DEF RelayInv, BatchShape, TypeOK
    <2>3. UNCHANGED <<status, subscribed>>
      BY <1>6 DEF PublishAck, PublishNack, LoseConnection, rows
    <2> QED
      BY <2>1, <2>2, <2>3, AcceptSends DEF Delivery!AbsNext
  <1>7. ASSUME NEW r \in Relays, CommitBatch(r) PROVE Delivery!AbsNext
    BY <1>7, CommitBatchSettles DEF Delivery!AbsNext
  <1>8. CASE UNCHANGED vars
    BY <1>8, HiddenSteps DEF vars, rows, broker
  <1> QED
    BY <1>1, <1>2, <1>3, <1>4, <1>5, <1>6, <1>7, <1>8 DEF Next, RelayStep

(* The relay implements the at-least-once promise of EventDelivery, for    *)
(* every number of replicas, queues, events and failures.                  *)
THEOREM RelayImplementsDelivery == Spec => ImplementsDelivery
  <1>1. Init => Delivery!AbsInit
    <2> SUFFICES ASSUME Init PROVE Delivery!AbsInit
      OBVIOUS
    <2>1. AbsOutcome = [e \in Ids |-> "absent"]
      BY DEF Init, AbsOutcome, OutcomeOf
    <2>2. AbsGot = [e \in Ids |-> {}]
      BY DEF Init, AbsGot
    <2> QED
      BY <2>1, <2>2, AbstractVariables DEF Init
  <1> QED
    BY <1>1, StepRefines, RelayTypes, RelaySafe, PTL
       DEF Spec, ImplementsDelivery, Delivery!AbsSpec
=============================================================================
