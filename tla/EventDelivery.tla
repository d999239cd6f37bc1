---------------------------- MODULE EventDelivery ----------------------------
(***************************************************************************)
(* What the transactional outbox promises to the rest of BuildLens, with   *)
(* no word about relays, transactions, locks or brokers: a fact that has   *)
(* committed is owed to the queues that were subscribed at that moment; an *)
(* owed event may be sent any number of times; it is settled as delivered  *)
(* only once every queue it was promised to holds it, or else it is parked *)
(* as evidence.  A settled event is never sent again and never forgotten.  *)
(***************************************************************************)
CONSTANTS Ids,      \* identities of events (the outbox primary key)
          Queues    \* the consumers' durable queues

VARIABLES outcome,  \* outcome[e]: what became of event e
          promised, \* promised[e]: queues subscribed when e was recorded
          got       \* got[e]: queues that hold at least one copy of e

absVars == <<outcome, promised, got>>

Outcomes == {"absent", "owed", "delivered", "parked"}

AbsTypeOK ==
    /\ outcome \in [Ids -> Outcomes]
    /\ promised \in [Ids -> SUBSET Queues]
    /\ got \in [Ids -> SUBSET Queues]

AbsInit ==
    /\ outcome = [e \in Ids |-> "absent"]
    /\ promised = [e \in Ids |-> {}]
    /\ got = [e \in Ids |-> {}]

(* The fact and its event become visible together. *)
Owe(e, Q) ==
    /\ outcome[e] = "absent"
    /\ outcome' = [outcome EXCEPT ![e] = "owed"]
    /\ promised' = [promised EXCEPT ![e] = Q]
    /\ UNCHANGED got

(* A copy reaches some queues; only what is still owed may be sent. *)
Send(e, Q) ==
    /\ outcome[e] = "owed"
    /\ got' = [got EXCEPT ![e] = @ \cup Q]
    /\ UNCHANGED <<outcome, promised>>

(* Several events are settled at once: D delivered, P parked. *)
Settle(D, P) ==
    /\ D \cap P = {}
    /\ \A e \in D \cup P : outcome[e] = "owed"
    /\ \A e \in D : promised[e] \subseteq got[e]
    /\ outcome' = [e \in Ids |-> IF e \in D THEN "delivered"
                                 ELSE IF e \in P THEN "parked"
                                 ELSE outcome[e]]
    /\ UNCHANGED <<promised, got>>

AbsNext ==
    \/ \E e \in Ids, Q \in SUBSET Queues : Owe(e, Q) \/ Send(e, Q)
    \/ \E D, P \in SUBSET Ids : Settle(D, P)

AbsSpec == AbsInit /\ [][AbsNext]_absVars
=============================================================================
