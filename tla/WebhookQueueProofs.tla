-------------------------- MODULE WebhookQueueProofs --------------------------
(***************************************************************************)
(* The webhook inbox is safe for any number of deliveries, replicas and    *)
(* attempts.  The argument turns on the ticket, the attempt number a claim *)
(* was given: a restart may steal a delivery from a live processor, but    *)
(* the next claim gets a higher number, so two holders of one delivery     *)
(* never share a ticket and no ticket is spent twice.                      *)
(***************************************************************************)
EXTENDS WebhookQueue, FiniteSetTheorems, TLAPS

(* An empty inbox satisfies the invariant. *)
LEMMA InitQueue == Init => TypeOK /\ QueueInv
<1> SUFFICES ASSUME Init PROVE TypeOK /\ QueueInv
  OBVIOUS
<1>1. TypeOK
  BY QueueConstants DEF Init, TypeOK, Status
<1>2. ClaimsNumbered
  BY DEF Init, ClaimsNumbered, Busy
<1>3. EffectsBounded
  BY DEF Init, EffectsBounded
<1>4. ProcessedIsApplied
  BY DEF Init, ProcessedIsApplied
<1> QED
  BY <1>1, <1>2, <1>3, <1>4 DEF QueueInv

(* receive makes a row that no processor knows of. *)
LEMMA ReceiveStep ==
    ASSUME TypeOK, QueueInv, NEW d \in Deliveries, NEW ok \in BOOLEAN, Receive(d, ok)
    PROVE  TypeOK' /\ QueueInv'
<1>0. 1 + Cardinality({c \in Deliveries : status[c] # "none"}) \in Nat
  <2>1. IsFiniteSet({c \in Deliveries : status[c] # "none"})
    BY QueueConstants, FS_Subset
  <2> QED
    BY <2>1, FS_CardinalityType
<1>1. TypeOK'
  BY <1>0 DEF Receive, processor, TypeOK, Status
<1>2. ClaimsNumbered'
  BY DEF Receive, processor, QueueInv, ClaimsNumbered, Busy
<1>3. EffectsBounded'
  BY DEF Receive, processor, QueueInv, EffectsBounded
<1>4. ProcessedIsApplied'
  BY DEF Receive, processor, QueueInv, ProcessedIsApplied, Busy
<1> QED
  BY <1>1, <1>2, <1>3, <1>4 DEF QueueInv

(* Switching tracking touches no delivery. *)
LEMMA SwitchStep ==
    ASSUME TypeOK, QueueInv, EnableTracking \/ DisableTracking
    PROVE  TypeOK' /\ QueueInv'
<1>0. tracked' \in BOOLEAN
  BY DEF EnableTracking, DisableTracking
<1>1. TypeOK'
  BY <1>0, QueueConstants DEF EnableTracking, DisableTracking, row, processor, TypeOK
<1>2. ClaimsNumbered'
  BY DEF EnableTracking, DisableTracking, row, processor, QueueInv, ClaimsNumbered, Busy
<1>3. EffectsBounded'
  BY DEF EnableTracking, DisableTracking, row, processor, QueueInv, EffectsBounded
<1>4. ProcessedIsApplied'
  BY DEF EnableTracking, DisableTracking, row, processor, QueueInv, ProcessedIsApplied, Busy
<1> QED
  BY <1>1, <1>2, <1>3, <1>4 DEF QueueInv

(* Recovery: after it nothing is in processing, whoever still holds it. *)
LEMMA StartStep ==
    ASSUME TypeOK, QueueInv, NEW p \in Processors, Start(p)
    PROVE  TypeOK' /\ QueueInv'
<1>1. TypeOK'
  BY DEF Start, TypeOK, Status
<1>2. ClaimsNumbered'
  BY DEF Start, QueueInv, ClaimsNumbered, Busy
<1>3. EffectsBounded'
  BY DEF Start, QueueInv, EffectsBounded
<1>4. ProcessedIsApplied'
  BY DEF Start, QueueInv, ProcessedIsApplied
<1> QED
  BY <1>1, <1>2, <1>3, <1>4 DEF QueueInv

(* A failed recovery: what p held before it died is stranded. *)
LEMMA StartUnrecoveredStep ==
    ASSUME TypeOK, QueueInv, NEW p \in Processors, StartUnrecovered(p)
    PROVE  TypeOK' /\ QueueInv'
<1>1. TypeOK'
  BY QueueConstants DEF StartUnrecovered, row, TypeOK
<1>2. ClaimsNumbered'
  BY DEF StartUnrecovered, row, QueueInv, ClaimsNumbered, Busy
<1>3. EffectsBounded'
  BY DEF StartUnrecovered, row, QueueInv, EffectsBounded
<1>4. ProcessedIsApplied'
  BY DEF StartUnrecovered, row, QueueInv, ProcessedIsApplied, Busy
<1> QED
  BY <1>1, <1>2, <1>3, <1>4 DEF QueueInv

(* A claim gets a ticket above every ticket given for that delivery. *)
LEMMA ClaimStep ==
    ASSUME TypeOK, QueueInv, NEW p \in Processors, NEW d \in Deliveries, Claim(p, d)
    PROVE  TypeOK' /\ QueueInv'
<1>1. TypeOK'
  BY QueueConstants DEF Claim, Claimable, TypeOK, Status
<1>2. ClaimsNumbered'
  BY DEF Claim, TypeOK, QueueInv, ClaimsNumbered, Busy
<1>3. EffectsBounded'
  BY DEF Claim, Claimable, TypeOK, QueueInv, EffectsBounded
<1>4. ProcessedIsApplied'
  BY DEF Claim, TypeOK, QueueInv, ProcessedIsApplied, Busy
<1> QED
  BY <1>1, <1>2, <1>3, <1>4 DEF QueueInv

(* Opening the transaction changes no row. *)
LEMMA FetchStep ==
    ASSUME TypeOK, QueueInv, NEW p \in Processors, FetchContext(p)
    PROVE  TypeOK' /\ QueueInv'
<1>1. TypeOK'
  BY DEF FetchContext, row, TypeOK
<1>2. ClaimsNumbered'
  BY DEF FetchContext, row, QueueInv, ClaimsNumbered, Busy
<1>3. EffectsBounded'
  BY DEF FetchContext, row, QueueInv, EffectsBounded
<1>4. ProcessedIsApplied'
  BY DEF FetchContext, row, QueueInv, ProcessedIsApplied, Busy
<1> QED
  BY <1>1, <1>2, <1>3, <1>4 DEF QueueInv

(* The effect is recorded under a ticket nobody else holds. *)
LEMMA CommitStep ==
    ASSUME TypeOK, QueueInv, NEW p \in Processors, Commit(p)
    PROVE  TypeOK' /\ QueueInv'
<1>0. /\ work[p] \in Deliveries
      /\ ticket[p] \in 1..attempts[work[p]] /\ ticket[p] \in 1..MAX_ATTEMPTS
      /\ \A q \in Processors : Busy(q) /\ q # p /\ work[q] = work[p] => ticket[q] # ticket[p]
  BY DEF Commit, TypeOK, QueueInv, ClaimsNumbered, Busy
<1>1. TypeOK'
  BY <1>0 DEF Commit, MarkRow, TypeOK, Status
<1>2. ClaimsNumbered'
  BY DEF Commit, QueueInv, ClaimsNumbered, Busy
<1>3. EffectsBounded'
  <2>1. CASE UNCHANGED effects
    BY <2>1 DEF Commit, MarkRow, TypeOK, QueueInv, EffectsBounded
  <2>2. CASE effects' = [effects EXCEPT ![work[p]] = @ \cup {ticket[p]}]
    BY <1>0, <2>2 DEF Commit, MarkRow, TypeOK, QueueInv, EffectsBounded, Busy
  <2> QED
    BY <2>1, <2>2 DEF Commit
<1>4. ProcessedIsApplied'
  BY DEF Commit, MarkRow, TypeOK, QueueInv, ProcessedIsApplied, Busy
<1> QED
  BY <1>1, <1>2, <1>3, <1>4 DEF QueueInv

(* The same for installation events, whose mark is still to come. *)
LEMMA LifecycleStep ==
    ASSUME TypeOK, QueueInv, NEW p \in Processors, ApplyLifecycle(p)
    PROVE  TypeOK' /\ QueueInv'
<1>0. /\ work[p] \in Deliveries
      /\ ticket[p] \in 1..attempts[work[p]] /\ ticket[p] \in 1..MAX_ATTEMPTS
      /\ \A q \in Processors : Busy(q) /\ q # p /\ work[q] = work[p] => ticket[q] # ticket[p]
  BY DEF ApplyLifecycle, TypeOK, QueueInv, ClaimsNumbered, Busy
<1>1. TypeOK'
  BY <1>0 DEF ApplyLifecycle, row, TypeOK
<1>2. ClaimsNumbered'
  BY DEF ApplyLifecycle, row, QueueInv, ClaimsNumbered, Busy
<1>3. EffectsBounded'
  BY <1>0 DEF ApplyLifecycle, row, TypeOK, QueueInv, EffectsBounded, Busy
<1>4. ProcessedIsApplied'
  BY DEF ApplyLifecycle, row, TypeOK, QueueInv, ProcessedIsApplied, Busy
<1> QED
  BY <1>1, <1>2, <1>3, <1>4 DEF QueueInv

(* The mark follows an effect of the same claim. *)
LEMMA MarkLifecycleStep ==
    ASSUME TypeOK, QueueInv, NEW p \in Processors, MarkLifecycle(p)
    PROVE  TypeOK' /\ QueueInv'
<1>1. TypeOK'
  BY DEF MarkLifecycle, MarkRow, TypeOK, Status
<1>2. ClaimsNumbered'
  BY DEF MarkLifecycle, QueueInv, ClaimsNumbered, Busy
<1>3. EffectsBounded'
  BY DEF MarkLifecycle, MarkRow, QueueInv, EffectsBounded
<1>4. ProcessedIsApplied'
  BY DEF MarkLifecycle, MarkRow, TypeOK, QueueInv, ProcessedIsApplied, Busy
<1> QED
  BY <1>1, <1>2, <1>3, <1>4 DEF QueueInv

(* A claim is given up without an effect, as ignored or as failed. *)
LEMMA IgnoreStep ==
    ASSUME TypeOK, QueueInv, NEW p \in Processors, IgnoreUntracked(p) \/ IgnoreLifecycle(p) \/ MarkFailed(p)
    PROVE  TypeOK' /\ QueueInv'
<1>1. TypeOK'
  BY DEF IgnoreUntracked, IgnoreLifecycle, MarkFailed, MarkRow, TypeOK, Status
<1>2. ClaimsNumbered'
  BY DEF IgnoreUntracked, IgnoreLifecycle, MarkFailed, TypeOK, QueueInv, ClaimsNumbered, Busy
<1>3. EffectsBounded'
  BY DEF IgnoreUntracked, IgnoreLifecycle, MarkFailed, MarkRow, TypeOK, QueueInv, EffectsBounded
<1>4. ProcessedIsApplied'
  BY DEF IgnoreUntracked, IgnoreLifecycle, MarkFailed, MarkRow, TypeOK, QueueInv, ProcessedIsApplied, Busy
<1> QED
  BY <1>1, <1>2, <1>3, <1>4 DEF QueueInv

(* Errors and crashes leave the rows alone. *)
LEMMA FaultStep ==
    ASSUME TypeOK, QueueInv, NEW p \in Processors, ApplyError(p) \/ MarkFailedError(p) \/ Crash(p)
    PROVE  TypeOK' /\ QueueInv'
<1>1. TypeOK'
  BY QueueConstants DEF ApplyError, MarkFailedError, Crash, row, TypeOK
<1>2. ClaimsNumbered'
  BY DEF ApplyError, MarkFailedError, Crash, row, TypeOK, QueueInv, ClaimsNumbered, Busy
<1>3. EffectsBounded'
  BY DEF ApplyError, MarkFailedError, Crash, row, TypeOK, QueueInv, EffectsBounded
<1>4. ProcessedIsApplied'
  BY DEF ApplyError, MarkFailedError, Crash, row, TypeOK, QueueInv, ProcessedIsApplied, Busy
<1> QED
  BY <1>1, <1>2, <1>3, <1>4 DEF QueueInv

(* The invariant is inductive. *)
LEMMA QueueInductive == TypeOK /\ QueueInv /\ [Next]_vars => TypeOK' /\ QueueInv'
<1> SUFFICES ASSUME TypeOK, QueueInv, [Next]_vars PROVE TypeOK' /\ QueueInv'
  OBVIOUS
<1>1. CASE \E d \in Deliveries, ok \in BOOLEAN : Receive(d, ok)
  BY <1>1, ReceiveStep
<1>2. CASE EnableTracking \/ DisableTracking
  BY <1>2, SwitchStep
<1>3. ASSUME NEW p \in Processors, Start(p) \/ StartUnrecovered(p) PROVE TypeOK' /\ QueueInv'
  BY <1>3, StartStep, StartUnrecoveredStep
<1>4. ASSUME NEW p \in Processors, ProcessorStep(p) PROVE TypeOK' /\ QueueInv'
  BY <1>4, ClaimStep, FetchStep, CommitStep, LifecycleStep, MarkLifecycleStep, IgnoreStep
     DEF ProcessorStep
<1>5. ASSUME NEW p \in Processors, ApplyError(p) \/ MarkFailedError(p) \/ Crash(p)
      PROVE  TypeOK' /\ QueueInv'
  BY <1>5, FaultStep
<1>6. CASE UNCHANGED vars
  <2>1. TypeOK'
    BY <1>6 DEF vars, row, processor, TypeOK
  <2>2. ClaimsNumbered'
    BY <1>6 DEF vars, row, processor, QueueInv, ClaimsNumbered, Busy
  <2>3. EffectsBounded'
    BY <1>6 DEF vars, row, processor, QueueInv, EffectsBounded
  <2>4. ProcessedIsApplied'
    BY <1>6 DEF vars, row, processor, QueueInv, ProcessedIsApplied, Busy
  <2> QED
    BY <2>1, <2>2, <2>3, <2>4 DEF QueueInv
<1> QED
  BY <1>1, <1>2, <1>3, <1>4, <1>5, <1>6 DEF Next

(* Type correctness of the inbox; in particular the attempts of a delivery *)
(* never pass MAX_ATTEMPTS.                                                *)
THEOREM QueueTypes == Spec => []TypeOK
<1>1. TypeOK /\ QueueInv /\ [Next]_vars => (TypeOK /\ QueueInv)'
  BY QueueInductive
<1> QED
  BY InitQueue, <1>1, PTL DEF Spec

(* Two processors that hold one delivery after a restart stole it hold it  *)
(* under different attempt numbers (webhooks.rs, run_processor and         *)
(* claim_delivery).                                                        *)
THEOREM ClaimsAreNumbered == Spec => []ClaimsNumbered
<1>1. TypeOK /\ QueueInv /\ [Next]_vars => (TypeOK /\ QueueInv)'
  BY QueueInductive
<1>2. TypeOK /\ QueueInv => ClaimsNumbered
  BY DEF QueueInv
<1> QED
  BY InitQueue, <1>1, <1>2, PTL DEF Spec

(* Each claim applies its delivery at most once, so every delivery is      *)
(* applied at most MAX_ATTEMPTS times, and an unsigned one never.          *)
THEOREM EffectsAreBounded == Spec => []EffectsBounded
<1>1. TypeOK /\ QueueInv /\ [Next]_vars => (TypeOK /\ QueueInv)'
  BY QueueInductive
<1>2. TypeOK /\ QueueInv => EffectsBounded
  BY DEF QueueInv
<1> QED
  BY InitQueue, <1>1, <1>2, PTL DEF Spec

(* A delivery marked processed has had its effect, and none is left in     *)
(* processing without someone who owes it an outcome.                      *)
THEOREM ProcessedMeansApplied == Spec => []ProcessedIsApplied
<1>1. TypeOK /\ QueueInv /\ [Next]_vars => (TypeOK /\ QueueInv)'
  BY QueueInductive
<1>2. TypeOK /\ QueueInv => ProcessedIsApplied
  BY DEF QueueInv
<1> QED
  BY InitQueue, <1>1, <1>2, PTL DEF Spec
=============================================================================
