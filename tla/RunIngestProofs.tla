--------------------------- MODULE RunIngestProofs ---------------------------
(***************************************************************************)
(* Ingestion is safe for any number of runs, processors and backfills.     *)
(* TypeOK and IngestInv are inductive together: the type of recorded needs *)
(* DeployedOnce, and everything else needs the types.                      *)
(***************************************************************************)
EXTENDS RunIngest, TLAPS

(* Nothing has happened: the invariant holds. *)
LEMMA InitIngest == Init => TypeOK /\ IngestInv
<1> SUFFICES ASSUME Init PROVE TypeOK /\ IngestInv
  OBVIOUS
<1>1. TypeOK
  BY IngestConstants DEF Init, TypeOK, RunStatus
<1>2. CompletedIsAnnounced
  BY DEF Init, CompletedIsAnnounced
<1>3. AnnouncedIsTrue
  BY DEF Init, AnnouncedIsTrue
<1>4. DeployedOnce
  BY DEF Init, DeployedOnce
<1> QED
  BY <1>1, <1>2, <1>3, <1>4 DEF IngestInv

(* GitHub's own steps only ever complete a run, and the completed delivery *)
(* is sent by that very step.                                              *)
LEMMA GitHubStep ==
    ASSUME TypeOK, IngestInv, NEW r \in Runs,
           RunStarts(r) \/ JobFinishes(r) \/ RunCompletes(r)
    PROVE  TypeOK' /\ IngestInv'
<1>0. /\ gh' \in [Runs -> RunStatus] /\ ghJob' \in [Runs -> BOOLEAN]
      /\ delivery' \in [Messages -> {"none", "open", "processing", "settled"}]
      /\ \A s \in Runs : gh[s] = "completed" => gh'[s] = "completed"
      /\ \A m \in Messages : m.what = "completed" /\ delivery'[m] # "none"
              => gh'[m.run] = "completed" \/ delivery[m] # "none"
      /\ UNCHANGED <<facts, artifacts, writers, fetches, aborts>>
  <2>1. CASE RunStarts(r)
    BY <2>1 DEF RunStarts, Deliver, TypeOK, RunStatus, Messages
  <2>2. CASE JobFinishes(r)
    BY <2>2 DEF JobFinishes, Deliver, TypeOK, RunStatus, Messages
  <2>3. CASE RunCompletes(r)
    BY <2>3 DEF RunCompletes, Deliver, TypeOK, RunStatus, Messages
  <2> QED
    BY <2>1, <2>2, <2>3
<1>1. TypeOK'
  BY <1>0 DEF TypeOK, facts, artifacts, writers
<1>2. CompletedIsAnnounced'
  BY <1>0 DEF IngestInv, CompletedIsAnnounced, facts, artifacts, writers
<1>3. AnnouncedIsTrue'
  BY <1>0 DEF IngestInv, AnnouncedIsTrue, TypeOK, Snapshots, Messages, facts, writers
<1>4. DeployedOnce'
  BY <1>0 DEF IngestInv, DeployedOnce, facts
<1> QED
  BY <1>1, <1>2, <1>3, <1>4 DEF IngestInv

(* A writer that takes a snapshot takes a true one. *)
LEMMA LoadStep ==
    ASSUME TypeOK, IngestInv, NEW w \in Writers,
           \/ \E m \in Messages : TakeDelivery(w, m)
           \/ \E r \in Runs : FetchPage(w, r)
    PROVE  TypeOK' /\ IngestInv'
<1>0. /\ pc' = [pc EXCEPT ![w] = "loaded"]
      /\ \E s \in Snapshots : /\ load' = [load EXCEPT ![w] = s]
                              /\ s.what = "completed" => gh[s.run] = "completed"
      /\ delivery' \in [Messages -> {"none", "open", "processing", "settled"}]
      /\ \A m \in Messages : delivery[m] = "none" => delivery'[m] = "none"
      /\ fetches' \in 0..MaxFetches
      /\ UNCHANGED <<github, facts, artifacts, prev, aborts>>
  <2>1. CASE \E m \in Messages : TakeDelivery(w, m)
    <3> PICK m \in Messages : TakeDelivery(w, m)
      BY <2>1
    <3> DEFINE s == [run |-> m.run, what |-> m.what, job |-> FALSE]
    <3>1. s \in Snapshots
      BY DEF Messages, Snapshots
    <3>2. m.what = "completed" => gh[m.run] = "completed"
      BY DEF TakeDelivery, IngestInv, AnnouncedIsTrue
    <3> QED
      BY <3>1, <3>2 DEF TakeDelivery, Loads, TypeOK
  <2>2. CASE \E r \in Runs : FetchPage(w, r)
    <3> PICK r \in Runs : FetchPage(w, r)
      BY <2>2
    <3> DEFINE s == [run |-> r, what |-> gh[r], job |-> ghJob[r]]
    <3>1. s \in Snapshots
      BY DEF FetchPage, TypeOK, RunStatus, Snapshots
    <3>2. fetches' \in 0..MaxFetches
      BY IngestConstants DEF FetchPage, TypeOK
    <3> QED
      BY <3>1, <3>2 DEF FetchPage, Loads, TypeOK
  <2> QED
    BY <2>1, <2>2
<1> PICK s \in Snapshots : /\ load' = [load EXCEPT ![w] = s]
                           /\ s.what = "completed" => gh[s.run] = "completed"
  BY <1>0
<1>1. TypeOK'
  BY <1>0 DEF TypeOK, github, facts, artifacts
<1>2. CompletedIsAnnounced'
  BY <1>0 DEF IngestInv, CompletedIsAnnounced, TypeOK, facts, artifacts
<1>3. AnnouncedIsTrue'
  BY <1>0 DEF IngestInv, AnnouncedIsTrue, TypeOK, facts, github
<1>4. DeployedOnce'
  BY <1>0 DEF IngestInv, DeployedOnce, facts
<1> QED
  BY <1>1, <1>2, <1>3, <1>4 DEF IngestInv

(* The unlocked read: what it saw as completed has been announced. *)
LEMMA ReadStep ==
    ASSUME TypeOK, IngestInv, NEW w \in Writers, ReadPrevious(w)
    PROVE  TypeOK' /\ IngestInv'
<1>0. /\ load[w] \in Snapshots /\ load[w].run \in Runs /\ load[w].what # "job"
      /\ pc' = [pc EXCEPT ![w] = "read"]
      /\ prev' = [prev EXCEPT ![w] = row[load[w].run]]
      /\ UNCHANGED <<github, delivery, facts, artifacts, load, fetches, aborts>>
  BY DEF ReadPrevious, TypeOK, Snapshots
<1>1. TypeOK'
  BY <1>0 DEF TypeOK, github, facts, artifacts
<1>2. CompletedIsAnnounced'
  BY <1>0 DEF IngestInv, CompletedIsAnnounced, TypeOK, facts, artifacts
<1>3. AnnouncedIsTrue'
  <2>1. \A v \in Writers : pc'[v] # "idle" /\ load'[v].what = "completed"
            => gh'[load'[v].run] = "completed"
    BY <1>0 DEF IngestInv, AnnouncedIsTrue, TypeOK, github, ReadPrevious
  <2> QED
    BY <1>0, <2>1 DEF IngestInv, AnnouncedIsTrue, facts, github
<1>4. DeployedOnce'
  BY <1>0 DEF IngestInv, DeployedOnce, facts
<1> QED
  BY <1>1, <1>2, <1>3, <1>4 DEF IngestInv

(* A writer that holds a snapshot releases it, marking its delivery. *)
LEMMA FinishStep ==
    ASSUME TypeOK, NEW w \in Writers, pc[w] # "idle", Finish(w),
           NEW st \in {"open", "settled"}, MarkDelivery(w, st)
    PROVE  /\ pc' = [pc EXCEPT ![w] = "idle"]
           /\ load' = [load EXCEPT ![w] = NoSnapshot]
           /\ prev' = [prev EXCEPT ![w] = "absent"]
           /\ delivery' \in [Messages -> {"none", "open", "processing", "settled"}]
           /\ \A m \in Messages : delivery'[m] = delivery[m] \/ m = Held(w)
           /\ load[w] \in Snapshots /\ load[w].run \in Runs /\ Held(w) \in Messages
<1>1. load[w] \in Snapshots /\ load[w].run \in Runs /\ Held(w) \in Messages
  BY DEF TypeOK, Snapshots, Messages, Held
<1>2. delivery' \in [Messages -> {"none", "open", "processing", "settled"}]
  BY DEF TypeOK, MarkDelivery
<1>3. \A m \in Messages : delivery'[m] = delivery[m] \/ m = Held(w)
  BY DEF TypeOK, MarkDelivery
<1> QED
  BY <1>1, <1>2, <1>3 DEF Finish

(* The heart of the argument: the row turns completed only in a step that  *)
(* announces the run or finds it announced, and a deployment is inserted   *)
(* and announced by the first such step alone.                             *)
LEMMA CommitRunStep ==
    ASSUME TypeOK, IngestInv, NEW w \in Writers, CommitRun(w)
    PROVE  TypeOK' /\ IngestInv'
<1> DEFINE r == load[w].run
<1>0. /\ pc[w] = "read" /\ r \in Runs /\ load[w].what \in {"in_progress", "completed"}
      /\ load[w].job \in BOOLEAN
  BY DEF CommitRun, TypeOK, Snapshots
<1>1. /\ pc' = [pc EXCEPT ![w] = "idle"]
      /\ load' = [load EXCEPT ![w] = NoSnapshot]
      /\ prev' = [prev EXCEPT ![w] = "absent"]
      /\ delivery' \in [Messages -> {"none", "open", "processing", "settled"}]
      /\ \A m \in Messages : delivery'[m] = delivery[m] \/ m = Held(w)
  BY <1>0, FinishStep DEF CommitRun
<1>2. /\ row' = [row EXCEPT ![r] = load[w].what]
      /\ completions' \in [Runs -> Nat]
      /\ \A s \in Runs : completions'[s] >= completions[s]
      /\ \A s \in Runs : s # r => completions'[s] = completions[s]
      /\ NewlyCompleted(w) => completions'[r] > 0
      /\ ~NewlyCompleted(w) => completions'[r] = completions[r]
      /\ UNCHANGED <<github, logs, tests, fetches, aborts>>
  BY <1>0 DEF CommitRun, TypeOK
<1>3. load[w].what = "completed" => completions'[r] > 0 /\ gh[r] = "completed"
  <2>1. load[w].what = "completed" /\ prev[w] = "completed" => completions[r] > 0
    BY <1>0 DEF IngestInv, CompletedIsAnnounced
  <2>2. load[w].what = "completed" => gh[r] = "completed"
    BY <1>0 DEF IngestInv, AnnouncedIsTrue
  <2> QED
    BY <1>0, <1>2, <2>1, <2>2 DEF NewlyCompleted, TypeOK
<1>4. NewlyCompleted(w) => gh[r] = "completed"
  BY <1>3 DEF NewlyCompleted
<1>5. DeployedOnce' /\ recorded' \in [Runs -> 0..1] /\ deployed' \in [Runs -> BOOLEAN]
  <2>1. /\ \A s \in Runs : s # r => deployed'[s] = deployed[s] /\ recorded'[s] = recorded[s]
        /\ deployed'[r] = (deployed[r] \/ (NewlyCompleted(w) /\ r \in Deployable))
        /\ recorded'[r] = IF NewlyCompleted(w) /\ r \in Deployable /\ ~deployed[r]
                          THEN recorded[r] + 1 ELSE recorded[r]
    BY <1>0 DEF CommitRun, InferDeployment, TypeOK
  <2>2. deployed' \in [Runs -> BOOLEAN]
    BY <1>0 DEF CommitRun, InferDeployment, TypeOK
  <2>3. /\ recorded[r] = (IF deployed[r] THEN 1 ELSE 0)
        /\ deployed[r] <=> r \in Deployable /\ completions[r] > 0
    BY <1>0 DEF IngestInv, DeployedOnce
  <2>4. deployed'[r] <=> r \in Deployable /\ completions'[r] > 0
    <3>1. CASE NewlyCompleted(w)
      BY <1>0, <1>2, <2>1, <2>3, <3>1 DEF TypeOK
    <3>2. CASE ~NewlyCompleted(w)
      BY <1>0, <1>2, <2>1, <2>3, <3>2 DEF TypeOK
    <3> QED
      BY <3>1, <3>2
  <2>5. recorded'[r] = (IF deployed'[r] THEN 1 ELSE 0)
    <3>1. CASE NewlyCompleted(w) /\ r \in Deployable /\ ~deployed[r]
      <4>1. deployed'[r] /\ recorded'[r] = recorded[r] + 1 /\ recorded[r] = 0
        BY <2>1, <2>3, <3>1
      <4> QED
        BY <4>1
    <3>2. CASE ~(NewlyCompleted(w) /\ r \in Deployable /\ ~deployed[r])
      <4>1. recorded'[r] = recorded[r]
        BY <2>1, <3>2
      <4>2. deployed'[r] <=> deployed[r]
        BY <2>1, <3>2
      <4> QED
        BY <2>3, <4>1, <4>2
    <3> QED
      BY <3>1, <3>2
  <2>6. DeployedOnce'
    BY <1>2, <2>1, <2>4, <2>5 DEF IngestInv, DeployedOnce
  <2>7. recorded' \in [Runs -> 0..1]
    <3>1. \E f : recorded' = [recorded EXCEPT ![r] = f]
      BY DEF CommitRun, InferDeployment
    <3> QED
      BY <1>0, <2>5, <3>1 DEF TypeOK
  <2> QED
    BY <2>2, <2>6, <2>7
<1>6. captures' \subseteq captures \cup {c \in {<<r, "logs">>} : load[w].what = "completed"}
  BY DEF CommitRun
<1>7. TypeOK'
  <2>1. row' \in [Runs -> RunStatus] /\ jobRow' \in [Runs -> BOOLEAN]
    BY <1>0 DEF CommitRun, TypeOK, RunStatus
  <2>2. captures' \in SUBSET (Runs \X {"logs", "tests"})
    BY <1>0, <1>6 DEF TypeOK
  <2>3. prev' \in [Writers -> RunStatus]
    BY <1>1 DEF TypeOK, RunStatus
  <2> QED
    BY <1>1, <1>2, <1>5, <2>1, <2>2, <2>3 DEF TypeOK, github
<1>8. CompletedIsAnnounced'
  <2>1. \A s \in Runs : row'[s] = "completed" => completions'[s] > 0
    BY <1>0, <1>2, <1>3 DEF IngestInv, CompletedIsAnnounced, TypeOK
  <2>2. \A v \in Writers : pc'[v] = "read" /\ prev'[v] = "completed"
            => completions'[load'[v].run] > 0
    BY <1>0, <1>1, <1>2 DEF IngestInv, CompletedIsAnnounced, TypeOK, Snapshots
  <2>3. \A s \in Runs : logs'[s] \/ tests'[s] \/ (\E c \in captures' : c[1] = s)
            => completions'[s] > 0
    BY <1>0, <1>2, <1>3, <1>6 DEF IngestInv, CompletedIsAnnounced, TypeOK
  <2> QED
    BY <2>1, <2>2, <2>3 DEF CompletedIsAnnounced
<1>9. AnnouncedIsTrue'
  <2>1. \A s \in Runs : completions'[s] > 0 => gh'[s] = "completed"
    BY <1>0, <1>2, <1>4 DEF IngestInv, AnnouncedIsTrue, github
  <2>2. \A m \in Messages : m.what = "completed" /\ delivery'[m] # "none"
            => gh'[m.run] = "completed"
    BY <1>0, <1>1, <1>2, <1>3 DEF IngestInv, AnnouncedIsTrue, github, Held
  <2>3. \A v \in Writers : pc'[v] # "idle" /\ load'[v].what = "completed"
            => gh'[load'[v].run] = "completed"
    BY <1>1, <1>2 DEF IngestInv, AnnouncedIsTrue, TypeOK, github
  <2> QED
    BY <2>1, <2>2, <2>3 DEF AnnouncedIsTrue
<1> QED
  BY <1>5, <1>7, <1>8, <1>9 DEF IngestInv

(* A job, an aborted transaction and a restarted replica change neither    *)
(* the run's row nor any event.                                            *)
LEMMA OtherWriterStep ==
    ASSUME TypeOK, IngestInv, NEW w \in Writers, CommitJob(w) \/ Abort(w) \/ Restart(w)
    PROVE  TypeOK' /\ IngestInv'
<1>0. /\ pc' = [pc EXCEPT ![w] = "idle"]
      /\ load' = [load EXCEPT ![w] = NoSnapshot]
      /\ prev' = [prev EXCEPT ![w] = "absent"]
      /\ delivery' \in [Messages -> {"none", "open", "processing", "settled"}]
      /\ \A m \in Messages : \/ delivery[m] # "none" \/ delivery'[m] = "none"
                             \/ m = Held(w) /\ pc[w] # "idle"
      /\ jobRow' \in [Runs -> BOOLEAN]
      /\ aborts' \in 0..MaxAborts
      /\ UNCHANGED <<github, row, completions, deployed, recorded, artifacts, fetches>>
  <2>1. CASE CommitJob(w)
    <3>1. pc[w] # "idle" /\ MarkDelivery(w, "settled") /\ Finish(w)
      BY <2>1 DEF CommitJob, TypeOK
    <3> QED
      BY <2>1, <3>1, FinishStep DEF CommitJob, TypeOK
  <2>2. CASE Abort(w)
    <3>1. pc[w] # "idle" /\ MarkDelivery(w, "open") /\ Finish(w)
      BY <2>2 DEF Abort
    <3>2. aborts' \in 0..MaxAborts
      BY <2>2, IngestConstants DEF Abort, TypeOK
    <3> QED
      BY <2>2, <3>1, <3>2, FinishStep DEF Abort, TypeOK, facts
  <2>3. CASE Restart(w)
    <3>1. aborts' \in 0..MaxAborts
      BY <2>3, IngestConstants DEF Restart, TypeOK
    <3> QED
      BY <2>3, <3>1 DEF Restart, Finish, TypeOK, facts
  <2> QED
    BY <2>1, <2>2, <2>3
<1>1. TypeOK'
  <2>1. prev' \in [Writers -> RunStatus]
    BY <1>0 DEF TypeOK, RunStatus
  <2> QED
    BY <1>0, <2>1 DEF TypeOK, github, artifacts
<1>2. CompletedIsAnnounced'
  BY <1>0 DEF IngestInv, CompletedIsAnnounced, TypeOK, artifacts
<1>3. AnnouncedIsTrue'
  <2>1. \A m \in Messages : m.what = "completed" /\ delivery'[m] # "none"
            => gh'[m.run] = "completed"
    BY <1>0 DEF IngestInv, AnnouncedIsTrue, github, Held
  <2> QED
    BY <1>0, <2>1 DEF IngestInv, AnnouncedIsTrue, TypeOK, github
<1>4. DeployedOnce'
  BY <1>0 DEF IngestInv, DeployedOnce
<1> QED
  BY <1>1, <1>2, <1>3, <1>4 DEF IngestInv

(* A capture stores logs and tests of a run that has been announced. *)
LEMMA CaptureStep ==
    ASSUME TypeOK, IngestInv, NEW r \in Runs, CaptureLogs(r) \/ CaptureTests(r)
    PROVE  TypeOK' /\ IngestInv'
<1>0. /\ \E c \in captures : c[1] = r
      /\ logs' \in {logs, [logs EXCEPT ![r] = TRUE]}
      /\ tests' \in {tests, [tests EXCEPT ![r] = TRUE]}
      /\ captures' \subseteq captures \cup {<<r, "tests">>}
      /\ UNCHANGED <<github, delivery, facts, writers, fetches, aborts>>
  BY DEF CaptureLogs, CaptureTests
<1>1. TypeOK'
  <2>1. logs' \in [Runs -> BOOLEAN] /\ tests' \in [Runs -> BOOLEAN]
    BY <1>0 DEF TypeOK
  <2>2. captures' \in SUBSET (Runs \X {"logs", "tests"})
    BY <1>0 DEF TypeOK
  <2> QED
    BY <1>0, <2>1, <2>2 DEF TypeOK, github, facts, writers
<1>2. CompletedIsAnnounced'
  <2>1. completions[r] > 0
    BY <1>0 DEF IngestInv, CompletedIsAnnounced
  <2> QED
    BY <1>0, <2>1 DEF IngestInv, CompletedIsAnnounced, TypeOK, facts, writers
<1>3. AnnouncedIsTrue'
  BY <1>0 DEF IngestInv, AnnouncedIsTrue, github, facts, writers
<1>4. DeployedOnce'
  BY <1>0 DEF IngestInv, DeployedOnce, facts
<1> QED
  BY <1>1, <1>2, <1>3, <1>4 DEF IngestInv

(* Every step keeps the invariant. *)
LEMMA NextIngest == TypeOK /\ IngestInv /\ [Next]_vars => TypeOK' /\ IngestInv'
<1> SUFFICES ASSUME TypeOK, IngestInv, [Next]_vars
             PROVE  TypeOK' /\ IngestInv'
  OBVIOUS
<1>1. CASE \E r \in Runs : RunStarts(r) \/ JobFinishes(r) \/ RunCompletes(r)
  BY <1>1, GitHubStep
<1>2. CASE \E r \in Runs : CaptureLogs(r) \/ CaptureTests(r)
  BY <1>2, CaptureStep
<1>3. CASE \E w \in Writers : WriterStep(w)
  <2> PICK w \in Writers : WriterStep(w)
    BY <1>3
  <2>1. CASE \/ \E m \in Messages : TakeDelivery(w, m)
             \/ \E r \in Runs : FetchPage(w, r)
    BY <2>1, LoadStep
  <2>2. CASE ReadPrevious(w)
    BY <2>2, ReadStep
  <2>3. CASE CommitRun(w)
    BY <2>3, CommitRunStep
  <2>4. CASE CommitJob(w) \/ Abort(w) \/ Restart(w)
    BY <2>4, OtherWriterStep
  <2> QED
    BY <2>1, <2>2, <2>3, <2>4 DEF WriterStep
<1>4. CASE UNCHANGED vars
  BY <1>4 DEF vars, github, facts, artifacts, writers, TypeOK, IngestInv,
      CompletedIsAnnounced, AnnouncedIsTrue, DeployedOnce
<1> QED
  BY <1>1, <1>2, <1>3, <1>4 DEF Next

(* Every variable keeps its type; in particular no run is recorded as a    *)
(* deployment more than once.                                              *)
THEOREM IngestTypes == Spec => []TypeOK
<1>1. TypeOK /\ IngestInv => TypeOK
  OBVIOUS
<1> QED
  BY <1>1, InitIngest, NextIngest, PTL DEF Spec

(* Whatever the interleaving of processors and backfills on the unlocked   *)
(* read, a completed row always has its workflow_run.completed event.      *)
THEOREM CompletionsAnnounced == Spec => []CompletedIsAnnounced
<1>1. IngestInv => CompletedIsAnnounced
  BY DEF IngestInv
<1> QED
  BY <1>1, InitIngest, NextIngest, PTL DEF Spec

(* No event announces a completion that GitHub has not reported. *)
THEOREM AnnouncementsTrue == Spec => []AnnouncedIsTrue
<1>1. IngestInv => AnnouncedIsTrue
  BY DEF IngestInv
<1> QED
  BY <1>1, InitIngest, NextIngest, PTL DEF Spec

(* Replays and races never infer a second deployment for a run. *)
THEOREM DeploymentsUnique == Spec => []DeployedOnce
<1>1. IngestInv => DeployedOnce
  BY DEF IngestInv
<1> QED
  BY <1>1, InitIngest, NextIngest, PTL DEF Spec
=============================================================================
