------------------------------ MODULE RunIngest ------------------------------
(***************************************************************************)
(* Turning GitHub Actions facts into rows and events:                      *)
(* gateway/src/workflow_ingest.rs, called from two kinds of writers that   *)
(* run concurrently, the webhook processor (webhooks.rs) and the history   *)
(* backfill (repository_sync.rs).                                          *)
(*                                                                         *)
(* A run stands for one (github_run_id, run_attempt) key.  A writer holds  *)
(* a snapshot of the run: a webhook carries the one GitHub took when it    *)
(* sent it, a backfill the one it fetched before it opened its transaction *)
(* (sync_workflow_runs).  ingest_workflow_run reads the previous status    *)
(* without a lock, then upserts: from the upsert to the commit the row is  *)
(* locked, so those statements are one step here, and the read is another. *)
(***************************************************************************)
EXTENDS Naturals, FiniteSets

CONSTANTS Runs,        \* (github_run_id, run_attempt) keys
          Deployable,  \* green runs that count as production deployments
          Unlisted,    \* runs whose webhooks carry no workflow object
          Processors,  \* webhook processors, one per gateway replica
          Backfills,   \* spawned sync_repository tasks
          MaxFetches,  \* bound: run pages fetched by backfills
          MaxAborts    \* bound: transactions that fail, replicas that restart

ASSUME IngestConstants ==
    /\ Deployable \subseteq Runs
    /\ Unlisted \subseteq Runs
    /\ Processors \cap Backfills = {}
    /\ MaxFetches \in Nat
    /\ MaxAborts \in Nat

Writers == Processors \cup Backfills

RunStatus == {"absent", "in_progress", "completed"}

(* What a delivery is about: the run's status, or its (only) job. *)
Messages == [run : Runs, what : {"in_progress", "completed", "job"}]

(* What a writer is about to store; job says whether the job comes along. *)
Snapshots == [run : Runs, what : {"in_progress", "completed", "job"}, job : BOOLEAN]
NoSnapshot == [run |-> CHOOSE r \in Runs : TRUE, what |-> "none", job |-> FALSE]

VARIABLES gh,          \* gh[r]: the run's status at GitHub
          ghJob,       \* ghJob[r]: GitHub has the run's job
          delivery,    \* delivery[m]: the webhook_deliveries row; "open" is
                       \* received or failed, "settled" processed or ignored
          row,         \* row[r]: workflow_runs.status
          jobRow,      \* jobRow[r]: the workflow_jobs row exists
          completions, \* completions[r]: workflow_run.completed events enqueued
          deployed,    \* deployed[r]: the inferred deployments row exists
          recorded,    \* recorded[r]: deployment.recorded events enqueued
          logs,        \* logs[r]: the build_logs row of the run exists
          tests,       \* tests[r]: the run's JUnit results are stored
          captures,    \* spawned log and test captures, <<run, stage>>
          pc,          \* pc[w]: "idle", "loaded" or "read"
          load,        \* load[w]: the snapshot writer w holds
          prev,        \* prev[w]: the previous status writer w has read
          fetches,     \* pages fetched so far
          aborts       \* transactions aborted so far

(* MaxAborts stays below MAX_ATTEMPTS (5): no delivery is given up here.   *)
github == <<gh, ghJob>>
facts == <<row, jobRow, completions, deployed, recorded>>
artifacts == <<logs, tests, captures>>
writers == <<pc, load, prev>>
vars == <<github, delivery, facts, artifacts, writers, fetches, aborts>>

TypeOK ==
    /\ gh \in [Runs -> RunStatus]
    /\ ghJob \in [Runs -> BOOLEAN]
    /\ delivery \in [Messages -> {"none", "open", "processing", "settled"}]
    /\ row \in [Runs -> RunStatus]
    /\ jobRow \in [Runs -> BOOLEAN]
    /\ completions \in [Runs -> Nat]
    /\ deployed \in [Runs -> BOOLEAN]
    /\ recorded \in [Runs -> 0..1]
    /\ logs \in [Runs -> BOOLEAN]
    /\ tests \in [Runs -> BOOLEAN]
    /\ captures \in SUBSET (Runs \X {"logs", "tests"})
    /\ pc \in [Writers -> {"idle", "loaded", "read"}]
    /\ load \in [Writers -> Snapshots \cup {NoSnapshot}]
    /\ \A w \in Writers : /\ pc[w] # "idle" => load[w] \in Snapshots
                          /\ pc[w] = "read" => load[w].what # "job"
    /\ prev \in [Writers -> RunStatus]
    /\ fetches \in 0..MaxFetches
    /\ aborts \in 0..MaxAborts

Init ==
    /\ gh = [r \in Runs |-> "absent"]
    /\ ghJob = [r \in Runs |-> FALSE]
    /\ delivery = [m \in Messages |-> "none"]
    /\ row = [r \in Runs |-> "absent"]
    /\ jobRow = [r \in Runs |-> FALSE]
    /\ completions = [r \in Runs |-> 0]
    /\ deployed = [r \in Runs |-> FALSE]
    /\ recorded = [r \in Runs |-> 0]
    /\ logs = [r \in Runs |-> FALSE]
    /\ tests = [r \in Runs |-> FALSE]
    /\ captures = {}
    /\ pc = [w \in Writers |-> "idle"]
    /\ load = [w \in Writers |-> NoSnapshot]
    /\ prev = [w \in Writers |-> "absent"]
    /\ fetches = 0
    /\ aborts = 0

-----------------------------------------------------------------------------
(* GitHub.  Each transition sends one webhook, which webhooks::receive     *)
(* stores once.  Deliveries overtake each other: any open one may be next. *)

Deliver(r, what) ==
    delivery' = [delivery EXCEPT ![[run |-> r, what |-> what]] = "open"]

RunStarts(r) ==
    /\ gh[r] = "absent"
    /\ gh' = [gh EXCEPT ![r] = "in_progress"]
    /\ Deliver(r, "in_progress")
    /\ UNCHANGED <<ghJob, facts, artifacts, writers, fetches, aborts>>

JobFinishes(r) ==
    /\ gh[r] = "in_progress" /\ ~ghJob[r]
    /\ ghJob' = [ghJob EXCEPT ![r] = TRUE]
    /\ Deliver(r, "job")
    /\ UNCHANGED <<gh, facts, artifacts, writers, fetches, aborts>>

RunCompletes(r) ==
    /\ gh[r] = "in_progress" /\ ghJob[r]
    /\ gh' = [gh EXCEPT ![r] = "completed"]
    /\ Deliver(r, "completed")
    /\ UNCHANGED <<ghJob, facts, artifacts, writers, fetches, aborts>>

-----------------------------------------------------------------------------
(* A writer gets its snapshot. *)

Loads(w, s) ==
    /\ pc[w] = "idle"
    /\ pc' = [pc EXCEPT ![w] = "loaded"]
    /\ load' = [load EXCEPT ![w] = s]
    /\ UNCHANGED prev

(* process_one claims a delivery for one processor. *)
TakeDelivery(w, m) ==
    /\ w \in Processors
    /\ delivery[m] = "open"
    /\ delivery' = [delivery EXCEPT ![m] = "processing"]
    /\ Loads(w, [run |-> m.run, what |-> m.what, job |-> FALSE])
    /\ UNCHANGED <<github, facts, artifacts, fetches, aborts>>

(* sync_workflow_runs fetches the run, then its jobs, before it begins. *)
FetchPage(w, r) ==
    /\ w \in Backfills
    /\ gh[r] # "absent"
    /\ fetches < MaxFetches
    /\ Loads(w, [run |-> r, what |-> gh[r], job |-> ghJob[r]])
    /\ fetches' = fetches + 1
    /\ UNCHANGED <<github, delivery, facts, artifacts, aborts>>

(* A webhook's workflow object is upserted first, which locks the workflow *)
(* row to the end of the transaction: two processors then handle one run's *)
(* deliveries in turn.  A backfill passes no workflow and takes no lock.   *)
WorkflowRowFree(w) ==
    w \in Processors /\ load[w].run \notin Unlisted =>
        \A v \in Processors \ {w} : ~(pc[v] = "read" /\ load[v].run = load[w].run)

(* ingest_workflow_run: SELECT status, without locking the run's row. *)
ReadPrevious(w) ==
    /\ pc[w] = "loaded" /\ load[w].what # "job"
    /\ WorkflowRowFree(w)
    /\ pc' = [pc EXCEPT ![w] = "read"]
    /\ prev' = [prev EXCEPT ![w] = row[load[w].run]]
    /\ UNCHANGED <<github, delivery, facts, artifacts, load, fetches, aborts>>

(* Mutant: only a run already seen running counts as newly completed. *)
NewlyCompletedFromRunning(w) == load[w].what = "completed" /\ prev[w] = "in_progress"

(* Mutant: the event is announced for the first time a run is seen at all. *)
NewlyCompletedWhenNew(w) == prev[w] = "absent"

(* run.status == "completed" && previous_status != Some("completed") *)
NewlyCompleted(w) == load[w].what = "completed" /\ prev[w] # "completed"

(* Mutant: the event is enqueued even if ON CONFLICT DO NOTHING inserted none. *)
InferDeploymentAlways(r, newly) ==
    LET infers == newly /\ r \in Deployable
    IN  /\ deployed' = [deployed EXCEPT ![r] = @ \/ infers]
        /\ recorded' = [recorded EXCEPT ![r] = IF infers THEN @ + 1 ELSE @]

(* infer_deployment: one row per run, an event only if the row is new. *)
InferDeployment(r, newly) ==
    LET infers == newly /\ r \in Deployable
    IN  /\ deployed' = [deployed EXCEPT ![r] = @ \/ infers]
        /\ recorded' = [recorded EXCEPT ![r] = IF infers /\ ~deployed[r] THEN @ + 1 ELSE @]

(* The delivery is marked processed (or ignored) in the same transaction. *)
Held(w) == [run |-> load[w].run, what |-> load[w].what]
MarkDelivery(w, status) ==
    delivery' = IF w \in Processors THEN [delivery EXCEPT ![Held(w)] = status] ELSE delivery

Finish(w) ==
    /\ pc' = [pc EXCEPT ![w] = "idle"]
    /\ load' = [load EXCEPT ![w] = NoSnapshot]
    /\ prev' = [prev EXCEPT ![w] = "absent"]

(* From the upsert to the commit: the status is overwritten whatever it    *)
(* was, the events go to the outbox, a backfill stores the run's job too,  *)
(* and a processor that saw a completed run without logs spawns a capture. *)
CommitRun(w) ==
    LET r == load[w].run IN
    /\ pc[w] = "read"
    /\ row' = [row EXCEPT ![r] = load[w].what]
    /\ jobRow' = [jobRow EXCEPT ![r] = @ \/ load[w].job]
    /\ completions' = [completions EXCEPT ![r] = IF NewlyCompleted(w) THEN @ + 1 ELSE @]
    /\ InferDeployment(r, NewlyCompleted(w))
    /\ captures' = captures \cup
          IF w \in Processors /\ load[w].what = "completed" /\ ~logs[r]
          THEN {<<r, "logs">>} ELSE {}
    /\ MarkDelivery(w, "settled")
    /\ Finish(w)
    /\ UNCHANGED <<github, logs, tests, fetches, aborts>>

(* ingest_workflow_job from a webhook: with no run row the delivery is     *)
(* recorded as ignored and the job is dropped.                             *)
CommitJob(w) ==
    LET r == load[w].run IN
    /\ pc[w] = "loaded" /\ load[w].what = "job"
    /\ jobRow' = [jobRow EXCEPT ![r] = @ \/ row[r] # "absent"]
    /\ MarkDelivery(w, "settled")
    /\ Finish(w)
    /\ UNCHANGED <<github, row, completions, deployed, recorded, artifacts, fetches, aborts>>

(* The transaction fails.  process_one marks the delivery failed, whatever *)
(* its status has become meanwhile; a backfill gives up.                   *)
Abort(w) ==
    /\ pc[w] # "idle"
    /\ aborts < MaxAborts
    /\ aborts' = aborts + 1
    /\ MarkDelivery(w, "open")
    /\ Finish(w)
    /\ UNCHANGED <<github, facts, artifacts, fetches>>

(* A replica dies and starts again.  run_processor first marks failed all  *)
(* that is in processing, the deliveries of live replicas included.        *)
Restart(w) ==
    /\ w \in Processors
    /\ aborts < MaxAborts
    /\ aborts' = aborts + 1
    /\ delivery' = [m \in Messages |->
                      IF delivery[m] = "processing" THEN "open" ELSE delivery[m]]
    /\ Finish(w)
    /\ UNCHANGED <<github, facts, artifacts, fetches>>

-----------------------------------------------------------------------------
(* The spawned task: store_run_logs, then capture_run_tests, each of which *)
(* may fail and is never retried.                                          *)

CaptureLogs(r) ==
    /\ <<r, "logs">> \in captures
    /\ captures' = (captures \ {<<r, "logs">>}) \cup {<<r, "tests">>}
    /\ logs' \in {logs, [logs EXCEPT ![r] = TRUE]}
    /\ UNCHANGED <<github, delivery, facts, tests, writers, fetches, aborts>>

CaptureTests(r) ==
    /\ <<r, "tests">> \in captures
    /\ captures' = captures \ {<<r, "tests">>}
    /\ tests' \in {tests, [tests EXCEPT ![r] = TRUE]}
    /\ UNCHANGED <<github, delivery, facts, logs, writers, fetches, aborts>>

-----------------------------------------------------------------------------
WriterStep(w) ==
    \/ \E m \in Messages : TakeDelivery(w, m)
    \/ \E r \in Runs : FetchPage(w, r)
    \/ ReadPrevious(w)
    \/ CommitRun(w)
    \/ CommitJob(w)
    \/ Abort(w)
    \/ Restart(w)

Next ==
    \/ \E r \in Runs : \/ RunStarts(r) \/ JobFinishes(r) \/ RunCompletes(r)
                       \/ CaptureLogs(r) \/ CaptureTests(r)
    \/ \E w \in Writers : WriterStep(w)

Spec == Init /\ [][Next]_vars

(* run_processor ticks every second and drains the queue while it can; an  *)
(* open transaction ends.  Nothing is assumed of GitHub, of backfills      *)
(* starting, or of captures.                                               *)
Fairness ==
    \A w \in Writers :
        /\ WF_vars(\E m \in Messages : TakeDelivery(w, m))
        /\ WF_vars(ReadPrevious(w))
        /\ WF_vars(CommitRun(w) \/ CommitJob(w))

FairSpec == Spec /\ Fairness

-----------------------------------------------------------------------------
(* A row or a read that says completed was preceded by the event: the fact *)
(* and its event commit together, and an unlocked read that turns stale    *)
(* never suppresses the only announcement.  Logs and test results are only *)
(* captured for announced runs.                                            *)
CompletedIsAnnounced ==
    /\ \A r \in Runs : row[r] = "completed" => completions[r] > 0
    /\ \A w \in Writers : pc[w] = "read" /\ prev[w] = "completed"
                              => completions[load[w].run] > 0
    /\ \A r \in Runs : logs[r] \/ tests[r] \/ (\E c \in captures : c[1] = r)
                              => completions[r] > 0

(* Nothing is announced that GitHub has not completed. *)
AnnouncedIsTrue ==
    /\ \A r \in Runs : completions[r] > 0 => gh[r] = "completed"
    /\ \A m \in Messages : m.what = "completed" /\ delivery[m] # "none"
                              => gh[m.run] = "completed"
    /\ \A w \in Writers : pc[w] # "idle" /\ load[w].what = "completed"
                              => gh[load[w].run] = "completed"

(* However often a completion is replayed or raced, a run has one inferred *)
(* deployment and one deployment.recorded event, exactly when it was       *)
(* announced as a deployable completion (workflow_ingest.rs, lines         *)
(* 340-343).                                                               *)
DeployedOnce ==
    \A r \in Runs :
        /\ recorded[r] = (IF deployed[r] THEN 1 ELSE 0)
        /\ deployed[r] <=> r \in Deployable /\ completions[r] > 0

(* The inductive invariant of ingestion. *)
IngestInv == CompletedIsAnnounced /\ AnnouncedIsTrue /\ DeployedOnce

(* A run that GitHub completed is announced, in whatever order its         *)
(* deliveries come and although some transactions fail.                    *)
CompletionReachesOutbox ==
    \A r \in Runs : gh[r] = "completed" ~> completions[r] > 0

(* README.md, lines 553-555: "Both are emitted only on the transition into *)
(* their state, so a replayed webhook does not re-fire them."              *)
AnnouncedOnce == \A r \in Runs : completions[r] <= 1

(* workflow_ingest.rs, lines 213-214, of a job that comes before its run:  *)
(* "The delivery is recorded and ignored; the job re-arrives with the run, *)
(* or the backfill catches it."                                            *)
JobsReachTheirRun == \A r \in Runs : ghJob[r] ~> jobRow[r]
=============================================================================
