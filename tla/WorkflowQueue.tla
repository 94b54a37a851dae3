--------------------------- MODULE WorkflowQueue ---------------------------
(***************************************************************************)
(* The local job queue of the StegoLab backend: the durable job table      *)
(* (workflow_store.py), the request handlers that admit and steer jobs     *)
(* (workspace_jobs.py, dataset_fetch_jobs.py, inference_jobs.py), the one  *)
(* scheduler thread with the worker process it supervises                  *)
(* (workflow_supervision.py, workflow_runner.py, workflow_fetch_runner.py, *)
(* inference_runner.py, workflow_execution.py) and the start and shutdown  *)
(* of the application around them.                                         *)
(*                                                                         *)
(* An application process is a boot.  Everything indexed by a boot is that *)
(* process's memory and is lost with it; jobs, mutations and the two file  *)
(* locks belong to the disk and the kernel.  A block the code runs under   *)
(* service.lock is one step; the two blocks that save several jobs under   *)
(* the lock (start and the end of close) are one step per transaction,     *)
(* because the process may die between them.                               *)
(*                                                                         *)
(* The Faulty operators are plausible faults of the definition that        *)
(* follows them.  No specification uses them: with one of them in place of *)
(* its definition, a property of WorkflowQueueProperties fails.            *)
(***************************************************************************)
EXTENDS Integers, FiniteSets

CONSTANTS
    MaxJobs,               \* bound: jobs the table ever holds
    MaxBoots,              \* bound: application processes ever started
    MaximumInferenceJobs,  \* MAXIMUM_INFERENCE_JOBS of schemas/inference_jobs.py
    ClientIds,             \* client_request_identifier values
    Subjects,              \* what a request is about: experiment, source, secrets
    Submissions,           \* requests clients may send to start a job
    Commands,              \* actions clients may request on a job
    StorageCanFail,        \* whether a database transaction may fail
    CommandLineRuns,       \* whether somebody uses the proof commands meanwhile
    CommandLine,           \* a command-line user holding the CPU proof lock
    NoJob, NoBoot, NoRequest, NoMutation

JobIds == 1..MaxJobs
Boots == 1..MaxBoots

TrainingFamily == {"train", "evaluate", "export"}
InferenceOperations == {"encode", "decode"}
Operations == TrainingFamily \cup InferenceOperations \cup {"prepare_dataset", "fetch_dataset"}
JobActions == {"cancel", "stop", "pause", "resume"}

ASSUME BoundsAssumption ==
    /\ MaxJobs \in Nat \ {0}
    /\ MaxBoots \in Nat \ {0}
    /\ MaximumInferenceJobs \in Nat \ {0}
    /\ StorageCanFail \in BOOLEAN
    /\ CommandLineRuns \in BOOLEAN

ASSUME RequestsAssumption ==
    /\ Submissions \subseteq [client : ClientIds, what : Operations, about : Subjects]
    /\ Commands \subseteq [client : ClientIds, what : JobActions, about : JobIds]

ASSUME NullsAssumption ==
    /\ NoJob \notin JobIds
    /\ NoBoot \notin Boots
    /\ CommandLine \notin Boots \cup {NoBoot}
    /\ NoRequest \notin JobActions
    /\ NoMutation \notin [what : Operations \cup JobActions,
                          about : Subjects \cup JobIds,
                          key : Boots \cup {NoBoot}, job : JobIds]

VARIABLES
    jobs,       \* the durable job table, in creation order
    mutations,  \* the durable accepted request of each client identifier
    owner,      \* the boot that holds the queue's file lock
    proof,      \* the holder of the CPU proof lock: a boot's worker, or CommandLine
    mode,       \* where each boot is between start and exit
    closing,    \* service.closing of each boot
    failed,     \* service.persistence_failed of each boot
    secrets,    \* jobs whose secrets each boot holds in memory
    cleanup,    \* service.cache_cleanup_in_progress of each boot
    thread,     \* each boot's scheduler thread
    child       \* the worker process each boot spawned

durable == <<jobs, mutations>>
memory == <<mode, closing, failed, secrets, cleanup>>
vars == <<jobs, mutations, owner, proof, mode, closing, failed, secrets,
          cleanup, thread, child>>

-----------------------------------------------------------------------------
(* Jobs *)

Unfinished == {"queued", "running"}
ActiveFetchStates == {"queued", "running", "paused"}
Settled == {"completed", "cancelled", "failed", "stopped"}
Statuses == {"absent", "interrupted"} \cup ActiveFetchStates \cup Settled

NoRecord == [status |-> "absent", op |-> "prepare_dataset", subject |-> NoJob,
             requested |-> NoRequest, actions |-> {}]

Accepted == {j \in JobIds : jobs[j].status # "absent"}
Having(states) == {j \in JobIds : jobs[j].status \in states}
IsFetch(j) == jobs[j].op = "fetch_dataset"
IsInference(j) == jobs[j].op \in InferenceOperations

(* The next free row of the table: rows are filled in creation order. *)
Vacant(j) == /\ jobs[j].status = "absent"
             /\ \A i \in 1..(j - 1) : jobs[i].status # "absent"

(* WorkspaceJobService._change and interrupt, for the fields modelled. *)
Changed(j, status, actions) ==
    [jobs EXCEPT ![j].status = status, ![j].actions = actions]

Interrupted(j) == Changed(j, "interrupted", {})

InitialRunningActions(op) ==
    CASE op = "train" -> {"stop"}
      [] op = "fetch_dataset" -> {"cancel"}
      [] OTHER        -> {}

-----------------------------------------------------------------------------
(* The scheduler thread and the worker process *)

NoThread == [pc |-> "none", job |-> NoJob, packages |-> 0, outcome |-> "none",
             next |-> "none"]
NoChild == [stage |-> "none", job |-> NoJob, op |-> "prepare_dataset",
            signalled |-> FALSE, outcome |-> "none"]

LiveStages == {"starting", "working", "reporting"}
Live(b) == child[b].stage \in LiveStages
Alive(b) == thread[b].pc \notin {"none", "dead"}

(* service.active_identifier: set by next_job, cleared by run_scheduler.    *)
Active(b) == thread[b].job

Goto(b, pc) == thread' = [thread EXCEPT ![b].pc = pc]

(* Whether service.lock is free: start and the end of close hold it over   *)
(* several transactions.                                                   *)
Free(b) == mode[b] \notin {"reconciling", "settling"}

(* Request handlers run once start has returned.  The server stops waiting *)
(* for them after fifteen seconds, so close may begin beside one; none is  *)
(* taken to wait for the lock until close has reconciled the queue.        *)
Handling(b) == /\ mode[b] \in {"serving", "closing", "joining", "killing", "rejoining"}
               /\ thread[b].pc # "none"

(* stop_requested of workflow_runner.py and workflow_fetch_runner.py: only  *)
(* these two runners poll for a stop.                                      *)
StopRequested(b) ==
    LET j == Active(b) IN
    /\ ~IsInference(j)
    /\ closing[b] \/ jobs[j].requested \in (IF IsFetch(j) THEN {"cancel", "pause"}
                                                          ELSE {"stop"})

-----------------------------------------------------------------------------
(* Start: WorkspaceJobService.start *)

TakeQueueLock(b) ==
    /\ mode[b] = "off"
    /\ \A a \in Boots : a < b => mode[a] # "off"
    /\ IF owner = NoBoot
         THEN /\ owner' = b
              /\ mode' = [mode EXCEPT ![b] = "reconciling"]
         ELSE /\ owner' = owner
              /\ mode' = [mode EXCEPT ![b] = "raised"]
    /\ UNCHANGED <<durable, proof, closing, failed, secrets, cleanup, thread, child>>

(* A fault: settled jobs of an earlier boot are interrupted, too.         *)
FaultyReconcileJob(b) ==
    /\ mode[b] = "reconciling"
    /\ \E j \in Accepted : jobs' = Interrupted(j)
    /\ UNCHANGED <<mutations, owner, proof, memory, thread, child>>

(* One transaction of the loop that interrupts what an earlier boot left.  *)
ReconcileJob(b) ==
    /\ mode[b] = "reconciling"
    /\ \E j \in Having(Unfinished) :
          /\ \A i \in Having(Unfinished) : j <= i
          /\ jobs' = Interrupted(j)
    /\ UNCHANGED <<mutations, owner, proof, memory, thread, child>>

StartFails(b) ==
    /\ StorageCanFail
    /\ mode[b] = "reconciling"
    /\ mode' = [mode EXCEPT ![b] = "raised"]
    /\ UNCHANGED <<durable, owner, proof, closing, failed, secrets, cleanup, thread, child>>

(* A fault: the scheduler starts before reconciliation is over.           *)
FaultyStartScheduler(b) ==
    /\ mode[b] = "reconciling"
    /\ mode' = [mode EXCEPT ![b] = "serving"]
    /\ Goto(b, "idle")
    /\ UNCHANGED <<durable, owner, proof, closing, failed, secrets, cleanup, child>>

StartScheduler(b) ==
    /\ mode[b] = "reconciling"
    /\ Having(Unfinished) = {}
    /\ mode' = [mode EXCEPT ![b] = "serving"]
    /\ Goto(b, "idle")
    /\ UNCHANGED <<durable, owner, proof, closing, failed, secrets, cleanup, child>>

-----------------------------------------------------------------------------
(* Requests.  A refusal, a replay of an accepted request and a failed      *)
(* transaction change nothing and are stutters.  require_storage runs      *)
(* before service.lock is taken, so it is no guard of what happens under   *)
(* the lock; closing is read under it by the three submissions only.       *)

(* The HMAC key of an encode or decode fingerprint lives in one boot.      *)
Key(b, what) == IF what \in InferenceOperations THEN b ELSE NoBoot

Fingerprint(b, request) ==
    [what |-> request.what, about |-> request.about, key |-> Key(b, request.what)]

(* A fault: an identifier that was accepted before is accepted again.     *)
FaultyNew(request) == request.client \in ClientIds

New(request) == mutations[request.client] = NoMutation

Remember(b, request, j) ==
    LET print == Fingerprint(b, request) IN
    mutations' = [mutations EXCEPT ![request.client] =
        [what |-> print.what, about |-> print.about, key |-> print.key, job |-> j]]

(* WorkflowStore.replay: the same identifier and payload return the job,   *)
(* another payload is request_identifier_conflict.                         *)
Replays(b, request) ==
    /\ ~New(request)
    /\ LET past == mutations[request.client] IN
       [what |-> past.what, about |-> past.about, key |-> past.key]
           = Fingerprint(b, request)

QueuedRecord(request) ==
    [status |-> "queued", op |-> request.what, subject |-> request.about,
     requested |-> NoRequest, actions |-> {"cancel"}]

(* The part of a submission that every kind of request shares.             *)
Accept(b, request) ==
    /\ Handling(b)
    /\ ~closing[b]
    /\ New(request)
    /\ \E j \in JobIds :
          /\ Vacant(j)
          /\ jobs' = [jobs EXCEPT ![j] = QueuedRecord(request)]
          /\ Remember(b, request, j)
    /\ UNCHANGED <<owner, proof, mode, closing, failed, cleanup, thread, child>>

(* WorkspaceJobService.submit *)
ExperimentBusy(experiment) ==
    \E j \in Having(Unfinished) : jobs[j].op = "train" /\ jobs[j].subject = experiment

Submit(b, request) ==
    /\ request.what \in TrainingFamily \cup {"prepare_dataset"}
    /\ request.what = "train" => ~ExperimentBusy(request.about)
    /\ Accept(b, request)
    /\ UNCHANGED secrets

(* submit_fetch of dataset_fetch_jobs.py *)
ActiveFetches == {j \in Having(ActiveFetchStates) : IsFetch(j)}

(* A fault: a paused download does not count.                             *)
FaultySubmitBesidePaused(b, request) ==
    /\ request.what = "fetch_dataset"
    /\ ~cleanup[b]
    /\ ~\E j \in Having(Unfinished) : IsFetch(j)
    /\ Accept(b, request)
    /\ UNCHANGED secrets

(* A fault: the cleanup flag is not looked at.                            *)
FaultySubmitDuringCleanup(b, request) ==
    /\ request.what = "fetch_dataset"
    /\ ActiveFetches = {}
    /\ Accept(b, request)
    /\ UNCHANGED secrets

SubmitFetch(b, request) ==
    /\ request.what = "fetch_dataset"
    /\ ~cleanup[b]
    /\ ActiveFetches = {}
    /\ Accept(b, request)
    /\ UNCHANGED secrets

(* submit_inference of inference_jobs.py: the secrets are stored before    *)
(* service.lock is released, so the scheduler cannot take the job earlier. *)
WaitingInference == {j \in Having(Unfinished) : IsInference(j)}

SubmitInference(b, request) ==
    /\ request.what \in InferenceOperations
    /\ Cardinality(WaitingInference) < MaximumInferenceJobs
    /\ Accept(b, request)
    /\ \E j \in JobIds :
          /\ Vacant(j)
          /\ secrets' = [secrets EXCEPT ![b] = @ \cup {j}]

(* A fault: a resumed download keeps its old request.                     *)
FaultyFetchActionChanges(j, action) ==
    CASE action = "cancel" /\ jobs[j].status \in {"queued", "paused"} ->
            [jobs EXCEPT ![j].status = "cancelled", ![j].requested = action,
                         ![j].actions = {}]
      [] action = "resume" /\ jobs[j].status = "paused" ->
            [jobs EXCEPT ![j].status = "queued", ![j].actions = {"cancel"}]
      [] OTHER ->
            [jobs EXCEPT ![j].requested = action, ![j].actions = {}]

(* WorkspaceJobService.action with _action_changes and fetch_action_changes *)
FetchActionChanges(j, action) ==
    CASE action = "cancel" /\ jobs[j].status \in {"queued", "paused"} ->
            [jobs EXCEPT ![j].status = "cancelled", ![j].requested = action,
                         ![j].actions = {}]
      [] action = "resume" /\ jobs[j].status = "paused" ->
            [jobs EXCEPT ![j].status = "queued", ![j].requested = NoRequest,
                         ![j].actions = {"cancel"}]
      [] OTHER ->
            [jobs EXCEPT ![j].requested = action, ![j].actions = {}]

ActionChanges(j, action) ==
    IF action = "cancel"
      THEN [jobs EXCEPT ![j].status = "cancelled", ![j].requested = action,
                        ![j].actions = {}]
      ELSE [jobs EXCEPT ![j].requested = action, ![j].actions = {}]

(* The combinations those two functions refuse with action_unavailable.    *)
Supported(j, action) ==
    IF IsFetch(j)
      THEN \/ action = "cancel" /\ jobs[j].status \in ActiveFetchStates
           \/ action = "pause" /\ jobs[j].status = "running"
           \/ action = "resume" /\ jobs[j].status = "paused"
      ELSE \/ action = "cancel" /\ jobs[j].status = "queued"
           \/ action = "stop" /\ jobs[j].status = "running" /\ jobs[j].op = "train"

Action(b, request) ==
    LET j == request.about IN
    /\ Handling(b)
    /\ New(request)
    /\ request.what \in jobs[j].actions
    /\ Supported(j, request.what)
    /\ jobs' = IF IsFetch(j) THEN FetchActionChanges(j, request.what)
                             ELSE ActionChanges(j, request.what)
    /\ Remember(b, request, j)
    /\ secrets' = IF jobs'[j].status = "cancelled"
                    THEN [secrets EXCEPT ![b] = @ \ {j}] ELSE secrets
    /\ UNCHANGED <<owner, proof, mode, closing, failed, cleanup, thread, child>>

(* DatasetSourceService.remove_unused: the check and the flag under the    *)
(* lock, the deletion without it, the flag again under the lock.           *)
BeginCleanup(b) ==
    /\ Handling(b)
    /\ ActiveFetches = {}
    /\ ~cleanup[b]
    /\ cleanup' = [cleanup EXCEPT ![b] = TRUE]
    /\ UNCHANGED <<durable, owner, proof, mode, closing, failed, secrets, thread, child>>

EndCleanup(b) ==
    /\ Free(b)
    /\ cleanup[b]
    /\ cleanup' = [cleanup EXCEPT ![b] = FALSE]
    /\ UNCHANGED <<durable, owner, proof, mode, closing, failed, secrets, thread, child>>

-----------------------------------------------------------------------------
(* The scheduler: run_scheduler, next_job and run_job.  Its idle wait is a *)
(* poll bounded by half a second, so service.wake only saves time and is   *)
(* left out.                                                               *)

CheckClosing(b) ==
    /\ thread[b].pc = "idle"
    /\ Goto(b, IF closing[b] THEN "dead" ELSE "polling")
    /\ UNCHANGED <<durable, owner, proof, memory, child>>

(* A fault: the oldest job holds up all behind it.                        *)
FaultyStartable == {j \in Having({"queued"}) :
                       /\ \A i \in Having({"queued"}) : j <= i
                       /\ proof = NoBoot \/ jobs[j].op \notin TrainingFamily}

(* Queued jobs the probe of the proof lock (proof_busy) lets start.        *)
Startable == {j \in Having({"queued"}) :
                 proof = NoBoot \/ jobs[j].op \notin TrainingFamily}

NextJob(b) ==
    /\ thread[b].pc = "polling"
    /\ Free(b)
    /\ IF Startable = {}
         THEN /\ Goto(b, "idle")
              /\ jobs' = jobs
         ELSE \E j \in Startable :
                 /\ \A i \in Startable : j <= i
                 /\ jobs' = Changed(j, "running", InitialRunningActions(jobs[j].op))
                 /\ thread' = [thread EXCEPT ![b].pc = "starting", ![b].job = j]
    /\ UNCHANGED <<mutations, owner, proof, memory, child>>

NewChild(b) ==
    [NoChild EXCEPT !.stage = "starting", !.job = Active(b), !.op = jobs[Active(b)].op]

(* run_job for a train, evaluate, export, prepare_dataset or fetch_dataset  *)
(* job: the repeated preflight or the resolution of its references may     *)
(* refuse it; otherwise execute_command spawns the worker.                 *)
RunJob(b) ==
    /\ thread[b].pc = "starting"
    /\ ~IsInference(Active(b))
    /\ \/ /\ Goto(b, "failing")
          /\ child' = child
       \/ /\ Goto(b, "supervising")
          /\ child' = [child EXCEPT ![b] = NewChild(b)]
    /\ UNCHANGED <<durable, owner, proof, memory>>

Packages(op) == IF op = "encode" THEN 2 ELSE 1

(* run_inference hands the secrets over exactly once; a job without them   *)
(* is inputs_lost.                                                         *)
PopSecrets(b) ==
    LET j == Active(b) IN
    /\ thread[b].pc = "starting"
    /\ IsInference(j)
    /\ secrets' = [secrets EXCEPT ![b] = @ \ {j}]
    /\ thread' = IF j \in secrets[b]
                   THEN [thread EXCEPT ![b].pc = "reporting",
                                       ![b].packages = Packages(jobs[j].op)]
                   ELSE [thread EXCEPT ![b].pc = "failing"]
    /\ UNCHANGED <<durable, owner, proof, mode, closing, failed, cleanup, child>>

(* report of inference_runner.py refuses a new process once shutdown has   *)
(* begun; a missing model or image also ends the job here.                 *)
ReportPhase(b) ==
    /\ thread[b].pc = "reporting"
    /\ \/ Goto(b, "failing")
       \/ ~closing[b] /\ Goto(b, "spawning")
    /\ UNCHANGED <<durable, owner, proof, memory, child>>

SpawnPackage(b) ==
    /\ thread[b].pc = "spawning"
    /\ Free(b)
    /\ Goto(b, "supervising")
    /\ child' = [child EXCEPT ![b] = NewChild(b)]
    /\ UNCHANGED <<durable, owner, proof, memory>>

(* progress_changes of a fetch record: the phase decides whether a pause   *)
(* is offered, and a requested action freezes the offer.                   *)
Progress(b) ==
    LET j == Active(b) IN
    /\ thread[b].pc = "supervising"
    /\ Free(b)
    /\ child[b].stage = "reporting"
    /\ IsFetch(j)
    /\ jobs[j].requested = NoRequest
    /\ \E actions \in {{"cancel"}, {"cancel", "pause"}} :
          jobs' = [jobs EXCEPT ![j].actions = actions]
    /\ UNCHANGED <<mutations, owner, proof, memory, thread, child>>

(* execute_command signals the worker once, and only after a progress      *)
(* record proved that its safe-stop handler is installed.                  *)
SendStop(b) ==
    /\ thread[b].pc = "supervising"
    /\ child[b].stage = "reporting"
    /\ ~child[b].signalled
    /\ StopRequested(b)
    /\ child' = [child EXCEPT ![b].signalled = TRUE]
    /\ UNCHANGED <<durable, owner, proof, memory, thread>>

(* The finally of execute_command: terminate, wait, kill.                  *)
Reap(b, next) ==
    /\ thread' = [thread EXCEPT ![b].pc = "reaping", ![b].outcome = "silent",
                                ![b].next = next]
    /\ child' = [child EXCEPT ![b].signalled = TRUE]

(* A fault: the allowance is only looked at between reports.              *)
FaultyLimitExceeded(b) ==
    /\ thread[b].pc = "supervising"
    /\ child[b].stage = "reporting"
    /\ Reap(b, IF IsInference(Active(b)) THEN "failing" ELSE "finishing")
    /\ UNCHANGED <<durable, owner, proof, memory>>

(* The time or output allowance is exceeded: workflow_failed for a worker, *)
(* inference_timeout for a package.                                        *)
LimitExceeded(b) ==
    /\ thread[b].pc = "supervising"
    /\ Live(b)
    /\ Reap(b, IF IsInference(Active(b)) THEN "failing" ELSE "finishing")
    /\ UNCHANGED <<durable, owner, proof, memory>>

(* workflow_stalled is raised past run_fetch_job's own handler.            *)
Stall(b) ==
    /\ thread[b].pc = "supervising"
    /\ Live(b)
    /\ IsFetch(Active(b))
    /\ Reap(b, "failing")
    /\ UNCHANGED <<durable, owner, proof, memory>>

FreeProof(b) == proof' = IF proof = b THEN NoBoot ELSE proof

(* A fault: the worker is not waited for before the job is settled.       *)
FaultyReaped(b) ==
    /\ thread[b].pc = "reaping"
    /\ Goto(b, thread[b].next)
    /\ UNCHANGED <<durable, owner, proof, memory, child>>

Reaped(b) ==
    /\ thread[b].pc = "reaping"
    /\ Goto(b, thread[b].next)
    /\ child' = [child EXCEPT ![b] = NoChild]
    /\ FreeProof(b)
    /\ UNCHANGED <<durable, owner, memory>>

(* The worker ended by itself.  An encode runs the encoder package and     *)
(* then the decoder package; a package that fails ends the job.            *)
AfterPackage(b) ==
    CASE child[b].outcome # "completed" -> "failing"
      [] thread[b].packages > 1         -> "reporting"
      [] OTHER                          -> "finishing"

CollectExit(b) ==
    /\ thread[b].pc = "supervising"
    /\ child[b].stage = "ended"
    /\ thread' = [thread EXCEPT
          ![b].pc = IF IsInference(Active(b)) THEN AfterPackage(b) ELSE "finishing",
          ![b].packages = IF @ > 0 THEN @ - 1 ELSE 0,
          ![b].outcome = child[b].outcome]
    /\ child' = [child EXCEPT ![b] = NoChild]
    /\ UNCHANGED <<durable, owner, proof, memory>>

(* stopped_changes of workflow_fetch_runner.py *)
StoppedStatus(b, j) ==
    CASE jobs[j].requested = "cancel" -> "cancelled"
      [] jobs[j].requested = "pause"  -> "paused"
      [] OTHER -> IF closing[b] THEN "interrupted" ELSE "raises"

(* exit_changes for a fetch, the end of run_job and run_inference for the  *)
(* others; "raises" leaves the job to report_failure.                      *)
FinalStatus(b, j) ==
    CASE thread[b].outcome = "completed"  -> "completed"
      [] IsFetch(j)                       -> StoppedStatus(b, j)
      [] thread[b].outcome = "stopped"    -> "stopped"
      [] thread[b].outcome = "incomplete" -> "failed"
      [] OTHER                            -> "raises"

(* A training checkpoint that does not verify or register also raises.     *)
Finish(b) ==
    LET j == Active(b) status == FinalStatus(b, j) IN
    /\ thread[b].pc = "finishing"
    /\ Free(b)
    /\ \/ /\ status = "raises" \/ jobs[j].op = "train"
          /\ Goto(b, "failing")
          /\ jobs' = jobs
       \/ /\ status # "raises"
          /\ Goto(b, "releasing")
          /\ jobs' = Changed(j, status,
                             IF status = "paused" THEN {"resume", "cancel"} ELSE {})
    /\ UNCHANGED <<mutations, owner, proof, memory, child>>

ReportFailure(b) ==
    /\ thread[b].pc = "failing"
    /\ Free(b)
    /\ jobs' = Changed(Active(b), IF closing[b] THEN "interrupted" ELSE "failed", {})
    /\ Goto(b, "releasing")
    /\ UNCHANGED <<mutations, owner, proof, memory, child>>

(* The finally of run_scheduler's loop. *)
Release(b) ==
    /\ thread[b].pc \in {"releasing", "raising"}
    /\ Free(b)
    /\ thread' = [thread EXCEPT
          ![b] = [NoThread EXCEPT
                     !.pc = IF thread[b].pc = "raising" THEN "halting" ELSE "idle"]]
    /\ UNCHANGED <<durable, owner, proof, memory, child>>

(* A transaction of the scheduler fails.  What is under way is dropped,    *)
(* the job keeps the status it had.                                        *)
LoseStorage(b) ==
    /\ StorageCanFail
    /\ UNCHANGED <<durable, owner, proof, memory>>
    /\ \/ /\ thread[b].pc = "polling" /\ Free(b)
          /\ Goto(b, "halting")
          /\ child' = child
       \/ /\ \/ thread[b].pc = "starting"
             \/ thread[b].pc \in {"spawning", "finishing", "failing"} /\ Free(b)
          /\ Goto(b, "raising")
          /\ child' = child
       \/ /\ thread[b].pc = "supervising"
          /\ ~IsInference(Active(b))
          /\ Reap(b, "raising")

(* WorkspaceJobService.halt_for_storage, called by the scheduler thread.   *)
HaltForStorage(b) ==
    /\ thread[b].pc = "halting"
    /\ Goto(b, "dead")
    /\ failed' = [failed EXCEPT ![b] = TRUE]
    /\ closing' = [closing EXCEPT ![b] = TRUE]
    /\ UNCHANGED <<durable, owner, proof, mode, secrets, cleanup, child>>

-----------------------------------------------------------------------------
(* The worker process (workflow_worker.py and the command it runs) and the *)
(* command-line user, who takes the same proof lock.                       *)

(* ProofBudget.__enter__ takes the lock without waiting and fails if it is *)
(* held: the scheduler's probe is only advice.                             *)
ChildStart(b) ==
    /\ child[b].stage = "starting"
    /\ IF child[b].op \in TrainingFamily
         THEN /\ proof = NoBoot
              /\ proof' = b
         ELSE proof' = proof
    /\ child' = [child EXCEPT ![b].stage = "working"]
    /\ UNCHANGED <<durable, owner, memory, thread>>

(* The commands PROGRESS_READERS knows publish progress records.           *)
ChildReport(b) ==
    /\ child[b].stage = "working"
    /\ child[b].op \in {"train", "fetch_dataset"}
    /\ child' = [child EXCEPT ![b].stage = "reporting"]
    /\ UNCHANGED <<durable, owner, proof, memory, thread>>

(* How the command can end: with a complete result, without any, with a    *)
(* failed evaluation, or stopped: by a signal, or a training run by its    *)
(* exhausted budget.  Before it has started it can only fail.              *)
Outcomes(b) ==
    IF child[b].stage = "starting" THEN {"silent"}
    ELSE {"completed", "silent"}
         \cup (IF child[b].op = "evaluate" THEN {"incomplete"} ELSE {})
         \cup (IF \/ child[b].op = "train"
                  \/ child[b].op = "fetch_dataset" /\ child[b].signalled
                 THEN {"stopped"} ELSE {})

Ends(b, outcome) ==
    /\ child' = IF mode[b] = "gone" THEN [child EXCEPT ![b] = NoChild]
                ELSE [child EXCEPT ![b].stage = "ended", ![b].outcome = outcome]
    /\ FreeProof(b)

ChildExit(b) ==
    /\ Live(b)
    /\ \E outcome \in Outcomes(b) : Ends(b, outcome)
    /\ UNCHANGED <<durable, owner, memory, thread>>

(* watch_parent: a worker whose application is gone stops by itself.       *)
OrphanExit(b) == mode[b] = "gone" /\ ChildExit(b)

CommandLineTakesProof ==
    /\ CommandLineRuns
    /\ proof = NoBoot
    /\ proof' = CommandLine
    /\ UNCHANGED <<durable, owner, memory, thread, child>>

CommandLineReleasesProof ==
    /\ proof = CommandLine
    /\ proof' = NoBoot
    /\ UNCHANGED <<durable, owner, memory, thread, child>>

-----------------------------------------------------------------------------
(* Shutdown: close_supervisor, then the end of the process.  The lifespan  *)
(* also closes a service whose start raised.                               *)

BeginClose(b) ==
    /\ mode[b] \in {"serving", "raised"}
    /\ mode' = [mode EXCEPT ![b] = "closing"]
    /\ closing' = [closing EXCEPT ![b] = TRUE]
    /\ UNCHANGED <<durable, owner, proof, failed, secrets, cleanup, thread, child>>

StopActiveTraining(b) ==
    LET j == Active(b) IN
    /\ mode[b] = "closing"
    /\ mode' = [mode EXCEPT ![b] = "joining"]
    /\ jobs' = IF j # NoJob /\ jobs[j].op = "train" /\ jobs[j].status = "running"
                 THEN [jobs EXCEPT ![j].requested = "stop", ![j].actions = {}]
                 ELSE jobs
    /\ UNCHANGED <<mutations, owner, proof, closing, failed, secrets, cleanup, thread, child>>

StopActiveFails(b) ==
    /\ StorageCanFail
    /\ mode[b] = "closing"
    /\ Active(b) # NoJob
    /\ mode' = [mode EXCEPT ![b] = "joining"]
    /\ failed' = [failed EXCEPT ![b] = TRUE]
    /\ UNCHANGED <<durable, owner, proof, closing, secrets, cleanup, thread, child>>

(* The thread did not end within thirty seconds and a worker is running.   *)
Terminate(b) ==
    /\ mode[b] = "joining"
    /\ Alive(b)
    /\ child[b].stage # "none"
    /\ mode' = [mode EXCEPT ![b] = "killing"]
    /\ child' = [child EXCEPT ![b].signalled = TRUE]
    /\ UNCHANGED <<durable, owner, proof, closing, failed, secrets, cleanup, thread>>

(* The worker has ended within the five seconds it is given, or is killed. *)
Kill(b) ==
    /\ mode[b] = "killing"
    /\ mode' = [mode EXCEPT ![b] = "rejoining"]
    /\ IF Live(b) THEN Ends(b, "silent") ELSE UNCHANGED <<proof, child>>
    /\ UNCHANGED <<durable, owner, closing, failed, secrets, cleanup, thread>>

(* A fault: the joins have no time limit.                                 *)
FaultyBeginSettle(b) ==
    /\ mode[b] \in {"joining", "rejoining"}
    /\ ~Alive(b)
    /\ mode' = [mode EXCEPT ![b] =
                   IF ~failed[b] /\ owner = b THEN "settling" ELSE "unlocking"]
    /\ UNCHANGED <<durable, owner, proof, closing, failed, secrets, cleanup, thread, child>>

(* Either join may time out with the thread still alive.  Only the owner   *)
(* of the queue lock reconciles the queue.                                 *)
BeginSettle(b) ==
    /\ \/ mode[b] = "joining" /\ (Alive(b) => child[b].stage = "none")
       \/ mode[b] = "rejoining"
    /\ mode' = [mode EXCEPT ![b] =
                   IF ~failed[b] /\ owner = b THEN "settling" ELSE "unlocking"]
    /\ UNCHANGED <<durable, owner, proof, closing, failed, secrets, cleanup, thread, child>>

(* The loop over the unfinished jobs.  Under the lock nobody else writes   *)
(* them, so it is through exactly when none is left.                       *)
SettleJob(b) ==
    /\ mode[b] = "settling"
    /\ \E j \in Having(Unfinished) :
          /\ \A i \in Having(Unfinished) : j <= i
          /\ jobs' = Interrupted(j)
    /\ UNCHANGED <<mutations, owner, proof, memory, thread, child>>

SettleEnds(b) ==
    /\ mode[b] = "settling"
    /\ \/ /\ Having(Unfinished) = {}
          /\ failed' = failed
       \/ /\ StorageCanFail
          /\ failed' = [failed EXCEPT ![b] = TRUE]
    /\ mode' = [mode EXCEPT ![b] = "unlocking"]
    /\ UNCHANGED <<durable, owner, proof, closing, secrets, cleanup, thread, child>>

(* A fault: the queue lock is dropped whatever still runs.                *)
FaultyUnlock(b) ==
    /\ mode[b] = "unlocking"
    /\ mode' = [mode EXCEPT ![b] = "closed"]
    /\ owner' = IF owner = b THEN NoBoot ELSE owner
    /\ UNCHANGED <<durable, proof, closing, failed, secrets, cleanup, thread, child>>

(* A runner that is still alive keeps the queue lock until the process     *)
(* exits.                                                                  *)
Unlock(b) ==
    /\ mode[b] = "unlocking"
    /\ mode' = [mode EXCEPT ![b] = "closed"]
    /\ owner' = IF owner = b /\ ~Alive(b) THEN NoBoot ELSE owner
    /\ UNCHANGED <<durable, proof, closing, failed, secrets, cleanup, thread, child>>

(* The process is gone: its memory is lost, the kernel drops its file      *)
(* locks, its worker survives.                                             *)
Gone(b) ==
    /\ mode' = [mode EXCEPT ![b] = "gone"]
    /\ owner' = IF owner = b THEN NoBoot ELSE owner
    /\ closing' = [closing EXCEPT ![b] = FALSE]
    /\ failed' = [failed EXCEPT ![b] = FALSE]
    /\ secrets' = [secrets EXCEPT ![b] = {}]
    /\ cleanup' = [cleanup EXCEPT ![b] = FALSE]
    /\ thread' = [thread EXCEPT ![b] = [NoThread EXCEPT !.pc = "dead"]]
    /\ child' = IF Live(b) THEN child ELSE [child EXCEPT ![b] = NoChild]
    /\ UNCHANGED <<durable, proof>>

Exit(b) == mode[b] = "closed" /\ Gone(b)
Crash(b) == mode[b] \notin {"off", "closed", "gone"} /\ Gone(b)

-----------------------------------------------------------------------------
(* The specification *)

Init ==
    /\ jobs = [j \in JobIds |-> NoRecord]
    /\ mutations = [c \in ClientIds |-> NoMutation]
    /\ owner = NoBoot
    /\ proof = NoBoot
    /\ mode = [b \in Boots |-> "off"]
    /\ closing = [b \in Boots |-> FALSE]
    /\ failed = [b \in Boots |-> FALSE]
    /\ secrets = [b \in Boots |-> {}]
    /\ cleanup = [b \in Boots |-> FALSE]
    /\ thread = [b \in Boots |-> NoThread]
    /\ child = [b \in Boots |-> NoChild]

Start(b) == TakeQueueLock(b) \/ ReconcileJob(b) \/ StartFails(b) \/ StartScheduler(b)

Handle(b) ==
    \/ \E request \in Submissions :
          Submit(b, request) \/ SubmitFetch(b, request) \/ SubmitInference(b, request)
    \/ \E request \in Commands : Action(b, request)
    \/ BeginCleanup(b)
    \/ EndCleanup(b)

(* What the scheduler thread does next by itself. *)
Run(b) ==
    \/ CheckClosing(b) \/ NextJob(b) \/ RunJob(b) \/ PopSecrets(b)
    \/ ReportPhase(b) \/ SpawnPackage(b) \/ Reaped(b) \/ CollectExit(b)
    \/ Finish(b) \/ ReportFailure(b) \/ Release(b) \/ HaltForStorage(b)

Supervise(b) == Progress(b) \/ SendStop(b) \/ LimitExceeded(b) \/ Stall(b) \/ LoseStorage(b)

Work(b) == ChildStart(b) \/ ChildReport(b) \/ ChildExit(b)

(* The lifespan closes a service whose start raised. *)
CloseRaised(b) == mode[b] = "raised" /\ BeginClose(b)

Close(b) ==
    \/ CloseRaised(b) \/ StopActiveTraining(b) \/ StopActiveFails(b) \/ Terminate(b) \/ Kill(b)
    \/ BeginSettle(b) \/ SettleJob(b) \/ SettleEnds(b) \/ Unlock(b) \/ Exit(b)

Next ==
    \/ \E b \in Boots :
          \/ Start(b) \/ Handle(b) \/ Run(b) \/ Supervise(b) \/ Work(b)
          \/ BeginClose(b) \/ Close(b) \/ Crash(b)
    \/ CommandLineTakesProof
    \/ CommandLineReleasesProof

(* What an application's main thread does next by itself: it starts, and   *)
(* it shuts down.                                                          *)
Proceed(b) == ReconcileJob(b) \/ StartScheduler(b) \/ Close(b)

(* The main thread runs on.  While it serves, so does the scheduler thread *)
(* and a worker's time is limited; once it shuts down, neither is owed:    *)
(* the thread may hang in a check of a dataset or a model, the worker in   *)
(* anything.  A worker without an application ends.  Nobody owes the queue *)
(* a request, a signal, a crash or the end of a command-line run.          *)
Fairness ==
    \A b \in Boots :
        /\ WF_vars(Proceed(b))
        /\ WF_vars(mode[b] = "serving" /\ Run(b))
        /\ WF_vars(mode[b] = "serving" /\ LimitExceeded(b))
        /\ WF_vars(OrphanExit(b))

Spec == Init /\ [][Next]_vars
FairSpec == Spec /\ Fairness
=============================================================================
