---------------------- MODULE WorkflowQueueProperties ----------------------
(***************************************************************************)
(* What the job queue promises, stated over WorkflowQueue.                 *)
(***************************************************************************)
EXTENDS WorkflowQueue

Modes == {"off", "raised", "reconciling", "serving", "closing", "joining",
          "killing", "rejoining", "settling", "unlocking", "closed", "gone"}
BusyCounters == {"starting", "reporting", "spawning", "supervising", "reaping",
                 "finishing", "failing", "releasing", "raising"}
Counters == {"none", "idle", "polling", "halting", "dead"} \cup BusyCounters
ExitOutcomes == {"none", "completed", "stopped", "incomplete", "silent"}

Record == [status : Statuses, op : Operations, subject : Subjects \cup {NoJob},
           requested : JobActions \cup {NoRequest}, actions : SUBSET JobActions]
Mutation == [what : Operations \cup JobActions, about : Subjects \cup JobIds,
             key : Boots \cup {NoBoot}, job : JobIds]
Thread == [pc : Counters, job : JobIds \cup {NoJob}, packages : 0..2,
           outcome : ExitOutcomes, next : {"none", "finishing", "failing", "raising"}]
Child == [stage : LiveStages \cup {"none", "ended"}, job : JobIds \cup {NoJob},
          op : Operations, signalled : BOOLEAN, outcome : ExitOutcomes]

(* Every variable has its type; a scheduler thread has a job exactly while *)
(* it works on one.                                                        *)
TypeOK ==
    /\ jobs \in [JobIds -> Record]
    /\ mutations \in [ClientIds -> Mutation \cup {NoMutation}]
    /\ owner \in Boots \cup {NoBoot}
    /\ proof \in Boots \cup {NoBoot, CommandLine}
    /\ mode \in [Boots -> Modes]
    /\ closing \in [Boots -> BOOLEAN]
    /\ failed \in [Boots -> BOOLEAN]
    /\ secrets \in [Boots -> SUBSET JobIds]
    /\ cleanup \in [Boots -> BOOLEAN]
    /\ thread \in [Boots -> Thread]
    /\ child \in [Boots -> Child]
    /\ \A b \in Boots :
          /\ thread[b].job # NoJob <=> thread[b].pc \in BusyCounters
          /\ thread[b].pc = "reaping" => thread[b].next # "none"

-----------------------------------------------------------------------------
(* Safety *)

(* The queue runs one job at a time, over restarts, failed transactions    *)
(* and a shutdown that gave up on its scheduler: the table never shows two *)
(* running jobs.                                                           *)
OneRunningJob == \A i, j \in Having({"running"}) : i = j

(* submit_fetch refuses a second download while one is queued, running or  *)
(* paused: no resume, late runner or restart brings a second one back.     *)
OneActiveFetch == \A i, j \in ActiveFetches : i = j

(* remove_unused deletes outside the lock: as long as its flag is up, no   *)
(* fetch of this application is queued, running or paused.                 *)
CleanupExcludesFetch ==
    \A b \in Boots : owner = b /\ cleanup[b] => ActiveFetches = {}

(* Secrets follow the queue.  A queued encode or decode job has its        *)
(* secrets in the memory of the application that would run it: what an     *)
(* earlier boot accepted is interrupted before the scheduler starts, and   *)
(* next_job cannot see a job before its secrets are stored.  The store     *)
(* never refuses an accepted job (its capacity is the queue limit) and     *)
(* forgets the secrets of a job that was cancelled.                        *)
SecretsFollowQueue ==
    \A b \in Boots :
        /\ owner = b /\ Alive(b) /\ mode[b] # "closed" =>
               {j \in Having({"queued"}) : IsInference(j)} \subseteq secrets[b]
        /\ Cardinality(secrets[b]) <= MaximumInferenceJobs
        /\ secrets[b] \cap Having(Settled) = {}

(* A job that ended or paused has no worker left: its files can be reused, *)
(* removed or resumed; only an interrupted job may leave an orphan.  And a *)
(* worker of the live application is only signalled for a reason: the      *)
(* job's own stop, pause or cancel request, shutdown, or the reaping of a  *)
(* run that failed.                                                        *)
WorkersFollowJobs ==
    \A b \in Boots :
        /\ Live(b) => jobs[child[b].job].status \in {"running", "interrupted"}
        /\ thread[b].pc = "supervising" /\ child[b].signalled =>
               closing[b] \/ jobs[Active(b)].requested # NoRequest

(* A request has exactly its own effect.  What a job offers, the action    *)
(* handler supports, in every state the job passes (only on an interrupted *)
(* job a runner that outlived close may publish one more progress record,  *)
(* and its offer is refused); a pending request withdraws every offer, so  *)
(* a cancel is never replaced by a pause while it takes effect; a job is   *)
(* cancelled or paused only because exactly that was requested; and a      *)
(* request does not survive into the next run of a resumed download.       *)
ActionsHonoured ==
    \A j \in Accepted :
        /\ jobs[j].status # "interrupted" =>
               \A action \in jobs[j].actions : Supported(j, action)
        /\ jobs[j].status = "running" /\ jobs[j].requested # NoRequest =>
               jobs[j].actions = {}
        /\ jobs[j].status = "cancelled" => jobs[j].requested = "cancel"
        /\ jobs[j].status = "paused" => jobs[j].requested = "pause"
        /\ jobs[j].status = "queued" => jobs[j].requested = NoRequest

(* Each accepted job belongs to exactly one client request, and a retry,   *)
(* also one that reaches a later boot, is answered with the job of the     *)
(* very request it repeats: it never queues a second job, and an           *)
(* identifier used again for other work is a conflict.                     *)
RetryFindsItsJob ==
    /\ \A j \in Accepted :
           Cardinality({c \in ClientIds : /\ mutations[c] # NoMutation
                                          /\ mutations[c].job = j
                                          /\ mutations[c].what \in Operations}) = 1
    /\ \A b \in Boots, request \in Submissions \cup Commands :
           Replays(b, request) =>
               LET j == mutations[request.client].job IN
               IF request.what \in Operations
                 THEN jobs[j].op = request.what /\ jobs[j].subject = request.about
                 ELSE j = request.about

(* Only the owner of the queue's file lock writes jobs: a refused second   *)
(* application must leave the owner's jobs untouched, and close keeps the  *)
(* lock for a runner it could not stop.                                    *)
OnlyOwnerWrites ==
    \A b \in Boots :
        Alive(b) \/ mode[b] \in {"reconciling", "serving", "settling"} => owner = b

-----------------------------------------------------------------------------
(* The inductive invariant behind the safety properties *)

(* The file lock follows the thread that needs it.                         *)
LockFollowsThread ==
    \A b \in Boots :
        /\ thread[b].pc # "none" /\ mode[b] \notin {"closed", "gone"} => owner = b
        /\ Alive(b) => owner = b
        /\ mode[b] \in {"reconciling", "settling"} => owner = b
        /\ mode[b] = "serving" => thread[b].pc # "none"
        /\ mode[b] \in {"off", "reconciling"} => thread[b].pc = "none"

WorkingCounters == {"starting", "reporting", "spawning", "supervising", "reaping",
                    "finishing", "failing"}
Settling == {"settling", "unlocking", "closed"}

(* The job a thread works on is running, unless close has interrupted it   *)
(* beneath the thread.                                                     *)
WorkingJobStatus ==
    \A b \in Boots : thread[b].pc \in WorkingCounters =>
        \/ jobs[thread[b].job].status = "running"
        \/ jobs[thread[b].job].status = "interrupted" /\ mode[b] \in Settling

(* Beside a thread that may take a job, no job is running but its own.     *)
RunningIsActive ==
    \A b \in Boots, j \in Having({"running"}) :
        thread[b].pc \in {"idle", "polling"} \cup BusyCounters =>
            thread[b].pc # "releasing" /\ thread[b].job = j

(* A fetch that is being worked on blocks every other one, also after      *)
(* close has interrupted it: its runner may still pause it.                *)
WorkingFetchBlocks ==
    \A b \in Boots, i \in ActiveFetches :
        thread[b].pc \in WorkingCounters /\ IsFetch(thread[b].job) => thread[b].job = i

(* The strengthening of the safety properties that every step preserves.   *)
IndInv ==
    /\ TypeOK
    /\ LockFollowsThread
    /\ WorkingJobStatus
    /\ RunningIsActive
    /\ OneRunningJob
    /\ WorkingFetchBlocks
    /\ OneActiveFetch

-----------------------------------------------------------------------------
(* Steps *)

(* A settled job never changes again, and an interrupted one is never run  *)
(* or queued again: no late progress, failure report, retry or restart     *)
(* reopens a job whose outcome a client has seen.                          *)
EndedStaysEnded ==
    [][\A j \in JobIds :
          /\ jobs[j].status \in Settled => jobs'[j] = jobs[j]
          /\ jobs[j].status = "interrupted" =>
                jobs'[j].status \notin {"queued", "running", "absent"}]_vars

-----------------------------------------------------------------------------
(* The queue implements the abstract job ledger *)

LedgerPhase ==
    IF owner = NoBoot THEN "down"
    ELSE IF mode[owner] \in {"settling", "unlocking", "closed"} THEN "draining"
    ELSE IF thread[owner].pc = "none" THEN "recovering" ELSE "open"

Ledger == INSTANCE JobLedger WITH
              status <- [j \in JobIds |-> jobs[j].status],
              phase <- LedgerPhase

(* Every behaviour of the threads, workers and restarts is one the ledger  *)
(* allows: reconcile before accepting, one job at a time, one ending.      *)
ImplementsLedger == Ledger!LedgerSpec

-----------------------------------------------------------------------------
(* Progress, under FairSpec *)

(* A stop, pause or cancel request of a running job takes effect, at the   *)
(* latest when the worker's time limit passes, unless the application dies. *)
RequestTakesEffect ==
    \A j \in JobIds :
        jobs[j].status = "running" /\ jobs[j].requested # NoRequest
            ~> jobs[j].status # "running" \/ owner = NoBoot

(* A queued download, preparation, encode or decode job starts (or ends)   *)
(* although a command-line run holds the proof lock; a training-family job *)
(* waits for that run only.                                                *)
QueuedJobServed ==
    \A j \in JobIds :
        /\ jobs[j].status = "queued" /\ jobs[j].op \notin TrainingFamily
              ~> jobs[j].status # "queued" \/ owner = NoBoot
        /\ <>[](proof # CommandLine) =>
              (jobs[j].status = "queued" ~> jobs[j].status # "queued" \/ owner = NoBoot)

(* Shutdown ends also beside a scheduler thread or a worker that hangs at  *)
(* any step: close gives each of its waits a time limit.                   *)
CloseEnds == \A b \in Boots : mode[b] = "closing" ~> mode[b] = "gone"
=============================================================================
