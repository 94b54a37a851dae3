# StegoLab: a TLA+ model of the local application

StegoLab trains, evaluates and uses image-steganography models on one machine.
A FastAPI application (`src/backend_service`) accepts work from a browser
(`src/user_interface`), keeps it in a SQLite job table and runs it, one job at a
time, in worker processes. Data sets are downloaded or uploaded, prepared and
published in content-addressed directories. Everything that is durable is a file
or a database row, and everything may be interrupted: by a user, by a limit, by a
shutdown or by a crash.

This directory holds the specification of that behaviour, the TLC configurations
that check it on small instances, and TLAPS proofs for every instance. Paths below
are relative to `src/`; `bs/` stands for `backend_service/`.

## 1. Inventory

| Component | State | Operations | Talks to | Module |
|---|---|---|---|---|
| Job queue and supervision (`bs/workspace_jobs.py`, `workflow_*.py`, `dataset_fetch_jobs.py`, `inference_jobs.py`, `inference_runner.py`) | job table, accepted mutations, queue file lock, closing and failure flags, active job, worker process, secrets in memory | start, submit (three kinds), action, scheduler loop, worker supervision, close | browser by HTTP; worker by signal, progress files, exit and output; proof lock | `WorkflowQueue` |
| Job event feed and browser (`bs/workflow_routes.py`, `workflow_store.py`, `user_interface/src/contracts/job_merge.ts`, `hooks/use_workspace.ts`) | event rows, the stream's cursor, the page's merged jobs | a save appends an event; the stream polls; the page merges events, lists and answers | the job table | `JobFeed` |
| Download cache and publication of sources (`bs/dataset_sources/cache*.py`, `transfer.py`, `fetch*.py`, `bs/dataset_storage*.py`, `source_marker.py`) | partial directories, entries, markers, staging directories, the published folder | open or adopt a partial, append, verify, complete, remove; stage, recover, publish, reuse | fetch worker, cleanup request, cancelled jobs | `DatasetStore` |
| Materialization (`bs/dataset_sources/materialization*.py`, `archive_*.py`, `parquet_reader.py`) | staged files, counts, the marker | extract, copy, label, limit, write metadata, publish | fetch worker; later the inventory | `SourceMaterialization` |
| Preparation (`bs/dataset_preparation.py`, `dataset_scan.py`, `dataset_groups.py`, `dataset_reuse.py`, ...) | published revisions | scan, import, group, split, reuse, validate, publish | source folders | `DatasetPreparation` |
| Upload sessions (`bs/dataset_sources/upload_*.py`, `bs/dataset_upload_routes.py`) | session and request records, parts, archives, the file lock | create, receive, read, complete, discard, expire, sweep, resolve | browser; scheduler (sweep); fetch worker (reads an archive by path) | `UploadSessions`, `AbstractUploads` |
| Browser upload flow (`user_interface/src/contracts/dataset_upload_flow.ts`) | the remembered session, the parts known as stored | resume or create, send, compare digests, complete, abandon | upload sessions | `UploadFlow` |
| Model files and the inference store (`bs/model_exports.py`, `model_installation.py`, `model_routes.py`, `inference_files.py`, `inference_*.py`) | export directories, installed records, expiring images, texts in memory | export, install, remove, upload, publish a result, sweep, read a text | encode and decode jobs | `InferenceAssets` |
| CPU training budget and checkpoints (`bs/training_budget*.py`, `cpu_training.py`, `training_checkpoint*.py`, `workflow_preflight.py`) | proof lock, ledger of time per experiment, checkpoint directories | reserve, spend, charge, reconcile; save, index, prune; preflight | training workers, command line | `TrainingBudget` |
| Pilot budget and guard (`bs/pilot_budget*.py`, `pilot_guard.py`) | ledger of sessions and transfers, deadlines | start, confirm stopped, attest, transfer, observe; request a save, power off | operator, clock | `PilotBudget` |
| Pilot training (`bs/pilot_training*.py`, `pilot_sampler.py`) | sampler, generators, networks and critic, checkpoints | start, resume, fork, update, save | pilot operations | `PilotTraining` |
| Message protocol (`bs/message_*.py`, `payload_*.py`) | none | frame, seal, protect, interleave, repeat; vote, correct, open | encoder and decoder | `MessageProtocol` |
| Configuration (`bs/storage.py`, `routes.py`, `user_interface/src/components/configuration_panel.tsx`) | one row, the results of earlier changes, the page's form | save, reset, retry, read | browser tabs, API clients | `ConfigurationStore` |
| Registry and views, networks and evaluation, address policy and remote readers, package recovery proof, UI rendering, scripts | none that a state machine would show | | | section 10 |

What is hard in each:

* **Job queue.** HTTP handlers, the scheduler thread, the worker process, the
  shutdown sequence and a second application all write or want to write the same
  rows. The lock is released between reading a job and reporting on it; the
  shutdown gives up on a thread after a time and interrupts its job beneath it;
  the database may fail at any transaction; the process may die at any point and
  leave its worker behind. Correct means: one application writes, one job runs,
  at most one download is active, an ended job stays ended, an accepted request
  has exactly one job, a request has the effect it asked for and no other and
  takes effect, shutdown ends, and a queue restarts clean.
* **Event feed.** Events, lists and single jobs reach the page in any
  interleaving, also over reconnects: what it shows must not go back in time.
* **Uploads.** Every operation is a series of file changes, and a crash or a full
  disk may come between any two. A worker reads an archive while its session may
  be discarded. Requests the browser gave up on still reach the store. A
  complete session has its whole archive, an acknowledged part is never lost,
  storage is bounded and drains, and the browser reports as done only what it sent.
* **Data store.** The same for downloads and published folders, with workers that
  outlive their application, a cleanup that deletes entries, and two writers of one
  folder: an entry is what its manifest says, a folder what its marker says.
* **Preparation.** Linked images may not end in two splits; a reused revision must
  be the one that was asked for; what materialization publishes must be acceptable
  to the inventory, which has rules of its own.
* **Inference store.** Two writers of images, a limit that is checked late, expiry
  beside waiting jobs, a removal that looks first and deletes afterwards.
* **Budgets.** Time spent is never forgotten over crashes, and a retry never
  gives time back; the operator can always enter the stop of a session; the guard stops
  the host in time although clocks jump.
* **Training.** A resumed or forked run goes on with exactly the crops and bits
  that the uninterrupted run would have seen.
* **Messages.** Damage within the promised amount is repaired; nothing but the
  message that was sent is ever returned.
* **Configuration.** A retried save is applied once; a late answer or read does not
  replace what was confirmed.

`PROJECT.json` lists the hazards at their lines, with the properties for each.

## 2. Plan

In order, with the abstract specifications and theorems:

1. `WorkflowQueue`, the abstract `JobLedger` and the refinement as a theorem —
   done (sections 3 to 6).
2. `UploadSessions`, the abstract `AbstractUploads` and the refinement as a theorem; composed
   with the store, `UploadFlow` — done (section 7).
3. `DatasetStore`, the download cache together with staging and publication, for
   several workers at once — done (section 8).
4. The components that share no state with these: `TrainingBudget`, `PilotBudget`,
   `InferenceAssets`, `JobFeed`, `PilotTraining`, `DatasetPreparation`,
   `SourceMaterialization`, `ConfigurationStore`, `MessageProtocol` — done
   (section 9).
5. Theorems: every safety property that a passing run checks, of the queue, of the uploads
   and the browser's flow, of the data store, of both budgets, of models and images, of the
   settings, of the job feed, of pilot training, of materialization, of preparation and of
   messages — done (sections 6 to 9).

## 3. The job queue

### Modules

| Module | Content |
|---|---|
| `JobLedger` | the abstract specification: what the table promises, in eight kinds of step |
| `WorkflowQueue` | the detailed specification, one action per handler, scheduler step, worker step and shutdown step |
| `WorkflowQueueProperties` | types, invariants, action properties, the refinement mapping to `JobLedger`, liveness |
| `WorkflowQueueProofs` | the inductive invariants and eleven theorems |
| `WorkflowQueueRefinement` | the theorem that the queue implements `JobLedger` |
| `MCWorkflowQueue` | request mixes for TLC; used by `Fetch.cfg` and `MixedJobs.cfg` |
| `MCLiveness` | the queue or the upload store (section 7), for `Liveness.cfg` |

Operators named `Faulty...` are plausible faults of the definition that follows
them. No specification uses them. Each property is tried against one: with the
faulty definition in place, TLC finds the property violated.

### State

An application process is a **boot**. `mode`, `closing`, `failed`, `secrets`,
`cleanup` and `thread` are indexed by the boot and are lost with it (`Gone`);
`child` survives it until its watch thread notices (`workflow_worker.watch_parent`).
`jobs` and `mutations` are the SQLite tables, `owner` is the `flock` on
`.workflow.lock`, `proof` the `flock` of `ProofBudget`. A job row keeps status,
operation, subject, requested action and offered actions; results, metrics,
phases and messages are abstracted away, as no property tells them apart.

`mode` follows the lifespan of `application.py`: off, reconciling (inside
`start`), serving, or raised when start failed; closing, joining, killing,
rejoining, settling, unlocking inside `close_supervisor`; closed; gone.
`thread.pc` follows `run_scheduler`: idle (the check of `closing`), polling
(`next_job`), starting (`run_job`), reporting and spawning (an inference
package), supervising (`execute_command`'s loop), reaping (its `finally`),
finishing (`exit_changes`, the end of `run_job` and `run_inference`), failing
(`report_failure`), releasing or raising (the `finally` of the loop), halting
(`halt_for_storage`), dead.

### Actions and code

| Actions | Code |
|---|---|
| `TakeQueueLock`, `ReconcileJob`, `StartFails`, `StartScheduler` | `WorkspaceJobService.start` |
| `Submit`, `SubmitFetch`, `SubmitInference`, `Action` | `submit`, `submit_fetch`, `submit_inference`, `action` with `_action_changes` and `fetch_action_changes` |
| `BeginCleanup`, `EndCleanup` | `DatasetSourceService.remove_unused` |
| `CheckClosing`, `NextJob`, `Release`, `HaltForStorage`, `ReportFailure` | `run_scheduler`, `next_job`, `report_failure` |
| `RunJob`, `PopSecrets`, `ReportPhase`, `SpawnPackage`, `Progress`, `SendStop`, `LimitExceeded`, `Stall`, `Reaped`, `CollectExit`, `Finish`, `LoseStorage` | `run_job`, `run_fetch_job`, `run_inference`, `run_package`, `execute_command` |
| `ChildStart`, `ChildReport`, `ChildExit` | `workflow_worker`, the command it runs, `ProofBudget` |
| `BeginClose` to `Unlock` | `close_supervisor` |
| `Exit`, `Crash` | the end of the process |

### Decisions

* A block under `service.lock` is one step. `start` and the end of `close` save
  several jobs under the lock; each save is a step, since the process may die
  between them, and `Free` keeps the other users of the lock out meanwhile.
* Refusals, replays and failed transactions of a handler change nothing; they
  are stutters. `require_storage` runs before the lock is taken and therefore
  guards nothing inside; `action` does not read `closing`, so it is not a guard
  of `Action`.
* `service.wake` is left out: the idle wait is bounded by half a second, so it
  only makes the scheduler faster.
* The order of rows is the order of creation. A wall clock that goes backwards
  between two submissions is not modelled.
* The probe `proof_busy` is a read. That it holds the proof lock for an instant,
  in which a command-line run is refused, is not modelled.
* No handler is taken to wait for the lock until close has reconciled the queue,
  nor to run between the end of close and the exit of the process.
* A progress record read after the worker already ended is merged with its end.
* The files of a download are the subject of `DatasetStore`.
* A fetch record published by a runner that outlived close may put offered
  actions on an interrupted job (`bs/workflow_fetch_runner.py:150`): TLC finds
  it, and the handler refuses such an action, so `ActionsHonoured` asks for
  supported offers of the other jobs only.

## 4. Runs of the queue

All runs bound the table to `MaxJobs` rows and the processes to `MaxBoots`. Two
jobs are needed for every property that compares jobs, and two boots for a restart, a
refused second application and an orphan worker; a third of either adds no new
pair. One client identifier stands for one request; four of them let two
requests and two actions be sent. `MaximumInferenceJobs` is 1 (8 in the code):
the limit is then reached with two requests. `CHECK_DEADLOCK` is off because the
system may stop: when the last boot has gone, nothing is left to happen.

| Run | Instance | Shows |
|---|---|---|
| `Fetch` | 2 downloads, pause, resume and cancel, cache cleanups, 2 boots, storage may fail | `OneActiveFetch`; `CleanupExcludesFetch`; `WorkersFollowJobs`; `ActionsHonoured`; `EndedStaysEnded`; the queue implements `JobLedger` |
| `MixedJobs` | training, evaluation, encode and decode, one identifier sent with two payloads, queue limit 1, stop and cancel, a command-line user of the proof lock, 2 boots | `OneRunningJob`; `OnlyOwnerWrites`; `SecretsFollowQueue`; `RetryFindsItsJob` |
| `Liveness` | a training run before or behind a download, 1 boot, a command-line user that may keep the proof lock, fairness (and the upload store, section 7) | `RequestTakesEffect`; `CloseEnds`; `QueuedJobServed` |

They have 1.1 million, 2.5 million and (with the upload store) 140 000 states.
Liveness needs no second boot: a request or a close of a boot that dies is over. A
failing database is exercised with downloads, whose handlers and scheduler make
the same kinds of transaction as the others'.

### Fairness

`Fairness` assumes weak fairness of what the operating system or a timer drives: the main
thread through start and shutdown (`Proceed`); while the application serves, the scheduler
thread (`Run`) and the time limit of a worker (`LimitExceeded`: every command has one,
`workflow_execution.TIME_LIMITS`, `inference_execution.PROCESS_TIMEOUT_SECONDS`); and the
end of an orphan (its watch thread polls the parent). Nothing is assumed of clients, of
signals reaching their target, of workers ending by themselves, of crashes, of the database
or of the command-line user. So a stop takes effect because of the time limit, not because
workers are obedient.

Once the shutdown has begun, the thread and the worker are owed nothing: either may hang at
any step, the thread in a check of a large dataset, the worker whatever it is sent.
`CloseEnds` therefore rests on the time limits of `close_supervisor`'s two joins, and its
mutant (`FaultyBeginSettle`) is a join without one: the shutdown then waits for a thread
that never ends. A lock held over a join would only delay the shutdown, as the joins are
limited, so no property is about it.

## 5. The ledger's refinement

`JobLedger` knows rows and the phase of ownership: down, recovering, open,
draining. The mapping takes the status of each row, and reads the phase from the
owner of the file lock: none is down, a mode from settling on is draining,
before the scheduler thread exists it is recovering, else open. Every step of
every thread, worker and handler is a ledger step or a stutter. The ledger also says what
the code does not promise: while draining, the runner that outlived the
shutdown may overwrite "interrupted" with the outcome the worker really had
(`LateResult`). `Cancel` and `Resume` need an open phase; `Run` needs that nothing
else runs.

## 6. Proofs about the queue

`WorkflowQueueProofs` proves, for all values of the constants that satisfy the
three assumptions of `WorkflowQueue` (positive bounds, well-typed requests,
distinct null values):

* `Inductive`: `Spec => []IndInv`
* `TypeCorrect`, `OwnerWrites`, `AtMostOneRuns`, `AtMostOneFetch`: `TypeOK`,
  `OnlyOwnerWrites`, `OneRunningJob` and `OneActiveFetch` always hold.
* `RequestsHonoured`, `EndingsAreFinal`, `CleanupIsExclusive`, `WorkersFollow`,
  `RetriesFind`, `SecretsFollow`: so do `ActionsHonoured`, the action property
  `EndedStaysEnded`, `CleanupExcludesFetch`, `WorkersFollowJobs`, `RetryFindsItsJob` and
  `SecretsFollowQueue`. These are all the safety properties of the queue.

None of the state properties is inductive by itself. One running job needs that a
thread about to take a job knows of no other running one (`RunningIsActive`);
this needs that only one boot has a live thread, which is what the file lock
gives (`LockFollowsThread`: close keeps the lock for a thread it could not stop),
and that a restart leaves nothing running before its thread exists. One active
download needs in addition that a runner that works on a download excludes every
other one even after close interrupted its job (`WorkingFetchBlocks`), because that
runner may still end it as paused; and that the job beneath a runner is running,
or interrupted by a boot that no longer admits requests (`WorkingJobStatus`).
`IndInv` is the conjunction.

The proof has a lemma per group of actions and part of the invariant: the types
(`StartType` to `TypeOKStep`), the lock (`LockStart` to `LockStep`), the queue
(`QueueStart` to `QueueStep`). Steps that start or end no job share
`QueueMoves`; the others are `QueueInterrupts`, `QueueAccept`, `QueueAction`,
`QueueTakes` and `QueueEnds`.

`WorkflowQueueRefinement` proves `Implementation`: `Spec => ImplementsLedger`. The
initial state maps to the ledger's, and under `IndInv` every action maps to a ledger
step or a stutter (`StartImplements`, `HandleImplements`, `RunImplements`,
`CloseImplements`, ... joined in `StepImplements`). The lemmas about the phase say
when it is what: a serving owner is in phase open, a boot with a live thread is in
phase open or draining, and a step that moves neither owner, mode nor thread keeps
the phase. `IndInv` is what makes a step legal in the ledger: taking a job needs
that nothing runs (`OneRunningJob`), ending one needs that it runs or was
interrupted while draining (`WorkingJobStatus`), and both need that the boot owns the
table (`OnlyOwnerWrites`).

The later theorems rest on a relation: `RowStep` lists the ways in which a step of a
boot changes the table (a job is accepted, taken, asked, cancelled, resumed,
interrupted, ended, or reports), and `BootRows` proves that no action does anything
else. Each property then adds the invariant it needs to `IndInv`:

* `RowsHonoured`: what each row says of its own requests; kept by each way a row changes.
* `CleanupInv`: the boot that cleans works on no download, for the end of a runner is the
  only way in which a download could become active beside the cleanup.
* `WorkerInv`: a worker is supervised by its thread or an orphan (`ChildrenPlaced`), no
  thread takes the job of an orphan (`OrphansAlone`), a signal has a reason.
* `RetryInv`: a remembered request points to the row it made or changed, and a row has
  one submission.
* `SecretsInv`: the secrets of a queued job are in the memory of the boot whose thread
  would run it, are handed over once, and are lost with the boot; a submission counts at
  least the jobs that have some, so there are no more than the queue accepts.

Only model-checked: liveness, which the proof system cannot do under fairness.

## 7. Uploads

### Modules

| Module | Content |
|---|---|
| `AbstractUploads` | the abstract specification: sessions that are opened, finished and ended once, answers about them, and a worker that imports what it was told |
| `UploadSessions` | the store: each operation broken into the file changes a crash can separate; the sweep; the fetch worker's use of an archive |
| `UploadSessionProperties` | types, invariants, action property, the refinement mapping to `AbstractUploads`, liveness |
| `UploadSessionProofs` | the inductive invariant `IndInv`, seven theorems from it, and the theorem that the store implements `AbstractUploads`, with the invariant it rests on |
| `UploadFlow` | the browser's flow, the wire between, and the store beneath; its properties |
| `UploadFlowProofs` | the inductive invariant `FlowInv` of flow and store together, and four theorems |
| `MCUploadSessions`, `MCUploadFlow` | create requests for TLC |

### State and actions

`dirs`, `record`, `part`, `archive` and `pointer` are the files under the upload
root: session directories, `session.json`, the chunk files, `archive.bin` and
`requests/<client request identifier>`. `op` is the operation that holds the file
lock and the file change it comes to next; `reply` is its answer. `reader` is the
worker of a fetch job, which loads the record twice under the lock
(`upload_source.resolve`) and then opens the path without it.

| Actions | Code |
|---|---|
| `Create`, `MakeDirectory`, `SaveNewRecord`, `WriteRequest` | `UploadStore.create` |
| `Receive`, `CreatePart`, `WritePart`, `SaveReceived` | `receive_chunk`, `write_chunk` |
| `Read`, `Complete`, `DropParts`, `SavePresent`, `StartArchive`, `CopyPart`, `UnlinkPart`, `CheckArchive`, `SaveComplete`, `RemoveChunks` | `read`, `complete`, `verified_parts`, `assemble` |
| `Discard`, `Sweep`, `SweepSession`, `RemoveStaleRequest`, `EndSweep`, `RemoveFile`, `RemoveDirectory`, `RemoveRequest` | `discard`, `sweep`, `remove_session` |
| `WorkerRead`, `WorkerPath`, `WorkerOpen`, `WorkerEnd` | `upload_source.resolve` and the import |
| `Choose`, `Cancel`, `LoseAnswer`, `LeavePage`; `Reading`, `Creating`, `Sending`, `Completing`, `Refused` on an answer | `upload_dataset_archive`, `resume_or_create`, `send_part`, `abandon_upload` |

### Decisions

* Sizes are counted in parts, and a part that was begun counts as a whole one.
  With a capacity of whole parts the comparison comes out the same, except that
  a torn part may hold less. Indexes start from 1.
* An interruption is a crash or a file operation that fails: both release the
  lock and leave the files as they are. A crash is a killed process: what was
  written before it is there after it. Lost power, after which a file that was not flushed may be
  empty or old, is not modelled. The operation of an interrupted request is
  answered as `upload_storage`; after a crash the browser sees no answer, which
  is `LoseAnswer`.
* Writing a record or a request file is atomic (`replace`); creating and filling
  a chunk file is not, nor are the copy, the unlink and `rmtree`, which may visit a
  directory in any order.
* The clock is read when a record is loaded or swept, and only there; `expired`
  grows between operations and during them.
* Session identifiers are random: one used is never used again. The bound on
  `Sessions` shows as a store that is full, an answer the caller has to expect.
* `fate`, `answered`, `acked` and `checked` are history: properties read them, the
  code does not. `fate` tells a session that lives from one whose removal has
  begun, which the code tells by its place in the operation. `checked` are the parts
  whose digest the current attempt compared; an interrupted assembly of the session empties it,
  as the parts it moved have to be sent again.
* The browser has one file and one page; parts are sent in order. A request it
  gave up on stays on the wire and may be taken up at any time. What arrives may
  be damaged (`Arrivals`), as the digest check of `send_part` supposes.

### Runs

| Run | Instance | Shows |
|---|---|---|
| `UploadStore` | 2 sessions, 2 requests with one client identifier (2 parts with a checksum; 1 part), contents good and bad (no archive begins with a bad one), capacity 4, interruptions | `CompleteIsWhole`; `AcknowledgedPartKept`; `UsedWithinCapacity`; `ReplayFindsSession`; the store implements `AbstractUploads` |
| `Liveness` | 2 sessions, archives of 1 good part with a checksum, capacity 3, 1 interruption, fairness | `StorageDrains` |
| `UploadFlow` | 2 attempts at a file of 2 parts, 2 sessions, damage on the way, an interruption | `SkippedPartsStored`; `CheckedPartsAreTheFile`; `GivenUpCannotFinish` |
| `FlowDamagedPart` | 1 session, 2 attempts, no interruption | `CompletedIsTheFile` is violated (below) |

Two parts are the least with a first and a last one; a copy, an unlink and a
crash between them need no third. Two sessions of one client identifier give the
conflict, the replay and the session that an interrupted create left behind.

`FairSpec` assumes that an operation goes on (weak fairness of `Step`), that time
passes (of `Expire`), and that the sweep gets the lock in its turn (strong
fairness of `Sweep`: the scheduler asks for it on every round, and others hold the
lock for one operation only). Clients and workers owe nothing. `MCLiveness` runs the store
and the queue in one configuration: the first state chooses one, so that their states add up.

**Finding.** The comment of `send_part` (`user_interface/src/contracts/
dataset_upload_flow.ts:170`) promises that the backend stored exactly the bytes
that left the browser. The digest is compared with the answer. If the answer is
lost, the next attempt resumes the session, takes the part for stored because
the session lists it, and never compares it: an archive with a damaged part is
reported as done. `CheckedPartsAreTheFile` is what does hold.

Even the parts that the attempt itself compared are not safe without exception, which the instances
of the runs are too small to show and the attempt to prove it did. With five attempts and two
interruptions: an attempt compares a part; the late `complete` of an older attempt moves
that part to the archive, unlinks it and is interrupted; a damaged copy of the part, which a third
attempt had sent, arrives and is stored in the empty place. The current attempt completes,
and its own comparison says nothing of these bytes. Hence the rule for `checked` above.

Two more things the model shows, without a run of their own. A removal of a complete
session that is interrupted may leave its record without its archive; `read`
reports it as complete until it expires, and the worker refuses it. After an
interrupted assembly the parts already copied are missing, `complete` answers
`upload_incomplete`, and the browser discards the session, although sending those
parts again would finish it; `GivenUpCannotFinish` excepts this answer.

### Proofs

`UploadSessionProofs` proves every safety property of run `UploadStore` for any
finite sets of sessions and requests, any contents, any capacity and any number of
interruptions: `TypeCorrect`, `ArchivesWhole`, `PartsKept`, `CapacityKept`,
`ReplaysFind`, `WorkerReads`, and the action property `CompleteFinal` (the record and
the archive of a complete session change by removal only), which no run checks besides. All rest on
`RequestsAssumption` (a request has at least one part, an expected digest is that
of as many parts as it has, the markers are no contents, no archive and no call) and on
`Inductive`: `Spec => []IndInv`.

None of the promises is inductive alone, for an operation acts on what it saw when it
took the lock. `IndInv` adds what it may rely on between two file changes:

* `FilesFit`: a record has its directory, and a session with one was born; the
  archive of a complete record is the verified one or removed.
* `CreateFits`, `ReceiveFits`, `AssembleFits`, `RemoveFits`: at each step, what the
  session of the lock's holder looks like. A part to be copied is whole
  (`IntactFrom`), and room for one part is free before each copy. The cap is checked
  once, for one part, although the assembly copies all of them: the invariant
  says why that is enough, because the chunk file copied last has gone.
* `ReaderFits`: what the worker was told stays true of its session, which changes
  only by losing its files.

The lemmas follow this division. `LockEffects`, `StepAfterRequest`, `StepAfterStep`
and `StepAside` say where the holder of the lock can be after each kind of step, so
that a conjunct about other steps holds at once. `DiskSteps` and `FateSteps` separate the
steps that change files from those that begin or end a session's life; `FileEffects`
sorts the former by what happens to one session (kept, created, in progress,
finished, removed), and most promises then follow case by case. `UsedGrows`,
`UsedShrinks` and `UsedLoses` are about cardinalities; `RoomStep` and
`CapacityStep` bound the storage with them.

`StoreImplements` is the refinement: `Spec => ImplementsUploads`. `AbstractUploads` has no
lock, no files, no clock and no interruption. Under the mapping a session is open or complete as
its record says, gone when it has no record and its removal began, and none before. Its content is the
digest in the record, not the archive file, as an interrupted removal may leave the record
without the file. The answer is that of a create or a complete that succeeded; every other
answer shows nothing. `WorkerReadsDigest`, which `WorkerReads` proves too, is part of what it promises:
the worker imports the archive that it was told. What the abstract specification promises of answers is more than
`ReplayFindsSession` says, which excepts sessions whose removal has begun. An identifier moves to a new
session only when nothing of the last one can be found, also when the create before was
interrupted at any file. `IndInv` does not say that, and `AnswersRest` proves what is missing:
`Spec => [](IndInv /\ AnswersFit)`.

* `LastFound`: the session last answered to an identifier is in its request file as long as it
  has a record, and doomed when it has none.
* `LastGone`: while create makes a session or removes an expired one, the last session of its
  identifier is gone, or the one it removes.
* `CallsFit`, `ArchiveStarted`, `RecordGone`: an operation that ends well is answered as the call
  it is, a completed archive starts as an archive does, and a removed directory has no record.

Each step of the store then is at most one abstract step. `SessionSteps`, `AnswerSteps` and
`WorkerSteps` say so of the files, the answers and the fetch worker; `StepImplements` joins them.

`UploadFlowProofs` proves the three properties of run `UploadFlow` for any file, parts, sessions and
capacity, any number of attempts and interruptions, and whatever older attempts left on the wire:
`SkippedStored`, `CheckedAreTheFile`, and the action property `GivenUpForGood`. The flow
learns of the files only through answers, and acts on them when the files may
have changed again. `FlowInductive` therefore has to say, beside `IndInv` of the store:

* `CallFits`: the lock's holder works on the session it was called for, so that its answer is
  about that session;
* `ReplyFits` (lemmas `RequestAnswer`, `StepAnswer`): at the moment an answer is given, how
  the files are: which record there is, what the part holds, what can no longer be
  finished;
* `WireFits`, `MemoryFits`, `FlowFits`: requests and memory name sessions that were born,
  and the flow waits for an answer about its own session;
* `ListedStored`, `ReceivedStored`, `ChecksHold`, `DoneComplete`: what the flow took from an answer
  stays true while the session lives. A part listed or acknowledged is a chunk, or in the
  archive of an interrupted assembly (`Stored`); a part compared keeps its bytes as
  a chunk, then in the archive (`Holds`), until the assembly is interrupted.

`KeptPromises` shows the last four for every step of the store whoever asked for it, `RelayStep` for the
answer that the flow takes.

Only model-checked: the liveness properties, which the proof system cannot do
under fairness.

## 8. The data store

`DatasetStore` models what fetch workers, the application's cleanup and a
cancelled job do to the download cache and to the raw source folder.
`DatasetStoreProperties` states what must hold, `MCDatasetStore` the instances.

A file is a sequence of chunks and a digest is the sequence that was hashed. `partial` and
`entry` are the directories `<identity>.partial` and `<identity>` of each asset,
`folder` is `data/<source name>`, `stage` the staging directory of each worker with
its owner and run markers; `cacheLock` and `dataLock` are the two file locks. A
worker holds its part file open: when the file is renamed with its directory, or
removed, the descriptor follows it, and this is what makes two workers dangerous
for each other.

| Actions | Code |
|---|---|
| `Begin`, `Needs`, `Next1` | `reusable_source`, `asset_needs`, the loop of `ensure_assets` |
| `OpenPartial`, `Connect`, `Import`, `Refused`, `Receive`, `Received`, `Unusable` | `open_partial`, `download_asset`, `import_file`, `_download` |
| `Complete`, `AdoptEntry`, `Seal`, `WriteManifest`, `PublishEntry` | `complete`: the check, then under `.cache.lock` an entry that is there, or the renames that make one |
| `Enter`, `RecoverStaging`, `Mark`, `Fill`, `WriteSourceMarker`, `Publish`, `Leave`, `Exit` | `DatasetWriter`, `recover_staging`, `create_owner_marker`, `materialize`, `publish`, `__exit__` |
| `Terminate`, `Crash` | SIGTERM or SIGINT; a kill |
| `DiscardPartials`, `Collect`, `Clear`, `ClearHalf` | a cancelled job; `remove_unused`: the look, the deletion, a deletion that stops half way |

Decisions. All fetches of a behaviour name one source (`plan`) and one folder and
differ in their selection, hence in the identity of the folder they want; each
worker runs one fetch. Resolving names, refusals for lack of disk space and the
phase that prepares the folder are outside. The `EEXIST` branch inside
`complete`, after the lock was taken, cannot be reached and is not modelled. The
members of an archive are `SourceMaterialization`'s subject.

| Run | Instance | Shows |
|---|---|---|
| `DatasetStore` | a job and a command-line fetch with another selection or without resuming, 2 workers; two files of two chunks, one of known checksum, or one upload; 2 faults, 1 cleanup | `EntriesMatchManifest`; `FolderMatchesMarker`; `StagesRecoverable`; `FinishedFetchHasFolder` |
| `StoppedDownload` | an honest server, 1 fault | `StoppedDownloadResumes` is violated |
| `SharedDownload` | two workers with one selection, no fault | `EntriesMatchManifest` is violated |

Two chunks are the least with a middle to stop in; two workers the least that can meet;
two faults give a crash during the recovery from a crash. `SharedPartials` is FALSE in
the passing run: it assumes that two live workers never hold the same
unfinished file. The queue guarantees that for its own jobs (`OneActiveFetch`), and
nothing does for the command line; `SharedDownload` takes the assumption away.
`FolderMatchesMarker` promises a file of unknown checksum only while no cleanup ran: a
cleanup between two reads of a folder's maker can replace such a file by a newer one.

**Findings.** `StoppedDownload`: a signal after the last bytes arrived and before
the file became an entry leaves a part file of full length. The next fetch asks for
the range after its end, is refused (`download_status`), keeps the file, and so is every
later one, although `docs/datasets.md` promises a later resume. `SharedDownload`:
`open_partial` adopts an unfinished download whoever owns it; what one worker still
appends ends up in the entry that the other one verified and published, which
`cache.py` calls immutable and checksum-verified.

### Proofs

`DatasetStoreProofs` proves the four properties of run `DatasetStore` for any workers,
plans, sizes and checksums and any number of faults and cleanups.

* `StageInvariant`: `Spec => []StageInv`, from which `StagesAreRecoverable` and
  `FinishedFetchesHaveTheirFolder`. This part needs the lock of the data root only:
  `StagesFit` says that its holder, and nobody else, is between two steps of a stage,
  that the other stages are empty once it has recovered them, and that the owner marker
  comes before the directory and goes after it, so whoever stops anywhere leaves a stage that the
  next writer knows. A fetch reads the folder's marker before it reports success (`EndsFit`).
* `CacheInvariant`: `SharedPartials = FALSE => (Spec => []CacheInv)`, from which
  `EntriesMatchTheirManifest` and `FoldersMatchTheirMarker`. The hypothesis is the
  one of the passing run; run `SharedDownload` shows that it is needed. `Bytes` follows the
  bytes from the part file through the digest and the renames to the entry: what a
  worker hashed is what lies there, unless a cleanup removed it, and under the cache
  lock the entry is absent until its rename. `Holds` and `Fills` go on to the folder: the
  digests a fetch relies on are those of the entries as long as no cleanup ran, and of the
  known checksums always.

## 9. The other components

Nine components keep state of their own and share none of it. `MCComponents` runs
them in one configuration, `Components`: the first state chooses a component and
all later steps are its own, so the states are those of the nine one after the
other, and `AtRest` fixes the others in one of their first states. They share their
model values, so that one small symmetry (of inference jobs, and of image
references) serves; the permuted values have no order anywhere and are used by
the other components only where all of them are alike. The run has 1.6 million states.

### `TrainingBudget`: time and checkpoints

`ledger` is `ledger.json` with its reservation, `shelf` the checkpoint directories,
`work` the process that holds `.proof.lock`, `trueTime` history. `EnterBudget` is
`ProofBudget.__enter__` with `_reconcile`, `_startup_retry` and the reservation in one write;
`ExitBudget`, `PersistFails` its exit. `LoadSession`, `TrainStep`, `StopSignal`, `LeaveLoop` are
`run_training`; `StageCheckpoint`, `WriteCheckpoint`, `PublishCheckpoint`, `WriteIndex`,
`PruneCheckpoints`, `CheckpointFails` the file operations of a save; `TrainerKilled` may come
between any two. `TimeAccounted`, `CheckpointsRestorable`,
`PreflightKeepsItsWord` are its properties.

Time is counted in saves. Loading data is not counted; pins of checkpoints are not
used by training and left out; a failure after a rename has the effect of `TrainerKilled` at
that point. That the reserve covers one late step and the saves is an assumption
(`BudgetAssumption`), for no code enforces it. Two experiments may register and three exist, so the
registry fills; one crash meets every step of a save and of a reservation.
`PreflightKeepsItsWord` compares one thing, preflight's copy of the rules with the budget's own: a start
that was found possible is not refused, unless another run came first or a reservation awaits recovery.

`BudgetProofs` proves the three properties for any limits, experiments, intervals, scores and
crashes under `BudgetAssumption` (`TimeIsAccounted`, `CheckpointsAreRestorable`,
`PreflightKeeps`), from `BudgetInvariant`: `BudgetSpec => []BudgetInv`. `PhaseFits` ties the
place of the process to the reservation, which is pending exactly from its write to the exit.
`UsedCovered` is the core: the used time is within what was spent plus the usable part
of the reservation, which is the time elapsed while the process lives and all of it
after it died. `Reserve` says how much room is left before each file operation of a save; it
is why a late step and its saves fit the reservation. `LedgerAdds` is a statement about a sum over
the registered experiments, `ShelvesFinite` gives a fresh name for a checkpoint,
and `SavingFits` says that what a save publishes next is not what it prunes.

### `PilotBudget`: rented time and the guard

A command holds `.ledger.lock` from its read to its write and is one step;
`Consistent` is the set of validators without which nothing is saved. The guard
keeps its deadlines as monotonic time left, wakes every unit, and shortens them only. The wall
clock may be set once. Times start well above the reserves, as real ones do. `StopAlwaysConfirmable`,
`SpendingWithinAllocations`, `GuardStopsInTime`.

`BudgetProofs` proves them too, for any stages, seconds, transfers, clocks and commands
(`StopsAreConfirmable`, `SpendingIsWithin`, `GuardIsInTime`), from `PilotInvariant`. That
the ledger is consistent is an invariant because every save checks it. What must be
proved is what follows from it: that a stop is always accepted, that two
sessions are apart although the validators compare neighbours only, and that a stage is charged
no more than its allocation and the overrun of its sessions. The first session that fails
(by the least of the counterexamples) leads to a contradiction in each of them. `GuardFits`
bounds the guard's deadlines by the time it started with and by the deadline it last read.

### `InferenceAssets`: models, images, texts

`pairs` are the export directories, `installed` and `installs` the records,
`imageFiles` the images with their age, `writer` who adds one, `inference` the jobs, `running` the
runner, `texts` the decoded texts. The queue only orders jobs here. An export is
one step, for its stage is renamed into place; one removal is under way at a
time; scratch folders, the bounds of texts and passwords and the capacity of an image are outside. An
installed record may outlive its directory, and an image may expire while its job waits:
both are read again when the job runs (`OpenInputs`, `RunPackage`). `StoredImagesBounded`
says what remains of limit and expiry.

`submit_inference` runs under `service.lock` in two steps: `AdmitInference` finds image
and model (`bs/inference_jobs.py:93`), `SaveInference` saves the job (`:118`), and
`RefuseInference` gives up in between; `admission` is the request meanwhile, and the other
users of the lock wait (`LockFree`). `remove_model` takes no lock: `LookAtJobs` reads the list
(`bs/model_routes.py:75`), `RemoveModel` deletes (`:83`), and either may come between the steps
of a submission.

**Finding.** `docs/gui_training.md:148` promises that removal is refused while a queued or
running job still uses the model (`JobsKeepTheirModel`). The run `RemovedModel` (1 model, 1 image,
1 job, no restart) violates it: a request has found the model, `remove_model` finds no job and
deletes the model, and the request saves its job. The job is queued without a model and fails when it
starts. The other order does the same: `remove_model` has looked, a job is accepted, the model goes.

`LostOnlyToOverlap`, checked in `Components`, bounds the damage: a job loses its model, or
finds another pair under its name, only if the removal, from look to delete, overlapped the job's
submission, from look to save (`overtaken`). Installations, deleted exports, restarts and every
removal that begins later leave a job its model. `BudgetProofs` proves it for all models,
images and jobs (`ModelsLostOnlyToOverlap`). The invariant adds types and `RequestsFit`:
a request, in submission or active, that no removal overlapped has its model installed,
and no removal is about to delete it.

It also proves `StoredImagesBounded`, for any images, sizes, limits, jobs and restarts
(`StoreIsBounded`). The property speaks of the moments when nobody writes; `StoreInv` says how they
are reached. The images with a record fit at every moment (`RecordedFit`). The runner
counts its result before it writes it and does not look again, an upload looks again when it is
prepared: `WriterFits` says what the first count is still worth, since the writer's
directory holds no bytes before and nobody else adds any. `RunnerFits` ties the runner to the
writer and to its job, and a published image is never the one that is being written
(`Published`), so a failed write cannot take a result away. Sums over the images present are
compared with `SumParts`, `BytesWithout` and `SweptBytes`.

### `JobFeed`: what a page shows

A snapshot of a job is known by its event number. `SaveJob` writes row and event
in one transaction; `SendEvents` polls a page of events after the cursor;
`AnswerList` and `AnswerJob` are requests beside the stream, in any order; `MergeJobs` is
`job_merge.ts`. The page may reload. A replaced database is not modelled. `PageFollowsJobs`.

`ComponentProofs` proves it for any number of jobs and events, any size of a page of events, and
any losses (`PageFollows`). `FeedInv` says what is on the way: the events sent and
not yet received continue the page's cursor without a gap, unless they begin with a
snapshot, which shows everything up to its own number (`StreamLeads`); every list
that is shown, sent or answered is made of snapshots that were saved (`Snapshots`); and the page
shows all that its cursor says (`CursorShown`). Together with the merge, which
keeps the newer snapshot of each job (`Merged`), a list that arrives late does no harm.

### `PilotTraining`: exact resume

A network is known by the crops and bits it has learned from, in order; the
sampler is translated with its rollover, the message generator is a counter, a
save is one step and pruning keeps any subset. `ResumeIsExact` compares every
checkpoint and live run with one uninterrupted run. Evaluation draws from no generator
of the training, and the critic is built without touching one; checkpoints of the time before the critic are left
out. Three crops, batches of two, and updates of two batches make epochs end within batches and updates.

`ComponentProofs` proves it for any photos, batch sizes, plan, experiments and processes
(`ResumesAreExact`). The sampler after a number of crops is a recursive function, which exists and
follows its equation by the least number for which it would not (`SamplersFollow`); hence where a
run stands in the stream of crops does not depend on how it came there (`SamplersAgree`), and a
batch is the next segment of the uninterrupted run (`BatchIsSegment`). `ResumeInv` says of
every run that payload, sampler and what was learned belong to the same point of that run
(`AtPoint`) and that the gradients are its next segment, and of every checkpoint that it
lies between two updates. The property alone is not inductive: it does not say that the
batches counted are those in the gradients.

### `DatasetPreparation` and `SourceMaterialization`

`DatasetPreparation` scans a folder, imports the images, joins those that share pixels or an
identity (`Link`, `Root`: the union-find of `dataset_groups.py`), gives each group a split, and reuses or
publishes a revision. Files may change between the two times they are read. Rejections of
header and decoder are one; the split of an undeclared group is any function of its
identifier; metadata is fixed after the start. `SplitsDoNotLeak` compares the groups with
the chains of links, defined without union-find. In run `ChangedSplits`
`PreparedAsRequested` is violated (**finding**): a folder prepared again with another mapping of
labels to splits is answered with the revision of the old mapping, which `_same_request` does
not compare.

`ComponentProofs` proves `SplitsDoNotLeak` for any finite set of files, any contents, labels and
mappings (`SplitsAreSafe`). That the union-find is right is an invariant of its loop (`Joins`),
kept by each link (`LinkJoins`, `ImageJoins`): the parents are a forest with a root and a depth for each
file (`Rooted`), where `find` ends in the root (`FindEnds`) because each walk is shorter than the
number of files; images whose common key was linked are in one tree; and a
set that no shared key leads out of has whole trees only. The chains of links reach the smallest such
set (`ChainsConnect`), so trees and chains agree (`GroupsAreChains`). The state
invariant `PreparationInv` adds that what is imported is what the scan saw.

`SourceMaterialization` is one run of `materialize`: members of archives, rows of shards,
loose files; names, labels, collisions, the limits of images and members; metadata
and marker. Byte limits and unreadable files are `MaterializationFails`; which images stay when
there are too many is any choice. `PublishedSourcePrepares` takes the published folder to
the inventory of the preparation. It is restricted to images that lie in no folder, or directly in the
one that labels them. With `a/b/y` and a folder `b` that is the label of others, a source is published
that the inventory refuses; so it is with a loose file `b/x` that has a label of its own, because a
key of `archive_splits` may be its name or its path (`asset_label`). Labels are simplified names, and
simplifying one again changes nothing (`MaterializationAssumption`; `upstream_label` in `plans.py`).

`ComponentProofs` proves it for any paths, labels, archives, shards and limits (`SourcesPrepare`).
What is in the stage is not what is in the account while an archive is being read: its members
are written as they come, and accounted for, or removed, at its end. `StageInv` therefore
separates the `Open` files from the `Settled` ones and says of these that their images
are those of the account and their texts as many as it counts (`Accounts`). Every action either
settles new files together with their entries (`SettleStep`) or changes neither (`CarryStep`). That no
two files of the stage share a path makes the counts of paths and of files one (`PathsCount`).
`LabelsFit` says where labels come from; with it the refusal of the inventory, a folder named
like the label of another image, cannot occur (`MetadataJoins`).

### `ConfigurationStore`: settings and retries

A value is the number of the accepted change, 0 for the defaults. Requests may be lost before or
after they arrive and stay on the wire after their page was reloaded. `ServeWrite`, `ServeRetry`
and `ServeScript` are the store's transaction; the rest is the page with its
query and mutation. `ConfirmedSettingsStay`. A retry is answered with its first
response, so a page may go back to its own last confirmed value, never behind it.

`ComponentProofs` proves it for any tabs, scripts, changes and bounds (`SettingsStay`).
`SettingsInv` adds that accepted changes and identifiers correspond one to one
(`ResultsPoint`, `AppliedOnce`), that the next identifier of a tab is new to the store, to
the wire and to the page (`IdentifiersNew`), that an answer on its way is the saved
response of its request, and that a read under way, and the result of a pending save, are
not older than what the page has confirmed (`PagesFollow`).

### `MessageProtocol`: frames, correction, the vote

The cipher is symbolic: `Authentic` opens what was sealed under the same password and
context. The Reed-Solomon codec is external; `CodecAssumption` states its distance, and
beyond half of it the codec fails or finds another word. A decoder's logits are bits, some
of them wrong (`DamagePixel`). The numbers are scaled: bytes of two bits, a code over
the field of four elements with two data and two parity symbols, messages of at most one
byte, whose length is written in two as in the code, and images of 17 and 20 pixels, so that
the last copies of the bits are incomplete. `MessageExactOrRefused` says
that an answer is the message or none, and that damage within as many neighbouring bytes of the
stream as all blocks together correct is repaired, which is what the interleaving is for.

`MessageProtocolProofs` proves for every layout that satisfies `LayoutAssumption`, every
codec that satisfies `CodecAssumption` and with `packbits` undoing `unpackbits`
(`PackingAssumption`; the provers have no axioms for powers of two, TLC evaluates it):

* `RoomForMessage`, `FrameOpens`, `BodyOpens`: a frame has room for every message that the
  capacity permits, and opens to that message alone.
* `NoGuess`: `MessageSpec => []NoGuessedText`, whatever is damaged and whoever reads. The
  invariant is that what was sent is the frame of a permitted message.
* `ExactOrRefused`: `MessageSpec => []MessageExactOrRefused`. Each byte of a block has a place
  of its own in the stream (`PlacesApart`, `StreamOf`); so a burst shorter than half the parity of all blocks
  together meets at most that many bytes of each (`FewColumns`). A byte outside it is
  read as it was sent, since each of its bits has a majority of right copies (`VoteRight`,
  `ByteRecovered`). Two words at most half the parity from what was received are at most
  the parity apart, hence equal (`WordsDiffer`, `OneWord`), so each block is found again
  (`BlockFound`), the frame is what was sent (`FrameRestored`, `FrameFound`) and opens to its
  message (`ReaderOpens`). The invariant adds to that of `NoGuess` that the pixels carry the
  frame that was sent (`Carried`) and that a reading after such damage has the message
  (`ReaderHasIt`).
* `ProductionCapacity`: with the numbers of the code, every image of at least 512 by
  512 pixels is supported, and its capacity is within the bounds that the record
  `PayloadCapacity` states.

## 10. Proved, checked, not modelled

**Proved** for every value of the constants that satisfies the named assumptions: all
safety properties of the queue and its refinement (sections 5 and 6), of the upload store with its
refinement and of the browser's flow (section 7), of the data store (section 8; the bytes under `SharedPartials = FALSE`), of
both budgets, of models and images, the settings, the job feed, exact resume, published sources,
the splits of a dataset and messages, and `ProductionCapacity` (section 9).

**Only model-checked:** liveness, which the proof system cannot do under fairness
(`RequestTakesEffect`, `CloseEnds`, `QueuedJobServed`, `StorageDrains`). Five promises that
the code does not keep are refuted by TLC on small instances: `FlowDamagedPart`, `StoppedDownload`,
`SharedDownload`, `ChangedSplits` and `RemovedModel`.

The library's induction theorems take an operator as parameter, which no installed
prover can instantiate. Statements about all finite sets or all prefixes are proved here by a least
counterexample instead, from the theorem that a well-founded relation has minimal elements
(`SmallestSubset`, `SmallestNat`, `Smallest`): sums over sets in the budgets and the image store, neighbours in
the ledger of sessions, the latest snapshot of a job, and what the recursive functions of the
sampler, of the union-find and of the chains of links compute.

External, modelled from how the code uses them: the Reed-Solomon codec, the exported networks
(which bits are read wrongly), and a user who deletes an export directory.

**Observations** that no property covers. A run of the command line that starts while
`workflow_lock.proof_busy` holds the proof lock is refused. The first save of a pilot run leaves its
lock file even if the save fails; the next start is then refused and there is nothing to
resume (`bs/pilot_training.py:48`; the model has it as `TouchDirectory`). A model
directory that is replaced under an installed name is used as it is now; the
verification at the start of each job decides.

**Not modelled:**

* Package recovery proof (`model_export_recovery.py`): independent trials whose outcomes
  are counted at the end.
* Workspace registry and views: computed from files on each request.
* Networks, training arithmetic, critic, evaluation: numeric code on tensors.
* Address policy, remote readers, plans: parsing of external input; what a plan names
  is a constant of the modules above.
* Rendering of the user interface; its state that outlives a render is in `JobFeed`,
  `UploadFlow` and `ConfigurationStore`.
* Contracts, documents, scripts, container files.
