--------------------------- MODULE InferenceAssets ---------------------------
(***************************************************************************)
(* What encode and decode jobs depend on: exported model pairs, the record *)
(* of installed ones, the expiring image store and the texts in memory     *)
(* (model_exports.py, model_installation.py, model_routes.py,              *)
(* inference_*.py).  Here the queue only orders the jobs; WorkflowQueue    *)
(* has its threads, its replays and its secrets.                           *)
(***************************************************************************)
EXTENDS Integers, FiniteSets, FiniteSetsExt

CONSTANTS
    ModelNames,       \* directories of exported pairs, and model_identifier
    Pairs,            \* compatibility_identifier
    InstallRequests,  \* client_request_identifier of installations
    ImageRefs,        \* image_ and encoded_ references
    InferenceJobs,
    ImageSizes,       \* sizes of uploads and of the imageFiles made from them
    StorageCap,       \* STORAGE_CAP_BYTES
    MaximumWaiting,   \* MAXIMUM_INFERENCE_JOBS
    RetentionTicks,   \* RETENTION_SECONDS
    MaxRestarts, MaxDeletions,  \* bounds: restarts, deleted pairs and removals of models
    Missing

VARIABLES
    pairs,      \* the verified pair in each export directory
    installed,  \* installed_models
    installs,   \* install_mutations
    removal,    \* remove_model between its look at the jobs and its delete
    imageFiles, \* the image directories
    writer,     \* who holds InferenceFileStore.lock to add an image
    admission,  \* who holds service.lock to accept a job: the job as it was resolved
    inference,  \* the encode and decode jobs
    running,    \* run_inference
    texts,      \* DecodedTextStore: the jobs whose text is kept
    upsets      \* counts restarts, and deletions

assetVars == <<pairs, installed, installs, removal, imageFiles, writer, admission, inference,
               running, texts, upsets>>
models == <<pairs, installed, installs, removal>>
queue == <<admission, inference>>

\* what a directory of an image holds: its bytes, its age and its record
Images == [size : Nat, age : Nat, record : BOOLEAN, purpose : {"cover", "encoded"}]

ASSUME AssetAssumption ==
    /\ {StorageCap, MaximumWaiting, RetentionTicks, MaxRestarts, MaxDeletions} \subseteq Nat
    /\ ImageSizes \subseteq Nat \ {0}
    /\ RetentionTicks > 0
    /\ Missing \notin ModelNames \cup Pairs \cup ImageRefs \cup InferenceJobs \cup Images

NoWriter == [pc |-> "none", image |-> Missing, by |-> "upload", size |-> 0, purpose |-> "cover"]
NoRunner == [pc |-> "none", job |-> Missing, made |-> Missing, image |-> Missing]
NoInference == [status |-> "absent", op |-> "encode", image |-> Missing, model |-> Missing,
                pair |-> Missing, overtaken |-> FALSE, result |-> Missing]

\* service.lock: cancel, start, complete and fail take it for one step
LockFree == admission = NoInference

Active(j) == inference[j].status \in {"queued", "running"}
Runner(pc) == running.pc = pc
RunnerTo(pc) == running' = [running EXCEPT !.pc = pc]
Mine == inference[running.job]

-----------------------------------------------------------------------------
(* Model pairs *)

\* export_models: a complete verified pair, renamed into place, never over another one
ExportModels(m, p) ==
    /\ pairs[m] = Missing
    /\ pairs' = [pairs EXCEPT ![m] = p]
    /\ UNCHANGED <<installed, installs, removal, imageFiles, writer, queue, running, texts, upsets>>

\* the user deletes an export
DeleteExport(m) ==
    /\ pairs[m] # Missing
    /\ upsets.deletions < MaxDeletions /\ upsets' = [upsets EXCEPT !.deletions = @ + 1]
    /\ pairs' = [pairs EXCEPT ![m] = Missing]
    /\ UNCHANGED <<installed, installs, removal, imageFiles, writer, queue, running, texts>>

\* install: one exclusive transaction. A retry answers with the model it named, and a
\* name that stands for another pair is refused; neither is a step
Install(r, m) ==
    /\ installs[r] = Missing /\ pairs[m] # Missing
    /\ installed[m] \in {Missing, pairs[m]}
    /\ installed' = [installed EXCEPT ![m] = pairs[m]]
    /\ installs' = [installs EXCEPT ![r] = m]
    /\ UNCHANGED <<pairs, removal, imageFiles, writer, queue, running, texts, upsets>>

\* a fault: jobs that wait do not count
FaultyModelInUse(m) ==
    \E j \in InferenceJobs : inference[j].status = "running" /\ inference[j].model = m

ModelInUse(m) == \E j \in InferenceJobs : Active(j) /\ inference[j].model = m

\* remove_model reads the list of jobs, and only then deletes.  It never takes the lock:
\* a job that is being accepted is not in the list, and one may be accepted before the
\* delete.  "overtaken" notes both, for the properties
LookAtJobs(m) ==
    /\ removal = Missing /\ ~ModelInUse(m)
    /\ upsets.deletions < MaxDeletions /\ upsets' = [upsets EXCEPT !.deletions = @ + 1]
    /\ removal' = m
    /\ admission' = IF admission.model = m THEN [admission EXCEPT !.overtaken = TRUE] ELSE admission
    /\ UNCHANGED <<pairs, installed, installs, imageFiles, writer, inference, running, texts>>

RemoveModel ==
    /\ removal # Missing
    /\ installed' = [installed EXCEPT ![removal] = Missing]
    /\ removal' = Missing
    /\ UNCHANGED <<pairs, installs, imageFiles, writer, queue, running, texts, upsets>>

\* _read: the record and the directory, whatever pair the directory holds by now
Resolvable(m) == installed[m] # Missing /\ pairs[m] # Missing

-----------------------------------------------------------------------------
(* The image store.  A swept image leaves its reference behind: none is given twice *)

SweptImage == [size |-> 0, age |-> RetentionTicks, record |-> FALSE, purpose |-> "cover"]

UsedBytes(files) == MapThenSumSet(LAMBDA i : files[i].size, {i \in ImageRefs : files[i] # Missing})
Expired(f) == f.age >= RetentionTicks
Swept(files) == [i \in ImageRefs |->
                    IF files[i] # Missing /\ Expired(files[i]) THEN SweptImage ELSE files[i]]

\* read_record: written, and not past its time
Stored(i) == imageFiles[i] # Missing /\ imageFiles[i].record
Readable(i) == i # Missing /\ Stored(i) /\ ~Expired(imageFiles[i])

\* store and publish_result: sweep, check the size, create the directory
BeginImage(i, purpose, size, by) ==
    LET files == Swept(imageFiles) IN
    /\ writer.pc = "none" /\ files[i] = Missing
    /\ UsedBytes(files) + size <= StorageCap
    /\ imageFiles' = [files EXCEPT ![i] = [size |-> 0, age |-> 0, record |-> FALSE,
                                       purpose |-> purpose]]
    /\ writer' = [pc |-> "write", image |-> i, by |-> by, size |-> size, purpose |-> purpose]

UploadImage(i, purpose, size) ==
    /\ BeginImage(i, purpose, size, "upload")
    /\ UNCHANGED <<models, queue, running, texts, upsets>>

\* a cover is prepared, and its PNG is not as large as what was sent
WriteImage ==
    /\ writer.pc = "write"
    /\ \E size \in IF writer.by = "upload" /\ writer.purpose = "cover"
                   THEN ImageSizes ELSE {writer.size} :
           imageFiles' = [imageFiles EXCEPT ![writer.image].size = size]
    /\ writer' = [writer EXCEPT !.pc = "record"]
    /\ UNCHANGED <<models, queue, running, texts, upsets>>

\* a fault: what was just written does not count yet
FaultyFits == UsedBytes(imageFiles) - imageFiles[writer.image].size <= StorageCap

\* an uploaded image is checked once more as it was prepared
Fits == writer.by = "upload" => UsedBytes(imageFiles) <= StorageCap

WriteRecord ==
    /\ writer.pc = "record" /\ Fits
    /\ imageFiles' = [imageFiles EXCEPT ![writer.image].record = TRUE]
    /\ writer' = NoWriter
    /\ running' = IF writer.by = "runner"
                  THEN [running EXCEPT !.pc = "complete", !.image = writer.image] ELSE running
    /\ UNCHANGED <<models, queue, texts, upsets>>

\* a bad image, no space, an error of the disk: the directory goes
ImageFails ==
    /\ writer.pc # "none"
    /\ imageFiles' = [imageFiles EXCEPT ![writer.image] = Missing]
    /\ writer' = NoWriter
    /\ running' = IF writer.by = "runner" THEN [running EXCEPT !.pc = "failed"] ELSE running
    /\ UNCHANGED <<models, queue, texts, upsets>>

\* maintain, every so often
Maintain ==
    /\ writer.pc = "none" /\ Swept(imageFiles) # imageFiles
    /\ imageFiles' = Swept(imageFiles)
    /\ UNCHANGED <<models, writer, queue, running, texts, upsets>>

AssetTick ==
    /\ \E i \in ImageRefs : imageFiles[i] # Missing /\ ~Expired(imageFiles[i])
    /\ imageFiles' = [i \in ImageRefs |-> IF imageFiles[i] # Missing /\ ~Expired(imageFiles[i])
                                      THEN [imageFiles[i] EXCEPT !.age = @ + 1] ELSE imageFiles[i]]
    /\ UNCHANGED <<models, writer, queue, running, texts, upsets>>

-----------------------------------------------------------------------------
(* Jobs *)

\* submit_inference under the lock, first half: the image is for this operation and the
\* model is there; both may be gone when the job is saved, and when it runs
AdmitInference(op, i, m) ==
    /\ LockFree
    /\ Readable(i) /\ imageFiles[i].purpose = (IF op = "encode" THEN "cover" ELSE "encoded")
    /\ Resolvable(m)
    /\ admission' = [NoInference EXCEPT !.op = op, !.image = i, !.model = m,
                                        !.pair = installed[m], !.overtaken = (removal = m)]
    /\ UNCHANGED <<models, imageFiles, writer, inference, running, texts, upsets>>

\* second half: the queue is not full, and the job is saved as it was resolved
SaveInference(j) ==
    /\ ~LockFree /\ inference[j].status = "absent"
    /\ Cardinality({k \in InferenceJobs : Active(k)}) < MaximumWaiting
    /\ inference' = [inference EXCEPT ![j] = [admission EXCEPT !.status = "queued"]]
    /\ admission' = NoInference
    /\ UNCHANGED <<models, imageFiles, writer, running, texts, upsets>>

\* the pair is not for this size, the text is too long, the queue full, storage fails
RefuseInference ==
    /\ ~LockFree /\ admission' = NoInference
    /\ UNCHANGED <<models, imageFiles, writer, inference, running, texts, upsets>>

CancelInference(j) ==
    /\ LockFree /\ inference[j].status = "queued"
    /\ inference' = [inference EXCEPT ![j].status = "cancelled"]
    /\ UNCHANGED <<models, imageFiles, writer, admission, running, texts, upsets>>

StartInference(j) ==
    /\ LockFree /\ Runner("none") /\ inference[j].status = "queued"
    /\ inference' = [inference EXCEPT ![j].status = "running"]
    /\ running' = [NoRunner EXCEPT !.pc = "open", !.job = j]
    /\ UNCHANGED <<models, imageFiles, writer, admission, texts, upsets>>

\* resolve, verify_model_pair, image_path: all are read again when the job runs
OpenInputs ==
    /\ Runner("open") /\ Resolvable(Mine.model) /\ Readable(Mine.image)
    /\ RunnerTo("process")
    /\ UNCHANGED <<models, imageFiles, writer, queue, texts, upsets>>

\* the encoder or the decoder, from the directory as it is now
RunPackage ==
    /\ Runner("process") /\ pairs[Mine.model] # Missing /\ Stored(Mine.image)
    /\ IF Mine.op = "encode"
       THEN running' = [running EXCEPT !.pc = "verify", !.made = pairs[Mine.model]]
            /\ UNCHANGED texts
       ELSE RunnerTo("complete") /\ texts' = texts \cup {running.job}
    /\ UNCHANGED <<models, imageFiles, writer, queue, upsets>>

\* only the decoder that belongs to the encoder reads the message back
VerifyEncoding ==
    /\ Runner("verify") /\ pairs[Mine.model] = running.made
    /\ RunnerTo("publish")
    /\ UNCHANGED <<models, imageFiles, writer, queue, texts, upsets>>

PublishResult(i, size) ==
    /\ Runner("publish") /\ BeginImage(i, "encoded", size, "runner")
    /\ RunnerTo("saving")
    /\ UNCHANGED <<models, queue, texts, upsets>>

\* a missing input, a time limit, a model that cannot do it, a full store
InferenceFails ==
    /\ LockFree /\ running.pc \in {"open", "process", "verify", "publish", "failed"}
    /\ inference' = [inference EXCEPT ![running.job].status = "failed"]
    /\ running' = NoRunner
    /\ UNCHANGED <<models, imageFiles, writer, admission, texts, upsets>>

CompleteInference ==
    /\ LockFree /\ Runner("complete")
    /\ inference' = [inference EXCEPT ![running.job].status = "completed",
                                      ![running.job].result = running.image]
    /\ running' = NoRunner
    /\ UNCHANGED <<models, imageFiles, writer, admission, texts, upsets>>

\* the reader is done with a text, or its five minutes are over
DiscardText(j) ==
    /\ j \in texts /\ texts' = texts \ {j}
    /\ UNCHANGED <<models, imageFiles, writer, queue, running, upsets>>

\* the application ends at any point and starts again: files and records stay
RestartApplication ==
    /\ upsets.restarts < MaxRestarts /\ upsets' = [upsets EXCEPT !.restarts = @ + 1]
    /\ removal' = Missing /\ writer' = NoWriter /\ running' = NoRunner /\ texts' = {}
    /\ admission' = NoInference
    /\ inference' = [j \in InferenceJobs |->
           IF Active(j) THEN [inference[j] EXCEPT !.status = "interrupted"] ELSE inference[j]]
    /\ UNCHANGED <<pairs, installed, installs, imageFiles>>

-----------------------------------------------------------------------------
AssetInit ==
    /\ pairs = [m \in ModelNames |-> Missing] /\ installed = pairs
    /\ installs = [r \in InstallRequests |-> Missing] /\ removal = Missing
    /\ imageFiles = [i \in ImageRefs |-> Missing] /\ writer = NoWriter
    /\ inference = [j \in InferenceJobs |-> NoInference] /\ admission = NoInference
    /\ running = NoRunner /\ texts = {} /\ upsets = [restarts |-> 0, deletions |-> 0]

AssetNext ==
    \/ \E m \in ModelNames :
           \/ \E p \in Pairs : ExportModels(m, p)
           \/ DeleteExport(m) \/ LookAtJobs(m)
           \/ \E r \in InstallRequests : Install(r, m)
    \/ RemoveModel
    \/ \E i \in ImageRefs, size \in ImageSizes :
           \/ \E purpose \in {"cover", "encoded"} : UploadImage(i, purpose, size)
           \/ PublishResult(i, size)
    \/ WriteImage \/ WriteRecord \/ ImageFails \/ Maintain \/ AssetTick
    \/ \E op \in {"encode", "decode"}, i \in ImageRefs, m \in ModelNames :
           AdmitInference(op, i, m)
    \/ \E j \in InferenceJobs :
           SaveInference(j) \/ CancelInference(j) \/ StartInference(j) \/ DiscardText(j)
    \/ RefuseInference \/ OpenInputs \/ RunPackage \/ VerifyEncoding \/ InferenceFails \/ CompleteInference
    \/ RestartApplication

AssetSpec == AssetInit /\ [][AssetNext]_assetVars

-----------------------------------------------------------------------------
(* Properties *)

\* What docs/gui_training.md promises: removal is refused while a queued or running job
\* still uses the model, so the name still stands for the pair the job was accepted for.
JobsKeepTheirModel ==
    \A j \in InferenceJobs :
        Active(j) => installed[inference[j].model] = inference[j].pair

\* What holds instead: an active job loses its model, or has it replaced by another pair,
\* only if remove_model, from its look at the jobs to its delete, overlapped the job's
\* submission, from its look at the model to its save.  One that looks later finds the
\* job and is refused; one that deleted earlier left submit_inference no model to find.
LostOnlyToOverlap ==
    \A j \in InferenceJobs :
        Active(j) /\ ~inference[j].overtaken =>
            installed[inference[j].model] = inference[j].pair

\* The image store stays within its limit (but for an image that a restart left half
\* written) and serves what jobs were promised: the result of a completed encode is there
\* until it expires, and a text is kept only for a decode that ends as completed.
StoredImagesBounded ==
    /\ writer.pc = "none" =>
           UsedBytes(imageFiles) - MapThenSumSet(LAMBDA i : imageFiles[i].size,
                {i \in ImageRefs : imageFiles[i] # Missing /\ ~imageFiles[i].record}) <= StorageCap
    /\ \A j \in InferenceJobs : inference[j].status = "completed" =>
           IF inference[j].op = "encode"
           THEN LET f == imageFiles[inference[j].result] IN f.record \/ Expired(f)
           ELSE inference[j].result = Missing
    /\ \A j \in texts : inference[j].op = "decode" /\
           (inference[j].status = "completed" \/ (running.job = j /\ Runner("complete")))
=============================================================================
