------------------------ MODULE WorkflowQueueProofs ------------------------
(***************************************************************************)
(* TLAPS proofs of the safety of WorkflowQueue, for every bound and every  *)
(* set of requests.                                                        *)
(***************************************************************************)
EXTENDS WorkflowQueueProperties, FiniteSetTheorems, TLAPS

(* The initial state has every type. *)
LEMMA TypeOKInit == Init => TypeOK
<1> SUFFICES ASSUME Init PROVE TypeOK
    OBVIOUS
<1>1. jobs \in [JobIds -> Record]
    BY DEF Init, NoRecord, Record, Statuses, Operations
<1>2. mutations \in [ClientIds -> Mutation \cup {NoMutation}]
    BY DEF Init
<1>3. thread \in [Boots -> Thread]
    BY DEF Init, NoThread, Thread, Counters, BusyCounters, ExitOutcomes
<1>5. \A b \in Boots : /\ thread[b].job # NoJob <=> thread[b].pc \in BusyCounters
                       /\ thread[b].pc = "reaping" => thread[b].next # "none"
    BY DEF Init, NoThread, BusyCounters
<1>4. child \in [Boots -> Child]
    BY DEF Init, NoChild, Child, ExitOutcomes, LiveStages, Operations
<1> QED BY <1>1, <1>2, <1>3, <1>4, <1>5 DEF Init, TypeOK, Modes

(* The record updates the actions make keep the job table well typed. *)
LEMMA ChangedType ==
    ASSUME jobs \in [JobIds -> Record], NEW j \in JobIds,
           NEW s \in Statuses, NEW a \in SUBSET JobActions
    PROVE  Changed(j, s, a) \in [JobIds -> Record]
BY DEF Changed, Record


(* ... and so do the updates that record a requested action. *)
LEMMA RequestedType ==
    ASSUME jobs \in [JobIds -> Record], NEW j \in JobIds, NEW s \in Statuses,
           NEW q \in JobActions \cup {NoRequest}, NEW a \in SUBSET JobActions
    PROVE  [jobs EXCEPT ![j].status = s, ![j].requested = q, ![j].actions = a]
               \in [JobIds -> Record]
BY ZenonT(60) DEF Record

(* ... a requested action that waits for the scheduler ... *)
LEMMA PendingType ==
    ASSUME jobs \in [JobIds -> Record], NEW j \in JobIds,
           NEW q \in JobActions \cup {NoRequest}, NEW a \in SUBSET JobActions
    PROVE  [jobs EXCEPT ![j].requested = q, ![j].actions = a] \in [JobIds -> Record]
BY ZenonT(60) DEF Record

(* The same for the fields of a thread that the scheduler sets together.   *)
LEMMA TakeJobType ==
    ASSUME thread \in [Boots -> Thread], NEW b \in Boots, NEW pc \in Counters,
           NEW job \in JobIds \cup {NoJob}
    PROVE  [thread EXCEPT ![b].pc = pc, ![b].job = job] \in [Boots -> Thread]
BY DEF Thread

(* ... the step and the packages of a thread ... *)
LEMMA PackagesType ==
    ASSUME thread \in [Boots -> Thread], NEW b \in Boots, NEW pc \in Counters,
           NEW packages \in 0..2
    PROVE  [thread EXCEPT ![b].pc = pc, ![b].packages = packages] \in [Boots -> Thread]
BY DEF Thread

(* ... the exit of a worker ... *)
LEMMA ExitType ==
    ASSUME thread \in [Boots -> Thread], NEW b \in Boots, NEW pc \in Counters,
           NEW packages \in 0..2, NEW outcome \in ExitOutcomes
    PROVE  [thread EXCEPT ![b].pc = pc, ![b].packages = packages,
                          ![b].outcome = outcome] \in [Boots -> Thread]
BY ZenonT(60) DEF Thread

(* ... and what is decided of a worker that has ended. *)
LEMMA ReapingType ==
    ASSUME thread \in [Boots -> Thread], NEW b \in Boots, NEW pc \in Counters,
           NEW outcome \in ExitOutcomes,
           NEW next \in {"none", "finishing", "failing", "raising"}
    PROVE  [thread EXCEPT ![b].pc = pc, ![b].outcome = outcome, ![b].next = next]
               \in [Boots -> Thread]
BY ZenonT(60) DEF Thread

ThreadOK ==
    /\ thread \in [Boots -> Thread]
    /\ \A b \in Boots :
          /\ thread[b].job # NoJob <=> thread[b].pc \in BusyCounters
          /\ thread[b].pc = "reaping" => thread[b].next # "none"

(* Moving a thread on keeps it well typed if it has a job when it needs one. *)
LEMMA GotoType ==
    ASSUME ThreadOK, NEW b \in Boots, NEW pc \in Counters, Goto(b, pc),
           thread[b].job # NoJob <=> pc \in BusyCounters, pc # "reaping"
    PROVE  ThreadOK'
BY DEF ThreadOK, Goto, Thread

(* Only the thread, the job table and the worker need an argument: the     *)
(* lock holders and the memory of a boot take their values from constants. *)
LEMMA StartType ==
    ASSUME TypeOK, LockFollowsThread, NEW b \in Boots, Start(b) PROVE TypeOK'
<1>1. CASE TakeQueueLock(b)
    BY <1>1 DEF TakeQueueLock, TypeOK, Modes, durable
<1>2. CASE ReconcileJob(b)
  <2>1. PICK j \in JobIds : jobs' = Changed(j, "interrupted", {})
      BY <1>2 DEF ReconcileJob, Interrupted, Having
  <2>2. jobs' \in [JobIds -> Record]
      BY <2>1, ChangedType DEF TypeOK, Statuses
  <2> QED BY <1>2, <2>2 DEF ReconcileJob, TypeOK, memory
<1>3. CASE StartFails(b)
    BY <1>3 DEF StartFails, TypeOK, Modes, durable
<1>4. CASE StartScheduler(b)
  <2>1. ThreadOK'
      BY <1>4, GotoType
      DEF StartScheduler, LockFollowsThread, TypeOK, ThreadOK, Counters, BusyCounters
  <2> QED BY <1>4, <2>1 DEF StartScheduler, TypeOK, ThreadOK, Modes, durable
<1> QED BY <1>1, <1>2, <1>3, <1>4 DEF Start

(* A submission adds a well-typed row and remembers a well-typed request.  *)
LEMMA AcceptType ==
    ASSUME TypeOK, NEW b \in Boots, NEW request \in Submissions, Accept(b, request)
    PROVE  /\ jobs' \in [JobIds -> Record]
           /\ mutations' \in [ClientIds -> Mutation \cup {NoMutation}]
<1>1. PICK j \in JobIds : /\ jobs' = [jobs EXCEPT ![j] = QueuedRecord(request)]
                          /\ Remember(b, request, j)
    BY DEF Accept
<1>2. request \in [client : ClientIds, what : Operations, about : Subjects]
    BY RequestsAssumption
<1>3. QueuedRecord(request) \in Record
    BY <1>2 DEF QueuedRecord, Record, Statuses, ActiveFetchStates, JobActions
<1>4. Key(b, request.what) \in Boots \cup {NoBoot}
    BY DEF Key
<1>5. mutations' \in [ClientIds -> Mutation \cup {NoMutation}]
    BY <1>1, <1>2, <1>4 DEF Remember, Fingerprint, Mutation, TypeOK
<1> QED BY <1>1, <1>3, <1>5 DEF TypeOK

(* A requested action keeps the table and the requests well typed. *)
LEMMA ActionType ==
    ASSUME TypeOK, NEW b \in Boots, NEW request \in Commands, Action(b, request)
    PROVE  /\ jobs' \in [JobIds -> Record]
           /\ mutations' \in [ClientIds -> Mutation \cup {NoMutation}]
<1>1. request \in [client : ClientIds, what : JobActions, about : JobIds]
    BY RequestsAssumption
<1>2. Key(b, request.what) \in Boots \cup {NoBoot}
    BY DEF Key
<1>3. mutations' \in [ClientIds -> Mutation \cup {NoMutation}]
    BY <1>1, <1>2 DEF Action, Remember, Fingerprint, Mutation, TypeOK
<1>4. /\ jobs \in [JobIds -> Record]
      /\ {"cancelled", "queued"} \subseteq Statuses
      /\ {} \in SUBSET JobActions
      /\ {"cancel"} \in SUBSET JobActions
    BY DEF TypeOK, Statuses, ActiveFetchStates, Settled, JobActions
<1>5. FetchActionChanges(request.about, request.what) \in [JobIds -> Record]
    BY <1>1, <1>4, RequestedType, PendingType DEF FetchActionChanges
<1>6. ActionChanges(request.about, request.what) \in [JobIds -> Record]
    BY <1>1, <1>4, RequestedType, PendingType DEF ActionChanges
<1> QED BY <1>3, <1>5, <1>6 DEF Action

(* A handler keeps the types. *)
LEMMA HandleType ==
    ASSUME TypeOK, NEW b \in Boots, Handle(b) PROVE TypeOK'
<1>1. ASSUME NEW request \in Submissions, Accept(b, request),
             secrets' \in [Boots -> SUBSET JobIds]
      PROVE  TypeOK'
    BY <1>1, AcceptType DEF Accept, TypeOK
<1>2. CASE \E request \in Submissions : Submit(b, request) \/ SubmitFetch(b, request)
    BY <1>1, <1>2 DEF Submit, SubmitFetch, TypeOK
<1>3. CASE \E request \in Submissions : SubmitInference(b, request)
  <2>1. PICK request \in Submissions : SubmitInference(b, request)
      BY <1>3
  <2>2. secrets' \in [Boots -> SUBSET JobIds]
      BY <2>1 DEF SubmitInference, TypeOK
  <2> QED BY <1>1, <2>1, <2>2 DEF SubmitInference
<1>4. CASE \E request \in Commands : Action(b, request)
  <2>1. PICK request \in Commands : Action(b, request)
      BY <1>4
  <2>2. secrets' \in [Boots -> SUBSET JobIds]
      BY <2>1 DEF Action, TypeOK
  <2> QED BY <2>1, <2>2, ActionType DEF Action, TypeOK
<1>5. CASE BeginCleanup(b)
    BY <1>5 DEF BeginCleanup, TypeOK, durable
<1>6. CASE EndCleanup(b)
    BY <1>6 DEF EndCleanup, TypeOK, durable
<1> QED BY <1>2, <1>3, <1>4, <1>5, <1>6 DEF Handle

(* What the scheduler's steps need to know about the thread of their boot. *)
LEMMA BusyThread ==
    ASSUME TypeOK, NEW b \in Boots, thread[b].pc \in BusyCounters
    PROVE  /\ thread[b].job \in JobIds
           /\ jobs[thread[b].job] \in Record
BY DEF TypeOK, Thread

(* The spawned worker is well typed. *)
LEMMA NewChildType ==
    ASSUME TypeOK, NEW b \in Boots, thread[b].pc \in BusyCounters
    PROVE  NewChild(b) \in Child
BY BusyThread DEF NewChild, NoChild, Child, Record, Active, LiveStages, ExitOutcomes

(* The scheduler's own steps keep the types. *)
LEMMA RunType ==
    ASSUME TypeOK, NEW b \in Boots, Run(b) PROVE TypeOK'
<1> USE DEF ThreadOK
<1>1. CASE CheckClosing(b)
    BY <1>1, GotoType DEF CheckClosing, TypeOK, durable, memory, Counters, BusyCounters
<1>2. CASE NextJob(b)
  <2>1. CASE Startable = {}
      BY <1>2, <2>1, GotoType DEF NextJob, TypeOK, memory, Counters, BusyCounters
  <2>2. CASE Startable # {}
    <3>1. PICK j \in JobIds :
             /\ jobs' = Changed(j, "running", InitialRunningActions(jobs[j].op))
             /\ thread' = [thread EXCEPT ![b].pc = "starting", ![b].job = j]
        BY <1>2, <2>2 DEF NextJob, Startable, Having
    <3>2. InitialRunningActions(jobs[j].op) \in SUBSET JobActions
        BY DEF InitialRunningActions, JobActions
    <3>3. jobs' \in [JobIds -> Record]
        BY <3>1, <3>2, ChangedType DEF TypeOK, Statuses, ActiveFetchStates
    <3>4. thread' \in [Boots -> Thread]
        BY <3>1, TakeJobType DEF TypeOK, Counters, BusyCounters
    <3>5. \A a \in Boots : /\ thread'[a].job # NoJob <=> thread'[a].pc \in BusyCounters
                           /\ thread'[a].pc = "reaping" => thread'[a].next # "none"
        BY <3>1, NullsAssumption DEF TypeOK, Thread, BusyCounters
    <3> QED BY <1>2, <3>3, <3>4, <3>5 DEF NextJob, TypeOK, memory
  <2> QED BY <2>1, <2>2
<1>3. CASE RunJob(b)
  <2>1. thread[b].pc \in BusyCounters /\ thread[b].job # NoJob
      BY <1>3 DEF RunJob, BusyCounters, TypeOK
  <2>2. ThreadOK'
      BY <1>3, <2>1, GotoType DEF RunJob, TypeOK, Counters, BusyCounters
  <2>3. child' \in [Boots -> Child]
      BY <1>3, <2>1, NewChildType DEF RunJob, TypeOK
  <2> QED BY <1>3, <2>2, <2>3 DEF RunJob, TypeOK, durable, memory
<1>4. CASE PopSecrets(b)
  <2>1. thread[b].pc \in BusyCounters
      BY <1>4 DEF PopSecrets, BusyCounters
  <2>2. thread' \in [Boots -> Thread]
    <3>1. Packages(jobs[Active(b)].op) \in 0..2
        BY DEF Packages
    <3>2. {"reporting", "failing"} \subseteq Counters
        BY SMTT(30) DEF Counters, BusyCounters
    <3>3. CASE Active(b) \in secrets[b]
        BY <1>4, <3>1, <3>2, <3>3, PackagesType DEF PopSecrets, TypeOK
    <3>4. CASE Active(b) \notin secrets[b]
        BY <1>4, <3>2, <3>4, ZenonT(60) DEF PopSecrets, TypeOK, Thread
    <3> QED BY <3>3, <3>4
  <2>4. \A a \in Boots : /\ thread'[a].job # NoJob <=> thread'[a].pc \in BusyCounters
                         /\ thread'[a].pc = "reaping" => thread'[a].next # "none"
      BY <1>4, <2>1 DEF PopSecrets, TypeOK, Thread, BusyCounters
  <2>3. secrets' \in [Boots -> SUBSET JobIds]
      BY <1>4 DEF PopSecrets, TypeOK
  <2> QED BY <1>4, <2>2, <2>3, <2>4 DEF PopSecrets, TypeOK, durable
<1>5. CASE ReportPhase(b)
  <2>1. ThreadOK'
      BY <1>5, GotoType DEF ReportPhase, TypeOK, Counters, BusyCounters
  <2> QED BY <1>5, <2>1 DEF ReportPhase, TypeOK, durable, memory
<1>6. CASE SpawnPackage(b)
  <2>1. thread[b].pc \in BusyCounters
      BY <1>6 DEF SpawnPackage, BusyCounters
  <2>2. ThreadOK'
      BY <1>6, GotoType DEF SpawnPackage, TypeOK, Counters, BusyCounters
  <2>3. child' \in [Boots -> Child]
      BY <1>6, <2>1, NewChildType DEF SpawnPackage, TypeOK
  <2> QED BY <1>6, <2>2, <2>3 DEF SpawnPackage, TypeOK, durable, memory
<1>7. CASE Reaped(b)
  <2>1. /\ thread[b].next \in {"finishing", "failing", "raising"}
        /\ thread[b].job # NoJob
      BY <1>7 DEF Reaped, TypeOK, Thread, BusyCounters
  <2>2. ThreadOK'
      BY <1>7, <2>1, GotoType DEF Reaped, TypeOK, Counters, BusyCounters
  <2>3. child' \in [Boots -> Child]
      BY <1>7 DEF Reaped, NoChild, TypeOK, Child, Operations, ExitOutcomes
  <2> QED BY <1>7, <2>2, <2>3 DEF Reaped, FreeProof, TypeOK, durable, memory
<1>8. CASE CollectExit(b)
  <2>1. thread' \in [Boots -> Thread]
    <3> DEFINE pc == IF IsInference(Active(b)) THEN AfterPackage(b) ELSE "finishing"
               packages == IF thread[b].packages > 0 THEN thread[b].packages - 1 ELSE 0
    <3>1. pc \in Counters
        BY DEF AfterPackage, Counters, BusyCounters
    <3>2. packages \in 0..2
        BY DEF TypeOK, Thread
    <3>3. child[b].outcome \in ExitOutcomes
        BY DEF TypeOK, Child
    <3>4. thread' = [thread EXCEPT ![b].pc = pc, ![b].packages = packages,
                                   ![b].outcome = child[b].outcome]
        BY <1>8 DEF CollectExit, TypeOK
    <3> QED BY <3>1, <3>2, <3>3, <3>4, ExitType, ZenonT(60) DEF TypeOK
  <2>3. \A a \in Boots : /\ thread'[a].job # NoJob <=> thread'[a].pc \in BusyCounters
                         /\ thread'[a].pc = "reaping" => thread'[a].next # "none"
    <3> SUFFICES ASSUME NEW a \in Boots
                 PROVE  /\ thread'[a].job # NoJob <=> thread'[a].pc \in BusyCounters
                        /\ thread'[a].pc = "reaping" => thread'[a].next # "none"
        OBVIOUS
    <3>1. CASE a # b
      <4>1. thread'[a] = thread[a]
          BY <1>8, <3>1 DEF CollectExit, TypeOK
      <4> QED BY <4>1 DEF TypeOK
    <3>2. CASE a = b
      <4>1. thread'[b].job = thread[b].job
          BY <1>8 DEF CollectExit, TypeOK, Thread
      <4>2. thread'[b].pc \in {"finishing", "failing", "reporting"}
          BY <1>8 DEF CollectExit, AfterPackage, TypeOK, Thread
      <4>3. thread[b].pc = "supervising" /\ thread[b].job # NoJob
          BY <1>8 DEF CollectExit, TypeOK, BusyCounters
      <4> QED BY <3>2, <4>1, <4>2, <4>3 DEF BusyCounters
    <3> QED BY <3>1, <3>2
  <2>2. child' \in [Boots -> Child]
      BY <1>8 DEF CollectExit, NoChild, TypeOK, Child, Operations, ExitOutcomes
  <2>4. UNCHANGED <<jobs, mutations, owner, proof, mode, closing, failed, secrets, cleanup>>
      BY <1>8 DEF CollectExit, durable, memory
  <2> QED BY <2>1, <2>2, <2>3, <2>4 DEF TypeOK
<1>9. CASE Finish(b)
  <2>1. thread[b].pc \in BusyCounters /\ Active(b) \in JobIds
      BY <1>9, BusyThread DEF Finish, BusyCounters, Active
  <2>2. ThreadOK'
      BY <1>9, <2>1, GotoType DEF Finish, TypeOK, Counters, BusyCounters
  <2>3. FinalStatus(b, Active(b)) \in Statuses \cup {"raises"}
      BY DEF FinalStatus, StoppedStatus, Statuses, Settled, ActiveFetchStates
  <2>4. jobs' \in [JobIds -> Record]
      BY <1>9, <2>1, <2>3, ChangedType DEF Finish, TypeOK, JobActions
  <2> QED BY <1>9, <2>2, <2>4 DEF Finish, TypeOK, memory
<1>10. CASE ReportFailure(b)
  <2>1. thread[b].pc \in BusyCounters /\ Active(b) \in JobIds
      BY <1>10, BusyThread DEF ReportFailure, BusyCounters, Active
  <2>2. ThreadOK'
      BY <1>10, <2>1, GotoType DEF ReportFailure, TypeOK, Counters, BusyCounters
  <2>3. {"interrupted", "failed"} \subseteq Statuses
      BY DEF Statuses, Settled
  <2>4. jobs' \in [JobIds -> Record]
      BY <1>10, <2>1, <2>3, ChangedType DEF ReportFailure, TypeOK
  <2> QED BY <1>10, <2>2, <2>4 DEF ReportFailure, TypeOK, memory
<1>11. CASE Release(b)
  <2>1. ThreadOK'
      BY <1>11 DEF Release, NoThread, TypeOK, Thread, Counters, BusyCounters, ExitOutcomes
  <2> QED BY <1>11, <2>1 DEF Release, TypeOK, durable, memory
<1>12. CASE HaltForStorage(b)
  <2>1. ThreadOK'
      BY <1>12, GotoType, SMTT(30) DEF HaltForStorage, TypeOK, Counters, BusyCounters
  <2> QED BY <1>12, <2>1 DEF HaltForStorage, TypeOK, durable
<1> QED BY <1>1, <1>2, <1>3, <1>4, <1>5, <1>6, <1>7, <1>8, <1>9, <1>10, <1>11, <1>12
        DEF Run

(* Reaping keeps the thread and the worker well typed.                     *)
LEMMA ReapType ==
    ASSUME TypeOK, NEW b \in Boots, thread[b].pc = "supervising",
           NEW next \in {"finishing", "failing", "raising"}, Reap(b, next)
    PROVE  /\ thread' \in [Boots -> Thread]
           /\ child' \in [Boots -> Child]
           /\ \A a \in Boots : /\ thread'[a].job # NoJob <=> thread'[a].pc \in BusyCounters
                               /\ thread'[a].pc = "reaping" => thread'[a].next # "none"
<1>1. thread' \in [Boots -> Thread]
    <2>1. "reaping" \in Counters /\ "silent" \in ExitOutcomes
        BY DEF Counters, BusyCounters, ExitOutcomes
    <2> QED BY <2>1, ReapingType, ZenonT(60) DEF Reap, TypeOK
<1>2. child' \in [Boots -> Child]
    BY ZenonT(60) DEF Reap, TypeOK, Child
<1>3. \A a \in Boots : /\ thread'[a].job # NoJob <=> thread'[a].pc \in BusyCounters
                       /\ thread'[a].pc = "reaping" => thread'[a].next # "none"
    BY DEF Reap, TypeOK, Thread, BusyCounters
<1> QED BY <1>1, <1>2, <1>3

(* The steps that watch a worker keep the types. *)
LEMMA SuperviseType ==
    ASSUME TypeOK, NEW b \in Boots, Supervise(b) PROVE TypeOK'
<1> USE DEF ThreadOK
<1>1. CASE Progress(b)
  <2>1. Active(b) \in JobIds
      BY <1>1, BusyThread DEF Progress, BusyCounters, Active
  <2>2. jobs' \in [JobIds -> Record]
      BY <1>1, <2>1 DEF Progress, TypeOK, Record, JobActions
  <2> QED BY <1>1, <2>2 DEF Progress, TypeOK, memory
<1>2. CASE SendStop(b)
    BY <1>2, ZenonT(60) DEF SendStop, TypeOK, Child, durable, memory
<1>3. CASE LimitExceeded(b)
  <2>1. PICK next \in {"finishing", "failing"} : Reap(b, next)
      BY <1>3 DEF LimitExceeded
  <2> QED BY <1>3, <2>1, ReapType DEF LimitExceeded, TypeOK, durable, memory
<1>4. CASE Stall(b)
    BY <1>4, ReapType DEF Stall, TypeOK, durable, memory
<1>5. CASE LoseStorage(b)
  <2>1. CASE thread[b].pc = "supervising" /\ Reap(b, "raising")
      BY <1>5, <2>1, ReapType DEF LoseStorage, TypeOK, durable, memory
  <2>2. CASE thread[b].pc = "polling" /\ Goto(b, "halting") /\ child' = child
    <3>1. ThreadOK'
        BY <2>2, GotoType DEF TypeOK, Counters, BusyCounters
    <3> QED BY <1>5, <2>2, <3>1 DEF LoseStorage, TypeOK, durable, memory
  <2>3. CASE /\ thread[b].pc \in {"starting", "spawning", "finishing", "failing"}
             /\ Goto(b, "raising") /\ child' = child
    <3>1. ThreadOK'
        BY <2>3, GotoType DEF TypeOK, Counters, BusyCounters
    <3> QED BY <1>5, <2>3, <3>1 DEF LoseStorage, TypeOK, durable, memory
  <2> QED BY <1>5, <2>1, <2>2, <2>3 DEF LoseStorage
<1> QED BY <1>1, <1>2, <1>3, <1>4, <1>5 DEF Supervise

(* Ending a worker leaves a well-typed one and frees the proof lock.       *)
LEMMA EndsType ==
    ASSUME TypeOK, NEW b \in Boots, NEW outcome \in ExitOutcomes, Ends(b, outcome)
    PROVE  child' \in [Boots -> Child] /\ proof' \in Boots \cup {NoBoot, CommandLine}
<1>1. child' \in [Boots -> Child]
  <2>1. NoChild \in Child
      BY DEF NoChild, Child, Operations, ExitOutcomes
  <2>2. [child EXCEPT ![b] = NoChild] \in [Boots -> Child]
      BY <2>1 DEF TypeOK
  <2>3. [child EXCEPT ![b].stage = "ended", ![b].outcome = outcome] \in [Boots -> Child]
      <3>1. child \in [Boots -> Child]
          BY DEF TypeOK
      <3> QED BY <3>1 DEF Child
  <2> QED BY <2>2, <2>3 DEF Ends
<1> QED BY <1>1 DEF Ends, FreeProof, TypeOK

(* The worker's steps keep the types. *)
LEMMA WorkType ==
    ASSUME TypeOK, NEW b \in Boots, Work(b) PROVE TypeOK'
<1>1. CASE ChildStart(b)
  <2>1. child' \in [Boots -> Child]
      <3>1. child \in [Boots -> Child] /\ child' = [child EXCEPT ![b].stage = "working"]
          BY <1>1 DEF ChildStart, TypeOK
      <3> QED BY <3>1 DEF Child, LiveStages
  <2> QED BY <1>1, <2>1 DEF ChildStart, TypeOK, durable, memory
<1>2. CASE ChildReport(b)
    BY <1>2, ZenonT(60) DEF ChildReport, TypeOK, Child, LiveStages, durable, memory
<1>3. CASE ChildExit(b)
  <2>1. PICK outcome \in ExitOutcomes : Ends(b, outcome)
      BY <1>3 DEF ChildExit, Outcomes, ExitOutcomes
  <2> QED BY <1>3, <2>1, EndsType DEF ChildExit, TypeOK, durable, memory
<1> QED BY <1>1, <1>2, <1>3 DEF Work

(* The end of a process clears its memory.                                 *)
LEMMA GoneType ==
    ASSUME TypeOK, NEW b \in Boots, Gone(b) PROVE TypeOK'
<1>1. thread' \in [Boots -> Thread]
    BY DEF Gone, NoThread, TypeOK, Thread, Counters, ExitOutcomes
<1>2. \A a \in Boots : /\ thread'[a].job # NoJob <=> thread'[a].pc \in BusyCounters
                       /\ thread'[a].pc = "reaping" => thread'[a].next # "none"
    BY DEF Gone, NoThread, TypeOK, BusyCounters
<1>3. child' \in [Boots -> Child]
    BY DEF Gone, NoChild, TypeOK, Child, Operations, ExitOutcomes
<1> QED BY <1>1, <1>2, <1>3 DEF Gone, TypeOK, Modes, durable

(* Shutdown and crashes keep the types. *)
LEMMA CloseType ==
    ASSUME TypeOK, NEW b \in Boots, BeginClose(b) \/ Close(b) \/ Crash(b)
    PROVE  TypeOK'
<1>1. CASE BeginClose(b)
    BY <1>1 DEF BeginClose, TypeOK, Modes, durable
<1>2. CASE StopActiveTraining(b)
  <2>1. Active(b) \in JobIds \cup {NoJob}
      BY DEF TypeOK, Thread, Active
  <2>2. "stop" \in JobActions /\ {} \in SUBSET JobActions
      BY DEF JobActions
  <2>3. jobs' \in [JobIds -> Record]
      BY <1>2, <2>1, <2>2, PendingType DEF StopActiveTraining, TypeOK
  <2> QED BY <1>2, <2>3 DEF StopActiveTraining, TypeOK, Modes
<1>3. CASE StopActiveFails(b)
    BY <1>3 DEF StopActiveFails, TypeOK, Modes, durable
<1>4. CASE Terminate(b)
    BY <1>4, ZenonT(60) DEF Terminate, TypeOK, Modes, Child, durable
<1>5. CASE Kill(b)
  <2>1. child' \in [Boots -> Child] /\ proof' \in Boots \cup {NoBoot, CommandLine}
      BY <1>5, EndsType DEF Kill, ExitOutcomes, TypeOK
  <2> QED BY <1>5, <2>1 DEF Kill, TypeOK, Modes, durable
<1>6. CASE BeginSettle(b)
    BY <1>6 DEF BeginSettle, TypeOK, Modes, durable
<1>7. CASE SettleJob(b)
  <2>1. PICK j \in JobIds : jobs' = Changed(j, "interrupted", {})
      BY <1>7 DEF SettleJob, Interrupted, Having
  <2>2. jobs' \in [JobIds -> Record]
      BY <2>1, ChangedType DEF TypeOK, Statuses
  <2> QED BY <1>7, <2>2 DEF SettleJob, TypeOK, memory
<1>8. CASE SettleEnds(b)
    BY <1>8 DEF SettleEnds, TypeOK, Modes, durable
<1>9. CASE Unlock(b)
    BY <1>9 DEF Unlock, TypeOK, Modes, durable
<1>10. CASE Exit(b) \/ Crash(b)
    BY <1>10, GoneType DEF Exit, Crash
<1> QED BY <1>1, <1>2, <1>3, <1>4, <1>5, <1>6, <1>7, <1>8, <1>9, <1>10
        DEF Close, CloseRaised

(* Every step keeps the types.                                             *)
LEMMA TypeOKStep ==
    ASSUME TypeOK, LockFollowsThread, [Next]_vars PROVE TypeOK'
<1>1. CASE UNCHANGED vars
    BY <1>1 DEF vars, TypeOK
<1>2. CASE CommandLineTakesProof \/ CommandLineReleasesProof
    BY <1>2 DEF CommandLineTakesProof, CommandLineReleasesProof, TypeOK, durable, memory
<1>3. CASE \E b \in Boots :
              \/ Start(b) \/ Handle(b) \/ Run(b) \/ Supervise(b) \/ Work(b)
              \/ BeginClose(b) \/ Close(b) \/ Crash(b)
    BY <1>3, StartType, HandleType, RunType, SuperviseType, WorkType, CloseType
<1> QED BY <1>1, <1>2, <1>3 DEF Next

-----------------------------------------------------------------------------
(* The file lock *)

(* No boot has a thread or the lock at first. *)
LEMMA LockInit == Init => LockFollowsThread
BY DEF Init, LockFollowsThread, NoThread, Alive

(* A thread that is alive moves on, or nothing it needs moves.             *)
LEMMA LockThread ==
    ASSUME LockFollowsThread, NEW b \in Boots, Alive(b), thread'[b].pc # "none",
           \A a \in Boots \ {b} : thread'[a] = thread[a],
           owner' = owner, mode' = mode
    PROVE  LockFollowsThread'
BY DEF LockFollowsThread, Alive

(* A step that leaves threads, modes and the lock alone changes nothing    *)
(* here.                                                                   *)
LEMMA LockStill ==
    ASSUME LockFollowsThread, thread' = thread, owner' = owner, mode' = mode
    PROVE  LockFollowsThread'
BY DEF LockFollowsThread, Alive

(* A boot goes to another mode without touching its thread or the lock.    *)
LEMMA LockMode ==
    ASSUME TypeOK, LockFollowsThread, NEW b \in Boots, NEW m \in Modes,
           mode' = [mode EXCEPT ![b] = m], thread' = thread, owner' = owner,
           m \notin {"off", "reconciling", "serving"},
           m = "settling" => owner = b,
           mode[b] \notin {"closed", "gone"}
    PROVE  LockFollowsThread'
BY DEF LockFollowsThread, Alive, TypeOK

(* A boot gets a thread only after it got the lock. *)
LEMMA LockStart ==
    ASSUME TypeOK, LockFollowsThread, NEW b \in Boots, Start(b)
    PROVE  LockFollowsThread'
<1>1. CASE TakeQueueLock(b)
    BY <1>1, NullsAssumption DEF TakeQueueLock, LockFollowsThread, Alive, TypeOK
<1>2. CASE ReconcileJob(b)
    BY <1>2, LockStill DEF ReconcileJob, memory
<1>3. CASE StartFails(b)
    BY <1>3, LockMode DEF StartFails, Modes
<1>4. CASE StartScheduler(b)
    BY <1>4 DEF StartScheduler, Goto, LockFollowsThread, Alive, TypeOK, Thread
<1> QED BY <1>1, <1>2, <1>3, <1>4 DEF Start

(* A handler leaves threads, modes and the lock alone. *)
LEMMA LockHandle ==
    ASSUME LockFollowsThread, NEW b \in Boots, Handle(b) PROVE LockFollowsThread'
BY LockStill DEF Handle, Submit, SubmitFetch, SubmitInference, Accept, Action,
                 BeginCleanup, EndCleanup

(* A move of a live thread by itself.                                      *)
LEMMA LockGoto ==
    ASSUME TypeOK, LockFollowsThread, NEW b \in Boots, NEW pc \in Counters,
           Alive(b), Goto(b, pc), pc # "none", owner' = owner, mode' = mode
    PROVE  LockFollowsThread'
BY LockThread DEF Goto, TypeOK, Thread

(* The scheduler's own steps keep the lock with its thread. *)
LEMMA LockRun ==
    ASSUME TypeOK, LockFollowsThread, NEW b \in Boots, Run(b) PROVE LockFollowsThread'
<1>1. CASE CheckClosing(b)
    BY <1>1, LockGoto DEF CheckClosing, Alive, memory, Counters
<1>2. CASE NextJob(b)
  <2>1. /\ Alive(b) /\ thread'[b].pc # "none"
        /\ \A a \in Boots \ {b} : thread'[a] = thread[a]
      BY <1>2 DEF NextJob, Alive, Goto, TypeOK, Thread
  <2> QED BY <1>2, <2>1, LockThread DEF NextJob, memory
<1>3. CASE RunJob(b)
    BY <1>3, LockGoto DEF RunJob, Alive, memory, Counters, BusyCounters
<1>4. CASE PopSecrets(b)
  <2>1. /\ Alive(b) /\ thread'[b].pc # "none"
        /\ \A a \in Boots \ {b} : thread'[a] = thread[a]
      BY <1>4 DEF PopSecrets, Alive, TypeOK, Thread
  <2> QED BY <1>4, <2>1, LockThread DEF PopSecrets
<1>5. CASE ReportPhase(b)
    BY <1>5, LockGoto DEF ReportPhase, Alive, memory, Counters, BusyCounters
<1>6. CASE SpawnPackage(b)
    BY <1>6, LockGoto DEF SpawnPackage, Alive, memory, Counters, BusyCounters
<1>7. CASE Reaped(b)
    BY <1>7, LockGoto DEF Reaped, Alive, memory, Counters, BusyCounters, TypeOK, Thread
<1>8. CASE CollectExit(b)
  <2>1. /\ Alive(b) /\ thread'[b].pc # "none"
        /\ \A a \in Boots \ {b} : thread'[a] = thread[a]
      BY <1>8 DEF CollectExit, AfterPackage, Alive, TypeOK, Thread
  <2> QED BY <1>8, <2>1, LockThread DEF CollectExit, memory
<1>9. CASE Finish(b)
    BY <1>9, LockGoto DEF Finish, Alive, memory, Counters, BusyCounters
<1>10. CASE ReportFailure(b)
    BY <1>10, LockGoto DEF ReportFailure, Alive, memory, Counters, BusyCounters
<1>11. CASE Release(b)
  <2>1. /\ Alive(b) /\ thread'[b].pc # "none"
        /\ \A a \in Boots \ {b} : thread'[a] = thread[a]
      BY <1>11 DEF Release, NoThread, Alive, TypeOK, Thread
  <2> QED BY <1>11, <2>1, LockThread DEF Release, memory
<1>12. CASE HaltForStorage(b)
    BY <1>12, LockGoto DEF HaltForStorage, Alive, Counters
<1> QED BY <1>1, <1>2, <1>3, <1>4, <1>5, <1>6, <1>7, <1>8, <1>9, <1>10, <1>11, <1>12
        DEF Run

(* So does reaping a worker ... *)
LEMMA LockReap ==
    ASSUME TypeOK, LockFollowsThread, NEW b \in Boots, NEW next, Reap(b, next),
           Alive(b), owner' = owner, mode' = mode
    PROVE  LockFollowsThread'
BY LockThread DEF Reap, TypeOK, Thread

(* ... and watching one. *)
LEMMA LockSupervise ==
    ASSUME TypeOK, LockFollowsThread, NEW b \in Boots, Supervise(b)
    PROVE  LockFollowsThread'
<1>1. CASE Progress(b) \/ SendStop(b)
    BY <1>1, LockStill DEF Progress, SendStop, memory
<1>2. CASE LimitExceeded(b) \/ Stall(b)
    BY <1>2, LockReap DEF LimitExceeded, Stall, Alive, memory
<1>3. CASE LoseStorage(b)
    BY <1>3, LockReap, LockGoto DEF LoseStorage, Alive, memory, Counters, BusyCounters
<1> QED BY <1>1, <1>2, <1>3 DEF Supervise

(* A worker leaves threads, modes and the lock alone. *)
LEMMA LockWork ==
    ASSUME LockFollowsThread, NEW b \in Boots, Work(b) PROVE LockFollowsThread'
BY LockStill DEF Work, ChildStart, ChildReport, ChildExit, memory

(* Shutdown gives the lock up only without a live thread; a crash ends     *)
(* both.                                                                   *)
LEMMA LockClose ==
    ASSUME TypeOK, LockFollowsThread, NEW b \in Boots,
           BeginClose(b) \/ Close(b) \/ Crash(b)
    PROVE  LockFollowsThread'
<1>1. CASE BeginClose(b)
    BY <1>1, LockMode DEF BeginClose, Modes
<1>2. CASE StopActiveTraining(b) \/ StopActiveFails(b)
    BY <1>2, LockMode DEF StopActiveTraining, StopActiveFails, Modes
<1>3. CASE Terminate(b) \/ Kill(b)
    BY <1>3, LockMode DEF Terminate, Kill, Modes
<1>4. CASE BeginSettle(b)
    BY <1>4, LockMode DEF BeginSettle, Modes
<1>5. CASE SettleJob(b)
    BY <1>5, LockStill DEF SettleJob, memory
<1>6. CASE SettleEnds(b)
    BY <1>6, LockMode DEF SettleEnds, Modes
<1>7. CASE Unlock(b)
    BY <1>7, NullsAssumption DEF Unlock, LockFollowsThread, Alive, TypeOK
<1>8. CASE Exit(b) \/ Crash(b)
    BY <1>8, NullsAssumption
    DEF Exit, Crash, Gone, NoThread, LockFollowsThread, Alive, TypeOK
<1> QED BY <1>1, <1>2, <1>3, <1>4, <1>5, <1>6, <1>7, <1>8 DEF Close, CloseRaised

(* Every step keeps the file lock with the thread that needs it.           *)
LEMMA LockStep ==
    ASSUME TypeOK, LockFollowsThread, [Next]_vars PROVE LockFollowsThread'
<1>1. CASE UNCHANGED vars
    BY <1>1, LockStill DEF vars
<1>2. CASE CommandLineTakesProof \/ CommandLineReleasesProof
    BY <1>2, LockStill DEF CommandLineTakesProof, CommandLineReleasesProof, memory
<1>3. CASE \E b \in Boots :
              \/ Start(b) \/ Handle(b) \/ Run(b) \/ Supervise(b) \/ Work(b)
              \/ BeginClose(b) \/ Close(b) \/ Crash(b)
    BY <1>3, LockStart, LockHandle, LockRun, LockSupervise, LockWork, LockClose
<1> QED BY <1>1, <1>2, <1>3 DEF Next

-----------------------------------------------------------------------------
(* One running job, one active fetch *)

QueueInv ==
    /\ WorkingJobStatus
    /\ RunningIsActive
    /\ OneRunningJob
    /\ WorkingFetchBlocks
    /\ OneActiveFetch

WatchfulCounters == {"idle", "polling"} \cup BusyCounters

(* The table is empty at first. *)
LEMMA QueueInit == Init => QueueInv
BY DEF Init, QueueInv, WorkingJobStatus, RunningIsActive, OneRunningJob,
       WorkingFetchBlocks, OneActiveFetch, ActiveFetches, Having, NoRecord, NoThread,
       ActiveFetchStates, Unfinished, WorkingCounters, BusyCounters

(* What the queue's invariant reads of the table.                          *)
SameJobs ==
    \A j \in JobIds : jobs'[j].status = jobs[j].status /\ jobs'[j].op = jobs[j].op

(* A thread that works or watches keeps its job and did so before.         *)
MovesOn ==
    \A b \in Boots :
        /\ thread'[b].pc \in WorkingCounters =>
              /\ thread[b].pc \in WorkingCounters
              /\ thread'[b].job = thread[b].job
              /\ mode[b] \in Settling => mode'[b] \in Settling
        /\ thread'[b].pc \in WatchfulCounters =>
              /\ thread[b].pc \in WatchfulCounters
              /\ thread'[b].job = thread[b].job
              /\ thread'[b].pc = "releasing" => thread[b].pc = "releasing"

(* Steps that end or start no job keep the invariant.                      *)
LEMMA QueueMoves ==
    ASSUME TypeOK, QueueInv, SameJobs, MovesOn PROVE QueueInv'
<1>1. /\ Having({"running"})' = Having({"running"})
      /\ ActiveFetches' = ActiveFetches
    BY DEF SameJobs, Having, ActiveFetches, IsFetch
<1>2. \A b \in Boots : thread[b].pc \in WorkingCounters => thread[b].job \in JobIds
    BY DEF TypeOK, Thread, WorkingCounters, BusyCounters
<1>3. WorkingJobStatus'
    BY <1>2 DEF QueueInv, WorkingJobStatus, SameJobs, MovesOn
<1>4. RunningIsActive'
    BY <1>1 DEF QueueInv, RunningIsActive, MovesOn, WatchfulCounters
<1>5. OneRunningJob' /\ OneActiveFetch'
    BY <1>1 DEF QueueInv, OneRunningJob, OneActiveFetch
<1>6. WorkingFetchBlocks'
    BY <1>1, <1>2 DEF QueueInv, WorkingFetchBlocks, SameJobs, MovesOn, IsFetch
<1> QED BY <1>3, <1>4, <1>5, <1>6 DEF QueueInv

(* Only the owner of the file lock has a thread that works or watches.     *)
LEMMA OnlyOwnerWorks ==
    ASSUME TypeOK, LockFollowsThread, NEW b \in Boots, owner = b
    PROVE  \A a \in Boots \ {b} : thread[a].pc \notin WatchfulCounters
BY DEF LockFollowsThread, Alive, WatchfulCounters, BusyCounters

(* A step that leaves the threads and the modes alone, or stops a thread.  *)
LEMMA StillMovesOn ==
    ASSUME thread' = thread, mode' = mode PROVE MovesOn
BY DEF MovesOn

(* A step of one thread that stays with its job.                           *)
LEMMA ThreadMovesOn ==
    ASSUME NEW b \in Boots, mode' = mode,
           \A a \in Boots \ {b} : thread'[a] = thread[a],
           thread'[b].pc \in WorkingCounters => thread[b].pc \in WorkingCounters,
           thread'[b].pc \in WatchfulCounters =>
               /\ thread[b].pc \in WatchfulCounters
               /\ thread'[b].pc # "releasing",
           thread'[b].pc \in WatchfulCounters => thread'[b].job = thread[b].job
    PROVE  MovesOn
BY DEF MovesOn, WorkingCounters, WatchfulCounters, BusyCounters

(* A boot that goes from one mode to the next.                             *)
LEMMA ModeMovesOn ==
    ASSUME NEW b \in Boots, TypeOK, NEW m, thread' = thread,
           mode' = [mode EXCEPT ![b] = m], mode[b] \in Settling => m \in Settling
    PROVE  MovesOn
BY DEF MovesOn, TypeOK

(* Interrupting what is unfinished, while no other thread is at work.      *)
LEMMA QueueInterrupts ==
    ASSUME TypeOK, LockFollowsThread, QueueInv, NEW b \in Boots, owner = b,
           NEW k \in JobIds, jobs' = Interrupted(k), thread' = thread, mode' = mode,
           thread[b].pc \in WorkingCounters => mode[b] \in Settling
    PROVE  QueueInv'
<1>1. \A j \in JobIds : /\ j # k => jobs'[j] = jobs[j]
                        /\ jobs'[j].op = jobs[j].op
    BY DEF Interrupted, Changed, TypeOK, Record
<1>2. jobs'[k].status = "interrupted"
    BY DEF Interrupted, Changed, TypeOK, Record
<1>3. /\ Having({"running"})' = Having({"running"}) \ {k}
      /\ ActiveFetches' = ActiveFetches \ {k}
    BY <1>1, <1>2 DEF Having, ActiveFetches, IsFetch, ActiveFetchStates, Unfinished
<1>4. \A a \in Boots : thread[a].pc \in WorkingCounters => a = b
    BY OnlyOwnerWorks DEF WatchfulCounters, WorkingCounters, BusyCounters
<1>5. \A a \in Boots : thread[a].pc \in WorkingCounters => thread[a].job \in JobIds
    BY DEF TypeOK, Thread, WorkingCounters, BusyCounters
<1>6. WorkingJobStatus'
    BY <1>1, <1>2, <1>4, <1>5 DEF QueueInv, WorkingJobStatus
<1>7. RunningIsActive'
    BY <1>3 DEF QueueInv, RunningIsActive
<1>8. OneRunningJob' /\ OneActiveFetch'
    BY <1>3 DEF QueueInv, OneRunningJob, OneActiveFetch
<1>9. WorkingFetchBlocks'
    BY <1>1, <1>3, <1>5 DEF QueueInv, WorkingFetchBlocks, IsFetch
<1> QED BY <1>6, <1>7, <1>8, <1>9 DEF QueueInv

(* A start interrupts what is unfinished before its thread can take a      *)
(* job.                                                                    *)
LEMMA QueueStart ==
    ASSUME TypeOK, LockFollowsThread, QueueInv, NEW b \in Boots, Start(b)
    PROVE  QueueInv'
<1>1. CASE TakeQueueLock(b)
  <2>1. MovesOn
      BY <1>1 DEF TakeQueueLock, MovesOn, TypeOK, Settling
  <2> QED BY <1>1, <2>1, QueueMoves DEF TakeQueueLock, durable, SameJobs
<1>2. CASE ReconcileJob(b)
  <2>1. PICK k \in JobIds : jobs' = Interrupted(k)
      BY <1>2 DEF ReconcileJob, Having
  <2>2. owner = b /\ thread[b].pc = "none"
      BY <1>2 DEF ReconcileJob, LockFollowsThread
  <2> QED BY <1>2, <2>1, <2>2, QueueInterrupts DEF ReconcileJob, memory, WorkingCounters
<1>3. CASE StartFails(b)
  <2>1. MovesOn
      BY <1>3, ModeMovesOn DEF StartFails, Settling
  <2> QED BY <1>3, <2>1, QueueMoves DEF StartFails, durable, SameJobs
<1>4. CASE StartScheduler(b)
  <2>1. \A a \in Boots : /\ a # b => thread'[a] = thread[a] /\ mode'[a] = mode[a]
                         /\ thread'[b].pc \notin WorkingCounters
      BY <1>4 DEF StartScheduler, Goto, TypeOK, Thread, WorkingCounters
  <2>2. Having({"running"}) = {} /\ jobs' = jobs
      BY <1>4 DEF StartScheduler, durable, Having, Unfinished
  <2>3. Having({"running"})' = {} /\ ActiveFetches' = ActiveFetches
      BY <2>2 DEF Having, ActiveFetches, IsFetch
  <2>4. WorkingJobStatus' /\ WorkingFetchBlocks'
      BY <2>1, <2>2, <2>3 DEF QueueInv, WorkingJobStatus, WorkingFetchBlocks, IsFetch
  <2>5. RunningIsActive' /\ OneRunningJob' /\ OneActiveFetch'
      BY <2>3 DEF QueueInv, RunningIsActive, OneRunningJob, OneActiveFetch
  <2> QED BY <2>4, <2>5 DEF QueueInv
<1> QED BY <1>1, <1>2, <1>3, <1>4 DEF Start

(* A handler runs in the boot that owns the lock, before close settles.    *)
LEMMA HandlingOwns ==
    ASSUME LockFollowsThread, NEW b \in Boots, Handling(b)
    PROVE  owner = b /\ mode[b] \notin Settling
BY DEF LockFollowsThread, Handling, Settling

(* A submission puts one new queued row into the table.                    *)
LEMMA AcceptRow ==
    ASSUME TypeOK, NEW b \in Boots, NEW request \in Submissions, Accept(b, request)
    PROVE  \E k \in JobIds :
              /\ jobs[k].status = "absent"
              /\ jobs'[k].status = "queued" /\ jobs'[k].op = request.what
              /\ \A j \in JobIds \ {k} : jobs'[j] = jobs[j]
BY DEF Accept, Vacant, QueuedRecord, TypeOK

(* It keeps the invariant if it is no fetch, or no fetch is active.        *)
LEMMA QueueAccept ==
    ASSUME TypeOK, LockFollowsThread, QueueInv, NEW b \in Boots,
           NEW request \in Submissions, Accept(b, request),
           request.what = "fetch_dataset" => ActiveFetches = {}
    PROVE  QueueInv'
<1>1. PICK k \in JobIds :
              /\ jobs[k].status = "absent"
              /\ jobs'[k].status = "queued" /\ jobs'[k].op = request.what
              /\ \A j \in JobIds \ {k} : jobs'[j] = jobs[j]
    BY AcceptRow
<1>2. thread' = thread /\ mode' = mode /\ owner = b /\ mode[b] \notin Settling
    BY HandlingOwns DEF Accept
<1>3. \A a \in Boots : thread[a].pc \in WorkingCounters =>
                          thread[a].job \in JobIds \ {k} /\ a = b
    BY <1>1, <1>2, OnlyOwnerWorks
    DEF TypeOK, Thread, QueueInv, WorkingJobStatus, WatchfulCounters,
        WorkingCounters, BusyCounters
<1>4. /\ Having({"running"})' = Having({"running"})
      /\ ActiveFetches' = IF request.what = "fetch_dataset" THEN {k} ELSE ActiveFetches
    BY <1>1 DEF Having, ActiveFetches, IsFetch, ActiveFetchStates, Unfinished
<1>5. WorkingJobStatus'
    BY <1>1, <1>2, <1>3 DEF QueueInv, WorkingJobStatus
<1>6. RunningIsActive' /\ OneRunningJob' /\ OneActiveFetch'
    BY <1>2, <1>4 DEF QueueInv, RunningIsActive, OneRunningJob, OneActiveFetch
<1>7. ASSUME NEW a \in Boots, NEW i \in ActiveFetches',
             thread'[a].pc \in WorkingCounters, IsFetch(thread[a].job)'
      PROVE  thread'[a].job = i
  <2>1. a = b /\ thread[a].job \in JobIds \ {k} /\ IsFetch(thread[a].job)
      BY <1>1, <1>2, <1>3, <1>7 DEF IsFetch
  <2>2. jobs[thread[a].job].status = "running"
      BY <1>2, <1>7, <2>1 DEF QueueInv, WorkingJobStatus
  <2>3. thread[a].job \in ActiveFetches
      BY <2>1, <2>2 DEF ActiveFetches, Having, ActiveFetchStates, Unfinished
  <2> QED BY <1>2, <1>4, <1>7, <2>1, <2>3 DEF QueueInv, WorkingFetchBlocks
<1>8. WorkingFetchBlocks'
    BY <1>2, <1>7 DEF WorkingFetchBlocks
<1> QED BY <1>5, <1>6, <1>8 DEF QueueInv

(* What a requested action makes of a fetch, and of nothing else.          *)
LEMMA FetchActionRow ==
    ASSUME jobs \in [JobIds -> Record], NEW k \in JobIds, NEW action,
           jobs' = FetchActionChanges(k, action)
    PROVE  /\ jobs'[k].op = jobs[k].op /\ jobs'[k].subject = jobs[k].subject
           /\ \A j \in JobIds \ {k} : jobs'[j] = jobs[j]
           /\ \/ /\ action = "cancel" /\ jobs[k].status \in {"queued", "paused"}
                 /\ jobs'[k].status = "cancelled"
                 /\ jobs'[k].requested = "cancel" /\ jobs'[k].actions = {}
              \/ /\ action = "resume" /\ jobs[k].status = "paused"
                 /\ jobs'[k].status = "queued"
                 /\ jobs'[k].requested = NoRequest /\ jobs'[k].actions = {"cancel"}
              \/ /\ ~(action = "cancel" /\ jobs[k].status \in {"queued", "paused"})
                 /\ ~(action = "resume" /\ jobs[k].status = "paused")
                 /\ jobs'[k].status = jobs[k].status
                 /\ jobs'[k].requested = action /\ jobs'[k].actions = {}
<1>1. CASE action = "cancel" /\ jobs[k].status \in {"queued", "paused"}
  <2>1. jobs' = [jobs EXCEPT ![k].status = "cancelled", ![k].requested = action,
                             ![k].actions = {}]
      BY <1>1 DEF FetchActionChanges
  <2> QED BY <1>1, <2>1 DEF Record
<1>2. CASE action = "resume" /\ jobs[k].status = "paused"
  <2>1. jobs' = [jobs EXCEPT ![k].status = "queued", ![k].requested = NoRequest,
                             ![k].actions = {"cancel"}]
      BY <1>2 DEF FetchActionChanges
  <2> QED BY <1>2, <2>1 DEF Record
<1>3. CASE /\ ~(action = "cancel" /\ jobs[k].status \in {"queued", "paused"})
           /\ ~(action = "resume" /\ jobs[k].status = "paused")
  <2>1. jobs' = [jobs EXCEPT ![k].requested = action, ![k].actions = {}]
      BY <1>3 DEF FetchActionChanges
  <2> QED BY <1>3, <2>1 DEF Record
<1> QED BY <1>1, <1>2, <1>3

(* A requested action reopens no fetch and touches no running status.      *)
LEMMA ActionRow ==
    ASSUME TypeOK, NEW b \in Boots, NEW request \in Commands, Action(b, request)
    PROVE  LET k == request.about IN
           /\ k \in JobIds
           /\ jobs'[k].op = jobs[k].op
           /\ \/ jobs'[k].status = jobs[k].status
              \/ /\ jobs[k].status \in {"queued", "paused"}
                 /\ jobs'[k].status = "cancelled"
              \/ /\ jobs[k].status = "paused" /\ IsFetch(k)
                 /\ jobs'[k].status = "queued"
           /\ \A j \in JobIds \ {k} : jobs'[j] = jobs[j]
<1>1. request.about \in JobIds
    BY RequestsAssumption
<1>2. CASE IsFetch(request.about)
  <2>1. jobs \in [JobIds -> Record] /\ jobs' = FetchActionChanges(request.about, request.what)
      BY <1>2 DEF Action, TypeOK
  <2> QED BY <1>1, <1>2, <2>1, FetchActionRow
<1>3. CASE ~IsFetch(request.about)
    BY <1>1, <1>3 DEF Action, Supported, ActionChanges, TypeOK, Record
<1> QED BY <1>2, <1>3

(* A requested action keeps the invariant: a resumed fetch becomes the     *)
(* only one.                                                               *)
LEMMA QueueAction ==
    ASSUME TypeOK, LockFollowsThread, QueueInv, NEW b \in Boots,
           NEW request \in Commands, Action(b, request)
    PROVE  QueueInv'
<1> DEFINE k == request.about
<1>1. /\ k \in JobIds
      /\ jobs'[k].op = jobs[k].op
      /\ \/ jobs'[k].status = jobs[k].status
         \/ /\ jobs[k].status \in {"queued", "paused"}
            /\ jobs'[k].status = "cancelled"
         \/ /\ jobs[k].status = "paused" /\ IsFetch(k)
            /\ jobs'[k].status = "queued"
      /\ \A j \in JobIds \ {k} : jobs'[j] = jobs[j]
    BY ActionRow
<1> HIDE DEF k
<1>2. thread' = thread /\ mode' = mode
    BY DEF Action
<1>3. \A a \in Boots : thread[a].pc \in WorkingCounters =>
          /\ thread[a].job \in JobIds
          /\ jobs'[thread[a].job].status = jobs[thread[a].job].status
    BY <1>1 DEF TypeOK, Thread, QueueInv, WorkingJobStatus, WorkingCounters, BusyCounters
<1>4. /\ Having({"running"})' = Having({"running"})
      /\ ActiveFetches' \subseteq ActiveFetches
    BY <1>1 DEF Having, ActiveFetches, IsFetch, ActiveFetchStates, Unfinished
<1>5. WorkingJobStatus'
    BY <1>2, <1>3 DEF QueueInv, WorkingJobStatus
<1>6. RunningIsActive' /\ OneRunningJob' /\ OneActiveFetch'
    BY <1>2, <1>4 DEF QueueInv, RunningIsActive, OneRunningJob, OneActiveFetch
<1>7. WorkingFetchBlocks'
    BY <1>1, <1>2, <1>3, <1>4 DEF QueueInv, WorkingFetchBlocks, IsFetch
<1> QED BY <1>5, <1>6, <1>7 DEF QueueInv

(* Every handler keeps the invariant. *)
LEMMA QueueHandle ==
    ASSUME TypeOK, LockFollowsThread, QueueInv, NEW b \in Boots, Handle(b)
    PROVE  QueueInv'
<1>1. CASE \E request \in Submissions :
              Submit(b, request) \/ SubmitFetch(b, request) \/ SubmitInference(b, request)
    BY <1>1, QueueAccept
    DEF Submit, SubmitFetch, SubmitInference, TrainingFamily, InferenceOperations
<1>2. CASE \E request \in Commands : Action(b, request)
    BY <1>2, QueueAction
<1>3. CASE BeginCleanup(b) \/ EndCleanup(b)
    BY <1>3, StillMovesOn, QueueMoves DEF BeginCleanup, EndCleanup, durable, SameJobs
<1> QED BY <1>1, <1>2, <1>3 DEF Handle

(* The job a thread works on ends: no other is running, and if it was a    *)
(* fetch, no other is active, so it may also end as paused.                *)
LEMMA QueueEnds ==
    ASSUME TypeOK, LockFollowsThread, QueueInv, NEW b \in Boots, NEW s, NEW a,
           thread[b].pc \in WorkingCounters, s # "running",
           s = "paused" => IsFetch(Active(b)), s # "queued",
           jobs' = Changed(Active(b), s, a), Goto(b, "releasing"), mode' = mode
    PROVE  QueueInv'
<1> DEFINE k == Active(b)
<1>1. k \in JobIds /\ k = thread[b].job
    BY DEF TypeOK, Thread, WorkingCounters, BusyCounters, Active
<1>2. /\ jobs'[k].status = s /\ jobs'[k].op = jobs[k].op
      /\ \A j \in JobIds \ {k} : jobs'[j] = jobs[j]
    BY <1>1 DEF Changed, TypeOK, Record
<1>3. /\ thread'[b].pc = "releasing" /\ thread'[b].job = k
      /\ \A c \in Boots \ {b} : thread'[c] = thread[c]
    BY <1>1 DEF Goto, TypeOK, Thread
<1> HIDE DEF k
<1>4. \A c \in Boots \ {b} : thread'[c].pc \notin WatchfulCounters
  <2>1. owner = b
      BY DEF LockFollowsThread, Alive, WorkingCounters
  <2> QED BY <1>3, <2>1, OnlyOwnerWorks
<1>5. Having({"running"}) \subseteq {k}
    BY <1>1 DEF QueueInv, RunningIsActive, WorkingCounters, BusyCounters
<1>6. Having({"running"})' = {}
    BY <1>2, <1>5 DEF Having
<1>7. ActiveFetches' \subseteq ActiveFetches \cup (IF IsFetch(k) THEN {k} ELSE {})
    BY <1>1, <1>2 DEF ActiveFetches, Having, IsFetch, ActiveFetchStates, Unfinished
<1>8. IsFetch(k) => \A i \in ActiveFetches : i = k
    BY <1>1 DEF QueueInv, WorkingFetchBlocks
<1>9. WorkingJobStatus' /\ WorkingFetchBlocks'
    BY <1>3, <1>4 DEF WorkingJobStatus, WorkingFetchBlocks, WorkingCounters,
                      WatchfulCounters, BusyCounters
<1>10. RunningIsActive' /\ OneRunningJob'
    BY <1>6 DEF RunningIsActive, OneRunningJob
<1>11. OneActiveFetch'
    BY <1>7, <1>8 DEF QueueInv, OneActiveFetch
<1> QED BY <1>9, <1>10, <1>11 DEF QueueInv

(* next_job takes a queued job: nothing else is running.                   *)
LEMMA QueueTakes ==
    ASSUME TypeOK, LockFollowsThread, QueueInv, NEW b \in Boots, NEW k \in JobIds,
           NEW a, thread[b].pc = "polling", jobs[k].status = "queued",
           jobs' = Changed(k, "running", a), mode' = mode,
           thread' = [thread EXCEPT ![b].pc = "starting", ![b].job = k]
    PROVE  QueueInv'
<1>1. /\ jobs'[k].status = "running" /\ jobs'[k].op = jobs[k].op
      /\ \A j \in JobIds \ {k} : jobs'[j] = jobs[j]
    BY DEF Changed, TypeOK, Record
<1>2. /\ thread'[b].pc = "starting" /\ thread'[b].job = k
      /\ \A c \in Boots \ {b} : thread'[c] = thread[c]
    BY DEF TypeOK, Thread
<1>3. \A c \in Boots \ {b} : thread'[c].pc \notin WatchfulCounters
  <2>1. owner = b
      BY DEF LockFollowsThread, Alive
  <2> QED BY <1>2, <2>1, OnlyOwnerWorks
<1>4. Having({"running"}) = {}
  <2>1. thread[b].job = NoJob
      BY DEF TypeOK, BusyCounters
  <2> QED BY <2>1, NullsAssumption DEF QueueInv, RunningIsActive, Having
<1>5. Having({"running"})' = {k}
    BY <1>1, <1>4 DEF Having
<1>6. ActiveFetches' = ActiveFetches
    BY <1>1 DEF ActiveFetches, Having, IsFetch, ActiveFetchStates, Unfinished
<1>7. WorkingJobStatus'
    BY <1>1, <1>2, <1>3 DEF WorkingJobStatus, WorkingCounters, WatchfulCounters, BusyCounters
<1>8. RunningIsActive'
    BY <1>2, <1>3, <1>5 DEF RunningIsActive, WatchfulCounters
<1>9. OneRunningJob' /\ OneActiveFetch'
    BY <1>5, <1>6 DEF QueueInv, OneRunningJob, OneActiveFetch
<1>10. ASSUME IsFetch(k), NEW i \in ActiveFetches PROVE i = k
  <2>1. k \in ActiveFetches
      BY <1>10 DEF ActiveFetches, Having, ActiveFetchStates, Unfinished
  <2> QED BY <2>1 DEF QueueInv, OneActiveFetch
<1>11. WorkingFetchBlocks'
  <2> SUFFICES ASSUME NEW c \in Boots, NEW i \in ActiveFetches',
                      thread'[c].pc \in WorkingCounters, IsFetch(thread[c].job)'
               PROVE  thread'[c].job = i
      BY DEF WorkingFetchBlocks
  <2>1. c = b
      BY <1>3 DEF WorkingCounters, WatchfulCounters, BusyCounters
  <2>2. IsFetch(k)
      BY <1>1, <1>2, <2>1 DEF IsFetch
  <2> QED BY <1>2, <1>6, <1>10, <2>1, <2>2
<1> QED BY <1>7, <1>8, <1>9, <1>11 DEF QueueInv

(* A thread goes on without changing the table.                            *)
LEMMA QueueGoto ==
    ASSUME TypeOK, QueueInv, NEW b \in Boots, NEW pc, Goto(b, pc), mode' = mode,
           jobs' = jobs, pc # "releasing",
           pc \in WorkingCounters => thread[b].pc \in WorkingCounters,
           pc \in WatchfulCounters => thread[b].pc \in WatchfulCounters
    PROVE  QueueInv'
<1>1. /\ thread'[b].pc = pc /\ thread'[b].job = thread[b].job
      /\ \A c \in Boots \ {b} : thread'[c] = thread[c]
    BY DEF Goto, TypeOK, Thread
<1>2. MovesOn
    BY <1>1, ThreadMovesOn
<1> QED BY <1>2, QueueMoves DEF SameJobs

(* Reaping a worker starts and ends no job. *)
LEMMA QueueReap ==
    ASSUME TypeOK, QueueInv, NEW b \in Boots, NEW next, Reap(b, next), mode' = mode,
           jobs' = jobs, thread[b].pc = "supervising"
    PROVE  QueueInv'
<1>1. /\ thread'[b].pc = "reaping" /\ thread'[b].job = thread[b].job
      /\ \A c \in Boots \ {b} : thread'[c] = thread[c]
    BY DEF Reap, TypeOK, Thread
<1>2. MovesOn
    BY <1>1, ThreadMovesOn DEF WorkingCounters, WatchfulCounters, BusyCounters
<1> QED BY <1>2, QueueMoves DEF SameJobs

(* The scheduler's own steps keep the invariant. *)
LEMMA QueueRun ==
    ASSUME TypeOK, LockFollowsThread, QueueInv, NEW b \in Boots, Run(b)
    PROVE  QueueInv'
<1> USE DEF WorkingCounters, WatchfulCounters, BusyCounters
<1>1. CASE CheckClosing(b)
    BY <1>1, QueueGoto DEF CheckClosing, durable, memory
<1>2. CASE NextJob(b)
  <2>1. CASE Startable = {}
      BY <1>2, <2>1, QueueGoto DEF NextJob, memory
  <2>2. CASE Startable # {}
    <3>1. PICK k \in JobIds :
             /\ jobs[k].status = "queued"
             /\ jobs' = Changed(k, "running", InitialRunningActions(jobs[k].op))
             /\ thread' = [thread EXCEPT ![b].pc = "starting", ![b].job = k]
        BY <1>2, <2>2 DEF NextJob, Startable, Having
    <3> QED BY <1>2, <3>1, QueueTakes DEF NextJob, memory
  <2> QED BY <2>1, <2>2
<1>3. CASE RunJob(b)
    BY <1>3, QueueGoto DEF RunJob, durable, memory
<1>4. CASE PopSecrets(b)
  <2>1. /\ thread'[b].pc \in {"reporting", "failing"}
        /\ thread'[b].job = thread[b].job
        /\ \A c \in Boots \ {b} : thread'[c] = thread[c]
      BY <1>4 DEF PopSecrets, TypeOK, Thread
  <2>2. MovesOn
      BY <1>4, <2>1, ThreadMovesOn DEF PopSecrets
  <2> QED BY <1>4, <2>2, QueueMoves DEF PopSecrets, durable, SameJobs
<1>5. CASE ReportPhase(b)
    BY <1>5, QueueGoto DEF ReportPhase, durable, memory
<1>6. CASE SpawnPackage(b)
    BY <1>6, QueueGoto DEF SpawnPackage, durable, memory
<1>7. CASE Reaped(b)
  <2>1. thread[b].next \in {"none", "finishing", "failing", "raising"}
      BY DEF TypeOK, Thread
  <2> QED BY <1>7, <2>1, QueueGoto DEF Reaped, durable, memory
<1>8. CASE CollectExit(b)
  <2>1. /\ thread'[b].pc \in {"finishing", "failing", "reporting"}
        /\ thread'[b].job = thread[b].job
        /\ \A c \in Boots \ {b} : thread'[c] = thread[c]
      BY <1>8 DEF CollectExit, AfterPackage, TypeOK, Thread
  <2>2. MovesOn
      BY <1>8, <2>1, ThreadMovesOn DEF CollectExit, memory
  <2> QED BY <1>8, <2>2, QueueMoves DEF CollectExit, durable, SameJobs
<1>9. CASE Finish(b)
  <2>1. CASE Goto(b, "failing") /\ jobs' = jobs
      BY <1>9, <2>1, QueueGoto DEF Finish, memory
  <2>2. CASE /\ FinalStatus(b, Active(b)) # "raises"
             /\ Goto(b, "releasing")
             /\ jobs' = Changed(Active(b), FinalStatus(b, Active(b)),
                                IF FinalStatus(b, Active(b)) = "paused"
                                  THEN {"resume", "cancel"} ELSE {})
    <3> DEFINE s == FinalStatus(b, Active(b))
    <3>1. s \notin {"running", "queued"} /\ (s = "paused" => IsFetch(Active(b)))
        BY DEF FinalStatus, StoppedStatus
    <3> HIDE DEF s
    <3> QED BY <1>9, <2>2, <3>1, QueueEnds DEF Finish, memory, s
  <2> QED BY <1>9, <2>1, <2>2 DEF Finish
<1>10. CASE ReportFailure(b)
    BY <1>10, QueueEnds DEF ReportFailure, memory
<1>11. CASE Release(b)
  <2>1. /\ thread'[b].pc = IF thread[b].pc = "raising" THEN "halting" ELSE "idle"
        /\ \A c \in Boots \ {b} : thread'[c] = thread[c]
        /\ jobs' = jobs /\ mode' = mode
      BY <1>11 DEF Release, NoThread, TypeOK, Thread, durable, memory
  <2>2. thread[b].pc = "releasing" => Having({"running"}) = {}
      BY DEF QueueInv, RunningIsActive
  <2>3. /\ Having({"running"})' = Having({"running"})
        /\ ActiveFetches' = ActiveFetches
      BY <2>1 DEF Having, ActiveFetches, IsFetch
  <2>4. WorkingJobStatus' /\ WorkingFetchBlocks'
      BY <2>1, <2>3 DEF QueueInv, WorkingJobStatus, WorkingFetchBlocks, IsFetch
  <2>5. RunningIsActive' /\ OneRunningJob' /\ OneActiveFetch'
      BY <1>11, <2>1, <2>2, <2>3
      DEF Release, QueueInv, RunningIsActive, OneRunningJob, OneActiveFetch
  <2> QED BY <2>4, <2>5 DEF QueueInv
<1>12. CASE HaltForStorage(b)
    BY <1>12, QueueGoto DEF HaltForStorage, durable
<1> QED BY <1>1, <1>2, <1>3, <1>4, <1>5, <1>6, <1>7, <1>8, <1>9, <1>10, <1>11, <1>12
        DEF Run

(* Watching a worker starts and ends no job. *)
LEMMA QueueSupervise ==
    ASSUME TypeOK, QueueInv, NEW b \in Boots, Supervise(b) PROVE QueueInv'
<1>1. CASE Progress(b)
  <2>1. SameJobs
      BY <1>1 DEF Progress, SameJobs, TypeOK, Record
  <2> QED BY <1>1, <2>1, StillMovesOn, QueueMoves DEF Progress, memory
<1>2. CASE SendStop(b)
    BY <1>2, StillMovesOn, QueueMoves DEF SendStop, durable, memory, SameJobs
<1>3. CASE LimitExceeded(b) \/ Stall(b)
    BY <1>3, QueueReap DEF LimitExceeded, Stall, durable, memory
<1>4. CASE LoseStorage(b)
    BY <1>4, QueueReap, QueueGoto
    DEF LoseStorage, durable, memory, WorkingCounters, WatchfulCounters, BusyCounters
<1> QED BY <1>1, <1>2, <1>3, <1>4 DEF Supervise

(* A worker never writes to the table. *)
LEMMA QueueWork ==
    ASSUME TypeOK, QueueInv, NEW b \in Boots, Work(b) PROVE QueueInv'
BY StillMovesOn, QueueMoves
DEF Work, ChildStart, ChildReport, ChildExit, durable, memory, SameJobs

(* Shutdown interrupts what is unfinished, or leaves it to the next        *)
(* start.                                                                  *)
LEMMA QueueClose ==
    ASSUME TypeOK, LockFollowsThread, QueueInv, NEW b \in Boots,
           BeginClose(b) \/ Close(b) \/ Crash(b)
    PROVE  QueueInv'
<1>1. CASE BeginClose(b)
  <2>1. MovesOn
      BY <1>1, ModeMovesOn DEF BeginClose, Settling
  <2> QED BY <1>1, <2>1, QueueMoves DEF BeginClose, durable, SameJobs
<1>2. CASE StopActiveTraining(b)
  <2>1. MovesOn
      BY <1>2, ModeMovesOn DEF StopActiveTraining, Settling
  <2>2. SameJobs
      BY <1>2 DEF StopActiveTraining, SameJobs, TypeOK, Record
  <2> QED BY <2>1, <2>2, QueueMoves
<1>3. CASE StopActiveFails(b)
  <2>1. MovesOn
      BY <1>3, ModeMovesOn DEF StopActiveFails, Settling
  <2> QED BY <1>3, <2>1, QueueMoves DEF StopActiveFails, durable, SameJobs
<1>4. CASE Terminate(b)
  <2>1. MovesOn
      BY <1>4, ModeMovesOn DEF Terminate, Settling
  <2> QED BY <1>4, <2>1, QueueMoves DEF Terminate, durable, SameJobs
<1>5. CASE Kill(b)
  <2>1. MovesOn
      BY <1>5, ModeMovesOn DEF Kill, Settling
  <2> QED BY <1>5, <2>1, QueueMoves DEF Kill, durable, SameJobs
<1>6. CASE BeginSettle(b)
  <2>1. MovesOn
      BY <1>6, ModeMovesOn DEF BeginSettle, Settling
  <2> QED BY <1>6, <2>1, QueueMoves DEF BeginSettle, durable, SameJobs
<1>7. CASE SettleJob(b)
  <2>1. PICK k \in JobIds : jobs' = Interrupted(k)
      BY <1>7 DEF SettleJob, Having
  <2>2. owner = b /\ mode[b] \in Settling
      BY <1>7 DEF SettleJob, LockFollowsThread, Settling
  <2> QED BY <1>7, <2>1, <2>2, QueueInterrupts DEF SettleJob, memory
<1>8. CASE SettleEnds(b)
  <2>1. MovesOn
      BY <1>8, ModeMovesOn DEF SettleEnds, Settling
  <2> QED BY <1>8, <2>1, QueueMoves DEF SettleEnds, durable, SameJobs
<1>9. CASE Unlock(b)
  <2>1. MovesOn
      BY <1>9, ModeMovesOn DEF Unlock, Settling
  <2> QED BY <1>9, <2>1, QueueMoves DEF Unlock, durable, SameJobs
<1>10. CASE Exit(b) \/ Crash(b)
  <2>1. Gone(b)
      BY <1>10 DEF Exit, Crash
  <2>2. /\ thread'[b].pc = "dead" /\ jobs' = jobs
        /\ \A c \in Boots \ {b} : thread'[c] = thread[c] /\ mode'[c] = mode[c]
      BY <2>1 DEF Gone, NoThread, TypeOK, durable
  <2>3. MovesOn
      BY <2>2 DEF MovesOn, WorkingCounters, WatchfulCounters, BusyCounters
  <2> QED BY <2>2, <2>3, QueueMoves DEF SameJobs
<1> QED BY <1>1, <1>2, <1>3, <1>4, <1>5, <1>6, <1>7, <1>8, <1>9, <1>10
        DEF Close, CloseRaised

(* Every step preserves the invariant of the queue.                        *)
LEMMA QueueStep ==
    ASSUME TypeOK, LockFollowsThread, QueueInv, [Next]_vars PROVE QueueInv'
<1>1. CASE UNCHANGED vars
    BY <1>1, StillMovesOn, QueueMoves DEF vars, SameJobs
<1>2. CASE CommandLineTakesProof \/ CommandLineReleasesProof
    BY <1>2, StillMovesOn, QueueMoves
    DEF CommandLineTakesProof, CommandLineReleasesProof, durable, memory, SameJobs
<1>3. CASE \E b \in Boots :
              \/ Start(b) \/ Handle(b) \/ Run(b) \/ Supervise(b) \/ Work(b)
              \/ BeginClose(b) \/ Close(b) \/ Crash(b)
    BY <1>3, QueueStart, QueueHandle, QueueRun, QueueSupervise, QueueWork, QueueClose
<1> QED BY <1>1, <1>2, <1>3 DEF Next

(* The invariant is of types, of the lock and of the queue. *)
LEMMA IndInvParts == IndInv <=> TypeOK /\ LockFollowsThread /\ QueueInv
BY DEF IndInv, QueueInv

(* The inductive invariant holds in every reachable state.                 *)
THEOREM Inductive == Spec => []IndInv
<1>1. Init => IndInv
    BY TypeOKInit, LockInit, QueueInit, IndInvParts
<1>2. IndInv /\ [Next]_vars => IndInv'
    BY TypeOKStep, LockStep, QueueStep, IndInvParts, PTL
<1> QED BY <1>1, <1>2, PTL DEF Spec

(* Every variable has its type in every reachable state.                   *)
THEOREM TypeCorrect == Spec => []TypeOK
<1>1. IndInv => TypeOK
    BY DEF IndInv
<1> QED BY <1>1, Inductive, PTL

(* Only the owner of the queue's file lock has a thread or a mode in which *)
(* it writes jobs: a refused second application writes nothing.            *)
THEOREM OwnerWrites == Spec => []OnlyOwnerWrites
<1>1. IndInv => OnlyOwnerWrites
    BY DEF IndInv, LockFollowsThread, OnlyOwnerWrites
<1> QED BY <1>1, Inductive, PTL

(* The table never shows two running jobs: not after a restart, a failed   *)
(* transaction or a shutdown that gave up on its scheduler.                *)
THEOREM AtMostOneRuns == Spec => []OneRunningJob
<1>1. IndInv => OneRunningJob
    BY DEF IndInv
<1> QED BY <1>1, Inductive, PTL

(* At most one download is queued, running or paused, over resumes, late   *)
(* runners and restarts.                                                   *)
THEOREM AtMostOneFetch == Spec => []OneActiveFetch
<1>1. IndInv => OneActiveFetch
    BY DEF IndInv
<1> QED BY <1>1, Inductive, PTL

-----------------------------------------------------------------------------
(* How a row of the table changes                                          *)

(* The row still stands for the same work.                                 *)
Keeps(r, s) == s.op = r.op /\ s.subject = r.subject

(* What can become of a row, as a relation between its record r before a   *)
(* step and s after it: a request is accepted, the scheduler takes the     *)
(* job, a waiting job is cancelled or resumed, a running one is asked to   *)
(* end, a download reports its phase, a boot marks lost work, a thread     *)
(* ends it.                                                                *)
RowAccepted(r, s) ==
    /\ r.status = "absent"
    /\ s.status = "queued" /\ s.requested = NoRequest /\ s.actions = {"cancel"}

RowTaken(r, s) ==
    /\ Keeps(r, s)
    /\ r.status = "queued" /\ s.status = "running"
    /\ s.requested = r.requested /\ s.actions = InitialRunningActions(r.op)

RowCancelled(r, s) ==
    /\ Keeps(r, s)
    /\ r.status \in {"queued", "paused"} /\ s.status = "cancelled"
    /\ s.requested = "cancel" /\ s.actions = {}

RowResumed(r, s) ==
    /\ Keeps(r, s)
    /\ r.op = "fetch_dataset"
    /\ r.status = "paused" /\ s.status = "queued"
    /\ s.requested = NoRequest /\ s.actions = {"cancel"}

RowAsked(r, s) ==
    /\ Keeps(r, s)
    /\ r.status = "running" /\ s.status = "running"
    /\ s.requested \in JobActions /\ s.actions = {}

RowReports(r, s) ==
    /\ Keeps(r, s)
    /\ r.op = "fetch_dataset"
    /\ r.status \in {"running", "interrupted"} /\ s.status = r.status
    /\ r.requested = NoRequest /\ s.requested = NoRequest
    /\ s.actions \subseteq {"cancel", "pause"}

RowInterrupted(r, s) ==
    /\ Keeps(r, s)
    /\ r.status \in Unfinished /\ s.status = "interrupted"
    /\ s.requested = r.requested /\ s.actions = {}

RowEnds(r, s) ==
    /\ Keeps(r, s)
    /\ r.status \in {"running", "interrupted"} /\ s.requested = r.requested
    /\ \/ /\ s.status \in {"completed", "failed", "stopped", "interrupted"}
          /\ s.actions = {}
       \/ /\ s.status = "cancelled"
          /\ s.requested = "cancel" /\ s.actions = {}
       \/ /\ s.status = "paused" /\ r.op = "fetch_dataset"
          /\ s.requested = "pause" /\ s.actions = {"resume", "cancel"}

(* Only row k changes.                                                     *)
OnlyRow(k) == \A j \in JobIds \ {k} : jobs'[j] = jobs[j]

(* A job ends through the thread that works on it.                         *)
EndedBy(b, k) ==
    /\ thread[b].pc \in {"finishing", "failing"}
    /\ thread[b].job = k
    /\ RowEnds(jobs[k], jobs'[k])

(* A new row is a handler's, which remembers the request; a fetch is       *)
(* accepted beside no cleanup.                                             *)
AcceptedBy(b, k) ==
    /\ Handling(b)
    /\ mutations' # mutations
    /\ RowAccepted(jobs[k], jobs'[k])
    /\ jobs'[k].op = "fetch_dataset" => ~cleanup[b]

(* A handler cancels a waiting job and forgets its secrets.                *)
CancelledBy(b, k) ==
    /\ Handling(b)
    /\ RowCancelled(jobs[k], jobs'[k])
    /\ secrets'[b] = secrets[b] \ {k}

(* Only start and the end of close interrupt what no thread ends.          *)
InterruptedBy(b, k) ==
    /\ mode[b] \in {"reconciling", "settling"}
    /\ RowInterrupted(jobs[k], jobs'[k])

(* The ways in which a step of b changes row k.                            *)
RowMovesBy(b, k) ==
    \/ AcceptedBy(b, k)
    \/ EndedBy(b, k)
    \/ RowTaken(jobs[k], jobs'[k])
    \/ CancelledBy(b, k)
    \/ RowResumed(jobs[k], jobs'[k])
    \/ RowAsked(jobs[k], jobs'[k])
    \/ RowReports(jobs[k], jobs'[k])
    \/ InterruptedBy(b, k)

(* A step of b changes one row at most.                                    *)
RowsKept == \A j \in JobIds : jobs'[j] = jobs[j]
RowStep(b) == RowsKept \/ \E k \in JobIds : OnlyRow(k) /\ RowMovesBy(b, k)

(* What Remember writes.                                                   *)
LEMMA Remembered ==
    ASSUME TypeOK, NEW b \in Boots, NEW k \in JobIds, NEW request, request.client \in ClientIds,
           request.what \in Operations \cup JobActions, request.about \in Subjects \cup JobIds,
           Remember(b, request, k)
    PROVE  LET m == mutations'[request.client] IN
           /\ m # NoMutation
           /\ m.what = request.what /\ m.about = request.about /\ m.job = k
           /\ \A c \in ClientIds \ {request.client} : mutations'[c] = mutations[c]
<1> DEFINE m == [what |-> request.what, about |-> request.about,
                 key |-> Key(b, request.what), job |-> k]
<1>1. m # NoMutation
    BY NullsAssumption DEF Key
<1>2. mutations' = [mutations EXCEPT ![request.client] = m]
    BY DEF Remember, Fingerprint
<1>3. /\ mutations'[request.client] = m
      /\ \A c \in ClientIds \ {request.client} : mutations'[c] = mutations[c]
    BY <1>2 DEF TypeOK
<1>4. m.what = request.what /\ m.about = request.about /\ m.job = k
    OBVIOUS
<1> HIDE DEF m
<1> QED BY <1>1, <1>3, <1>4

(* A submission fills one row ...                                          *)
LEMMA AcceptFills ==
    ASSUME TypeOK, NEW b \in Boots, NEW request \in Submissions, Accept(b, request)
    PROVE  \E k \in JobIds :
              /\ Vacant(k)
              /\ OnlyRow(k)
              /\ RowAccepted(jobs[k], jobs'[k])
              /\ jobs'[k].op = request.what /\ jobs'[k].subject = request.about
              /\ Remember(b, request, k)
<1>1. PICK k \in JobIds : /\ Vacant(k)
                          /\ jobs' = [jobs EXCEPT ![k] = QueuedRecord(request)]
                          /\ Remember(b, request, k)
    BY DEF Accept
<1>2. jobs'[k] = QueuedRecord(request) /\ OnlyRow(k)
    BY <1>1 DEF OnlyRow, TypeOK
<1>3. RowAccepted(jobs[k], jobs'[k])
    BY <1>1, <1>2 DEF RowAccepted, QueuedRecord, Vacant
<1>4. jobs'[k].op = request.what /\ jobs'[k].subject = request.about
    BY <1>2 DEF QueuedRecord
<1> QED BY <1>1, <1>2, <1>3, <1>4

(* ... a requested action changes one, as the handlers permit ...          *)
LEMMA ActionChangesRow ==
    ASSUME TypeOK, NEW b \in Boots, NEW request \in Commands, Action(b, request)
    PROVE  LET k == request.about IN
           /\ k \in JobIds
           /\ OnlyRow(k)
           /\ \/ RowCancelled(jobs[k], jobs'[k])
              \/ RowResumed(jobs[k], jobs'[k])
              \/ RowAsked(jobs[k], jobs'[k])
<1>1. request.about \in JobIds /\ request.what \in JobActions
    BY RequestsAssumption
<1>2. CASE IsFetch(request.about)
  <2> DEFINE k == request.about
  <2>1. jobs' = FetchActionChanges(k, request.what)
      BY <1>2 DEF Action
  <2>2. /\ k \in JobIds /\ request.what \in JobActions
        /\ jobs \in [JobIds -> Record] /\ jobs[k].op = "fetch_dataset"
      BY <1>1, <1>2 DEF TypeOK, IsFetch
  <2>3. \/ request.what = "cancel" /\ jobs[k].status \in {"queued", "running", "paused"}
        \/ request.what = "pause" /\ jobs[k].status = "running"
        \/ request.what = "resume" /\ jobs[k].status = "paused"
      BY <1>2 DEF Action, Supported, ActiveFetchStates, Unfinished
  <2>4. OnlyRow(k)
      BY <2>1, <2>2, FetchActionRow DEF OnlyRow
  <2>5. \/ RowCancelled(jobs[k], jobs'[k])
        \/ RowResumed(jobs[k], jobs'[k])
        \/ RowAsked(jobs[k], jobs'[k])
    <3> HIDE DEF k
    <3> QED BY <2>1, <2>2, <2>3, FetchActionRow
            DEF RowCancelled, RowResumed, RowAsked, Keeps
  <2> QED BY <2>2, <2>4, <2>5
<1>3. CASE ~IsFetch(request.about)
    BY <1>1, <1>3 DEF Action, Supported, ActionChanges, TypeOK, Record, OnlyRow,
       RowCancelled, RowAsked, Keeps
<1> QED BY <1>2, <1>3

(* ... start and close interrupt one at a time ...                         *)
LEMMA InterruptChangesRow ==
    ASSUME TypeOK, NEW k \in Having(Unfinished), jobs' = Interrupted(k)
    PROVE  k \in JobIds /\ OnlyRow(k) /\ RowInterrupted(jobs[k], jobs'[k])
BY DEF Having, Interrupted, Changed, TypeOK, Record, OnlyRow, RowInterrupted, Keeps

(* ... next_job takes one ...                                              *)
LEMMA NextJobTakesRow ==
    ASSUME TypeOK, NEW b \in Boots, NextJob(b), Startable # {}
    PROVE  \E k \in JobIds :
              /\ OnlyRow(k)
              /\ RowTaken(jobs[k], jobs'[k])
              /\ thread'[b].pc = "starting" /\ thread'[b].job = k
              /\ \A a \in Boots \ {b} : thread'[a] = thread[a]
<1>1. PICK k \in JobIds :
             /\ jobs[k].status = "queued"
             /\ jobs' = Changed(k, "running", InitialRunningActions(jobs[k].op))
             /\ thread' = [thread EXCEPT ![b].pc = "starting", ![b].job = k]
    BY DEF NextJob, Startable, Having
<1>2. OnlyRow(k) /\ RowTaken(jobs[k], jobs'[k])
    BY <1>1 DEF Changed, TypeOK, Record, OnlyRow, RowTaken, Keeps
<1>3. /\ thread'[b].pc = "starting" /\ thread'[b].job = k
      /\ \A a \in Boots \ {b} : thread'[a] = thread[a]
    BY <1>1 DEF TypeOK, Thread
<1> QED BY <1>2, <1>3

(* ... a progress record offers actions ...                                *)
LEMMA ProgressChangesRow ==
    ASSUME TypeOK, WorkingJobStatus, NEW b \in Boots, Progress(b)
    PROVE  /\ Active(b) \in JobIds /\ OnlyRow(Active(b))
           /\ RowReports(jobs[Active(b)], jobs'[Active(b)])
<1> DEFINE k == Active(b)
<1>1. k \in JobIds /\ jobs[k].status \in {"running", "interrupted"}
    BY DEF Progress, TypeOK, Thread, WorkingJobStatus, WorkingCounters, BusyCounters,
           Active
<1>2. IsFetch(k) /\ jobs[k].requested = NoRequest
    BY DEF Progress
<1>3. PICK actions \in {{"cancel"}, {"cancel", "pause"}} :
          jobs' = [jobs EXCEPT ![k].actions = actions]
    BY DEF Progress
<1> HIDE DEF k
<1>4. OnlyRow(k) /\ RowReports(jobs[k], jobs'[k])
    BY <1>1, <1>2, <1>3 DEF OnlyRow, RowReports, Keeps, IsFetch, TypeOK, Record
<1> QED BY <1>1, <1>4 DEF k

(* ... and the end of a job settles it.                                    *)
LEMMA EndChangesRow ==
    ASSUME TypeOK, WorkingJobStatus, NEW b \in Boots, NEW s, NEW a,
           thread[b].pc \in {"finishing", "failing"}, jobs' = Changed(Active(b), s, a),
           \/ s \in {"completed", "failed", "stopped", "interrupted"} /\ a = {}
           \/ s = "cancelled" /\ a = {} /\ jobs[Active(b)].requested = "cancel"
           \/ /\ s = "paused" /\ a = {"resume", "cancel"} /\ IsFetch(Active(b))
              /\ jobs[Active(b)].requested = "pause"
    PROVE  /\ Active(b) \in JobIds /\ OnlyRow(Active(b)) /\ EndedBy(b, Active(b))
           /\ jobs'[Active(b)].status = s
<1> DEFINE k == Active(b)
<1>1. /\ k \in JobIds /\ k = thread[b].job
      /\ jobs[k].status \in {"running", "interrupted"}
    BY DEF TypeOK, Thread, WorkingJobStatus, WorkingCounters, BusyCounters, Active
<1> HIDE DEF k
<1>2. /\ jobs'[k].status = s /\ jobs'[k].actions = a
      /\ jobs'[k].requested = jobs[k].requested
      /\ Keeps(jobs[k], jobs'[k]) /\ OnlyRow(k)
    BY <1>1 DEF k, Changed, OnlyRow, Keeps, TypeOK, Record
<1>3. RowEnds(jobs[k], jobs'[k])
    BY <1>1, <1>2 DEF k, RowEnds, IsFetch
<1> QED BY <1>1, <1>2, <1>3 DEF EndedBy, k

(* What the scheduler decides at the end of a job.                         *)
LEMMA FinishChangesRow ==
    ASSUME TypeOK, WorkingJobStatus, NEW b \in Boots, Finish(b) \/ ReportFailure(b),
           jobs' # jobs
    PROVE  /\ Active(b) \in JobIds /\ OnlyRow(Active(b)) /\ EndedBy(b, Active(b))
           /\ Goto(b, "releasing")
<1>1. CASE ReportFailure(b)
    BY <1>1, EndChangesRow DEF ReportFailure
<1>2. CASE Finish(b)
  <2> DEFINE s == FinalStatus(b, Active(b))
             a == IF s = "paused" THEN {"resume", "cancel"} ELSE {}
  <2>1. /\ thread[b].pc = "finishing" /\ s # "raises" /\ Goto(b, "releasing")
        /\ jobs' = Changed(Active(b), s, a)
      BY <1>2 DEF Finish
  <2>2. \/ s \in {"completed", "failed", "stopped", "interrupted"} /\ a = {}
        \/ s = "cancelled" /\ a = {} /\ jobs[Active(b)].requested = "cancel"
        \/ /\ s = "paused" /\ a = {"resume", "cancel"} /\ IsFetch(Active(b))
           /\ jobs[Active(b)].requested = "pause"
      BY <2>1 DEF FinalStatus, StoppedStatus
  <2> HIDE DEF s, a
  <2> QED BY <2>1, <2>2, EndChangesRow
<1> QED BY <1>1, <1>2

(* The request that close makes of a running training job.                 *)
LEMMA StopActiveRow ==
    ASSUME TypeOK, NEW b \in Boots, StopActiveTraining(b)
    PROVE  RowStep(b)
<1> DEFINE k == Active(b)
<1>1. CASE k # NoJob /\ jobs[k].op = "train" /\ jobs[k].status = "running"
  <2>1. k \in JobIds
      BY <1>1 DEF TypeOK, Thread, Active
  <2>2. jobs' = [jobs EXCEPT ![k].requested = "stop", ![k].actions = {}]
      BY <1>1 DEF StopActiveTraining
  <2> HIDE DEF k
  <2>3. OnlyRow(k) /\ RowAsked(jobs[k], jobs'[k])
      BY <1>1, <2>1, <2>2 DEF OnlyRow, RowAsked, Keeps, TypeOK, Record, JobActions
  <2> QED BY <2>1, <2>3 DEF RowStep, RowMovesBy
<1>2. CASE ~(k # NoJob /\ jobs[k].op = "train" /\ jobs[k].status = "running")
    BY <1>2 DEF StopActiveTraining, RowStep, RowsKept
<1> QED BY <1>1, <1>2

(* A handler changes rows as it may.                                       *)
LEMMA HandleRows ==
    ASSUME TypeOK, NEW b \in Boots, Handle(b) PROVE RowStep(b)
<1>1. ASSUME NEW request \in Submissions, Accept(b, request),
             request.what = "fetch_dataset" => ~cleanup[b]
      PROVE  RowStep(b)
  <2>1. PICK k \in JobIds : /\ OnlyRow(k) /\ RowAccepted(jobs[k], jobs'[k])
                            /\ jobs'[k].op = request.what
                            /\ Remember(b, request, k)
      BY <1>1, AcceptFills
  <2>3. mutations' # mutations
    <3>1. /\ request.client \in ClientIds /\ request.what \in Operations
          /\ request.about \in Subjects
        BY RequestsAssumption
    <3>2. mutations'[request.client] # NoMutation
        BY <2>1, <3>1, Remembered
    <3> QED BY <1>1, <3>2 DEF Accept, New
  <2>2. AcceptedBy(b, k)
      BY <1>1, <2>1, <2>3 DEF AcceptedBy, Accept
  <2> QED BY <2>1, <2>2 DEF RowStep, RowMovesBy
<1>2. CASE \E request \in Submissions :
              Submit(b, request) \/ SubmitFetch(b, request) \/ SubmitInference(b, request)
    BY <1>1, <1>2
    DEF Submit, SubmitFetch, SubmitInference, TrainingFamily, InferenceOperations
<1>3. ASSUME NEW request \in Commands, Action(b, request) PROVE RowStep(b)
  <2> DEFINE k == request.about
  <2>1. /\ k \in JobIds /\ OnlyRow(k)
        /\ \/ RowCancelled(jobs[k], jobs'[k])
           \/ RowResumed(jobs[k], jobs'[k])
           \/ RowAsked(jobs[k], jobs'[k])
      BY <1>3, ActionChangesRow
  <2>2. RowCancelled(jobs[k], jobs'[k]) => CancelledBy(b, k)
      BY <1>3 DEF Action, CancelledBy, RowCancelled, TypeOK
  <2> HIDE DEF k
  <2> QED BY <2>1, <2>2 DEF RowStep, RowMovesBy
<1>4. CASE BeginCleanup(b) \/ EndCleanup(b)
    BY <1>4 DEF BeginCleanup, EndCleanup, durable, RowStep, RowsKept
<1> QED BY <1>2, <1>3, <1>4 DEF Handle

(* A step of a boot changes at most one row, in one of these ways.         *)
LEMMA BootRows ==
    ASSUME TypeOK, WorkingJobStatus, NEW b \in Boots,
           \/ Start(b) \/ Handle(b) \/ Run(b) \/ Supervise(b) \/ Work(b)
           \/ BeginClose(b) \/ Close(b) \/ Crash(b)
    PROVE  RowStep(b)
<1>1. jobs' = jobs => RowStep(b)
    BY DEF RowStep, RowsKept
<1>2. CASE /\ mode[b] \in {"reconciling", "settling"}
           /\ \E k \in Having(Unfinished) : jobs' = Interrupted(k)
    BY <1>2, InterruptChangesRow DEF InterruptedBy, RowStep, RowMovesBy
<1>3. CASE Start(b)
    BY <1>1, <1>2, <1>3
    DEF Start, TakeQueueLock, ReconcileJob, StartFails, StartScheduler, durable
<1>4. CASE Handle(b)
    BY <1>4, HandleRows
<1>5. CASE Run(b)
  <2>1. CASE NextJob(b)
      BY <1>1, <2>1, NextJobTakesRow DEF NextJob, RowStep, RowMovesBy
  <2>2. CASE Finish(b) \/ ReportFailure(b)
      BY <1>1, <2>2, FinishChangesRow DEF RowStep, RowMovesBy
  <2> QED BY <1>1, <1>5, <2>1, <2>2
          DEF Run, CheckClosing, RunJob, PopSecrets, ReportPhase, SpawnPackage, Reaped,
              CollectExit, Release, HaltForStorage, durable
<1>6. CASE Supervise(b)
    BY <1>1, <1>6, ProgressChangesRow
    DEF Supervise, SendStop, LimitExceeded, Stall, LoseStorage, durable, RowStep,
        RowMovesBy
<1>7. CASE Work(b)
    BY <1>1, <1>7 DEF Work, ChildStart, ChildReport, ChildExit, durable
<1>8. CASE BeginClose(b) \/ Close(b) \/ Crash(b)
  <2>1. CASE SettleJob(b)
      BY <1>2, <2>1 DEF SettleJob
  <2>2. CASE StopActiveTraining(b)
      BY <2>2, StopActiveRow
  <2> QED BY <1>1, <1>8, <2>1, <2>2
          DEF Close, CloseRaised, BeginClose, StopActiveFails, Terminate, Kill,
              BeginSettle, SettleEnds, Unlock, Exit, Crash, Gone, durable
<1> QED BY <1>3, <1>4, <1>5, <1>6, <1>7, <1>8

(* Nothing else changes the table.                                         *)
LEMMA NextRows ==
    ASSUME TypeOK, WorkingJobStatus, [Next]_vars
    PROVE  RowsKept \/ \E b \in Boots : RowStep(b)
<1>1. CASE UNCHANGED vars
    BY <1>1 DEF vars, RowsKept
<1>2. CASE CommandLineTakesProof \/ CommandLineReleasesProof
    BY <1>2 DEF CommandLineTakesProof, CommandLineReleasesProof, durable, RowsKept
<1>3. CASE \E b \in Boots :
              \/ Start(b) \/ Handle(b) \/ Run(b) \/ Supervise(b) \/ Work(b)
              \/ BeginClose(b) \/ Close(b) \/ Crash(b)
    BY <1>3, BootRows
<1> QED BY <1>1, <1>2, <1>3 DEF Next

-----------------------------------------------------------------------------
(* Requests are honoured, endings are final                                *)

(* ActionsHonoured for one row.                                            *)
RowHonoured(r) ==
    /\ \/ r.status \in {"absent", "interrupted"}
       \/ \A action \in r.actions :
             IF r.op = "fetch_dataset"
               THEN \/ action = "cancel" /\ r.status \in ActiveFetchStates
                    \/ action = "pause" /\ r.status = "running"
                    \/ action = "resume" /\ r.status = "paused"
               ELSE \/ action = "cancel" /\ r.status = "queued"
                    \/ action = "stop" /\ r.status = "running" /\ r.op = "train"
    /\ r.status = "running" /\ r.requested # NoRequest => r.actions = {}
    /\ r.status = "cancelled" => r.requested = "cancel"
    /\ r.status = "paused" => r.requested = "pause"
    /\ r.status = "queued" => r.requested = NoRequest

RowsHonoured == \A j \in JobIds : RowHonoured(jobs[j])

(* If every row keeps its promises, the property holds.                    *)
LEMMA HonouredRows == RowsHonoured => ActionsHonoured
BY DEF RowsHonoured, RowHonoured, ActionsHonoured, Accepted, Supported, IsFetch

(* No way in which a row changes breaks a promise.                         *)
LEMMA RowHonouredMoves ==
    ASSUME NEW b \in Boots, NEW k \in JobIds, RowHonoured(jobs[k]), RowMovesBy(b, k)
    PROVE  RowHonoured(jobs'[k])
<1> DEFINE r == jobs[k]
           s == jobs'[k]
<1> USE DEF RowHonoured, Keeps, ActiveFetchStates, Unfinished
<1>1. CASE AcceptedBy(b, k)
    BY <1>1 DEF AcceptedBy, RowAccepted
<1>2. CASE EndedBy(b, k)
    BY <1>2 DEF EndedBy, RowEnds
<1>3. CASE RowTaken(r, s)
    BY <1>3 DEF RowTaken, InitialRunningActions
<1>4. CASE CancelledBy(b, k) \/ RowResumed(r, s) \/ RowAsked(r, s) \/ InterruptedBy(b, k)
    BY <1>4
    DEF CancelledBy, RowCancelled, RowResumed, RowAsked, InterruptedBy, RowInterrupted
<1>5. CASE RowReports(r, s)
    BY <1>5 DEF RowReports
<1> QED BY <1>1, <1>2, <1>3, <1>4, <1>5 DEF RowMovesBy

(* So every step keeps the promises of every row.                          *)
LEMMA RowsHonouredStep ==
    ASSUME TypeOK, WorkingJobStatus, RowsHonoured, [Next]_vars PROVE RowsHonoured'
<1> SUFFICES ASSUME NEW j \in JobIds PROVE RowHonoured(jobs'[j])
    BY DEF RowsHonoured, RowHonoured
<1>1. RowHonoured(jobs[j])
    BY DEF RowsHonoured
<1>2. CASE RowsKept
    BY <1>1, <1>2 DEF RowsKept
<1>3. CASE \E b \in Boots : RowStep(b)
    BY <1>1, <1>3, RowHonouredMoves DEF RowStep, RowsKept, OnlyRow
<1> QED BY <1>2, <1>3, NextRows

(* What a job offers is supported in every state it passes, a pending      *)
(* request withdraws every offer, and a job is cancelled or paused only    *)
(* because exactly that was requested (workspace_jobs.py: action,          *)
(* _change).                                                               *)
THEOREM RequestsHonoured == Spec => []ActionsHonoured
<1>1. Init => RowsHonoured
    BY DEF Init, NoRecord, RowsHonoured, RowHonoured
<1>2. IndInv /\ RowsHonoured /\ [Next]_vars => RowsHonoured'
    BY RowsHonouredStep DEF IndInv
<1> QED BY <1>1, <1>2, Inductive, HonouredRows, PTL DEF Spec

(* A step leaves an ended row alone, and does not bring an interrupted one *)
(* back.                                                                   *)
LEMMA EndedRows ==
    ASSUME TypeOK, WorkingJobStatus, [Next]_vars, NEW j \in JobIds
    PROVE  /\ jobs[j].status \in Settled => jobs'[j] = jobs[j]
           /\ jobs[j].status = "interrupted" =>
                 jobs'[j].status \notin {"queued", "running", "absent"}
<1>1. CASE RowsKept
    BY <1>1 DEF RowsKept
<1>2. ASSUME NEW b \in Boots, RowMovesBy(b, j)
      PROVE  /\ jobs[j].status \notin Settled
             /\ jobs[j].status = "interrupted" =>
                   jobs'[j].status \notin {"queued", "running", "absent"}
    BY <1>2 DEF RowMovesBy, CancelledBy, InterruptedBy, AcceptedBy, EndedBy,
           RowAccepted, RowEnds, RowTaken, RowCancelled, RowResumed, RowAsked,
           RowReports, RowInterrupted, Settled, Unfinished
<1>3. CASE \E b \in Boots : RowStep(b)
    BY <1>2, <1>3 DEF RowStep, RowsKept, OnlyRow
<1> QED BY <1>1, <1>3, NextRows

(* A completed, failed, stopped or cancelled row never changes again, and  *)
(* an interrupted one never goes back to the queue (workspace_jobs.py:     *)
(* _change, action).                                                       *)
THEOREM EndingsAreFinal == Spec => EndedStaysEnded
<1>1. IndInv /\ [Next]_vars =>
        [\A j \in JobIds :
          /\ jobs[j].status \in Settled => jobs'[j] = jobs[j]
          /\ jobs[j].status = "interrupted" =>
                jobs'[j].status \notin {"queued", "running", "absent"}]_vars
    BY EndedRows DEF IndInv
<1> QED BY <1>1, Inductive, PTL DEF Spec, EndedStaysEnded

-----------------------------------------------------------------------------
(* What a step of one boot leaves of the others, and of its own thread     *)

(* The steps of one application.                                           *)
BootStep(b) ==
    \/ Start(b) \/ Handle(b) \/ Run(b) \/ Supervise(b) \/ Work(b)
    \/ BeginClose(b) \/ Close(b) \/ Crash(b)

(* The memory of a boot and its worker.                                    *)
SameBoot(a) ==
    /\ mode'[a] = mode[a] /\ closing'[a] = closing[a]
    /\ cleanup'[a] = cleanup[a] /\ secrets'[a] = secrets[a]
    /\ thread'[a] = thread[a] /\ child'[a] = child[a]

(* No step of a boot touches another one.                                  *)
LEMMA OthersStay ==
    ASSUME TypeOK, NEW b \in Boots, BootStep(b), NEW a \in Boots \ {b}
    PROVE  SameBoot(a)
<1>0. /\ thread \in [Boots -> Thread] /\ child \in [Boots -> Child]
      /\ mode \in [Boots -> Modes] /\ closing \in [Boots -> BOOLEAN]
      /\ cleanup \in [Boots -> BOOLEAN] /\ secrets \in [Boots -> SUBSET JobIds]
    BY DEF TypeOK
<1> USE DEF SameBoot, memory
<1>1. CASE Start(b)
    BY <1>0, <1>1
    DEF Start, TakeQueueLock, ReconcileJob, StartFails, StartScheduler, Goto
<1>2. CASE Handle(b)
    BY <1>0, <1>2
    DEF Handle, Submit, SubmitFetch, SubmitInference, Accept, Action, BeginCleanup,
        EndCleanup
<1>3. CASE Run(b)
  <2>1. CASE CheckClosing(b) \/ NextJob(b) \/ RunJob(b) \/ PopSecrets(b) \/ ReportPhase(b)
      BY <1>0, <2>1 DEF CheckClosing, NextJob, RunJob, PopSecrets, ReportPhase, Goto
  <2>2. CASE SpawnPackage(b) \/ Reaped(b) \/ CollectExit(b) \/ Finish(b)
      BY <1>0, <2>2 DEF SpawnPackage, Reaped, CollectExit, Finish, Goto
  <2>3. CASE ReportFailure(b) \/ Release(b) \/ HaltForStorage(b)
      BY <1>0, <2>3 DEF ReportFailure, Release, HaltForStorage, Goto
  <2> QED BY <1>3, <2>1, <2>2, <2>3 DEF Run
<1>4. CASE Supervise(b)
    BY <1>0, <1>4
    DEF Supervise, Progress, SendStop, LimitExceeded, Stall, LoseStorage, Reap, Goto
<1>5. CASE Work(b)
    BY <1>0, <1>5 DEF Work, ChildStart, ChildReport, ChildExit, Ends
<1>6. CASE BeginClose(b) \/ Close(b) \/ Crash(b)
  <2>1. CASE BeginClose(b) \/ CloseRaised(b) \/ StopActiveTraining(b) \/ StopActiveFails(b)
      BY <1>0, <2>1 DEF CloseRaised, BeginClose, StopActiveTraining, StopActiveFails
  <2>2. CASE Terminate(b) \/ Kill(b) \/ BeginSettle(b)
      BY <1>0, <2>2 DEF Terminate, Kill, BeginSettle, Ends
  <2>3. CASE SettleJob(b) \/ SettleEnds(b) \/ Unlock(b) \/ Exit(b) \/ Crash(b)
      BY <1>0, <2>3 DEF SettleJob, SettleEnds, Unlock, Exit, Crash, Gone
  <2> QED BY <1>6, <2>1, <2>2, <2>3 DEF Close
<1> QED BY <1>1, <1>2, <1>3, <1>4, <1>5, <1>6 DEF BootStep

(* A command-line user touches no boot and no row.                         *)
LEMMA CommandLineStays ==
    ASSUME CommandLineTakesProof \/ CommandLineReleasesProof
    PROVE  RowsKept /\ owner' = owner /\ \A a \in Boots : SameBoot(a)
BY DEF CommandLineTakesProof, CommandLineReleasesProof, RowsKept, SameBoot, durable,
       memory

(* What a boot works on it worked on before, or it takes a queued job.     *)
KeepsJob(b) == thread[b].pc \in WorkingCounters /\ thread'[b].job = thread[b].job
(* ... or it takes a queued job from the table.                            *)
TakesJob(b) ==
    /\ thread[b].pc = "polling" /\ thread'[b].pc = "starting"
    /\ \E k \in JobIds : /\ thread'[b].job = k /\ OnlyRow(k)
                         /\ RowTaken(jobs[k], jobs'[k])

(* The scheduler works on the job it worked on, or takes a queued one.     *)
LEMMA RunKeepsJob ==
    ASSUME TypeOK, NEW b \in Boots, Run(b), thread'[b].pc \in WorkingCounters
    PROVE  KeepsJob(b) \/ TakesJob(b)
<1>0. thread \in [Boots -> Thread] /\ thread[b] \in Thread
    BY DEF TypeOK
<1> USE DEF WorkingCounters, KeepsJob
<1>1. CASE CheckClosing(b) \/ RunJob(b) \/ PopSecrets(b) \/ ReportPhase(b)
    BY <1>0, <1>1 DEF CheckClosing, RunJob, PopSecrets, ReportPhase, Goto, Thread
<1>2. CASE NextJob(b)
  <2>1. CASE Startable = {}
      BY <1>0, <1>2, <2>1 DEF NextJob, Goto, Thread
  <2>2. CASE Startable # {}
      BY <1>2, <2>2, NextJobTakesRow DEF TakesJob, NextJob
  <2> QED BY <2>1, <2>2
<1>3. CASE SpawnPackage(b) \/ Reaped(b) \/ CollectExit(b) \/ Finish(b)
    BY <1>0, <1>3 DEF SpawnPackage, Reaped, CollectExit, Finish, Goto, Thread
<1>4. CASE ReportFailure(b) \/ Release(b) \/ HaltForStorage(b)
    BY <1>0, <1>4 DEF ReportFailure, Release, HaltForStorage, Goto, NoThread, Thread
<1> QED BY <1>1, <1>2, <1>3, <1>4 DEF Run

(* So does every step of an application.                                   *)
LEMMA BootKeepsJob ==
    ASSUME TypeOK, NEW b \in Boots, BootStep(b), thread'[b].pc \in WorkingCounters
    PROVE  KeepsJob(b) \/ TakesJob(b)
<1>0. thread \in [Boots -> Thread] /\ thread[b] \in Thread
    BY DEF TypeOK
<1>1. CASE Run(b)
    BY <1>1, RunKeepsJob
<1>2. CASE Start(b)
    BY <1>0, <1>2
    DEF Start, TakeQueueLock, ReconcileJob, StartFails, StartScheduler, Goto, Thread,
        WorkingCounters, KeepsJob
<1>3. CASE Handle(b) \/ Work(b)
    BY <1>0, <1>3
    DEF Handle, Submit, SubmitFetch, SubmitInference, Accept, Action, BeginCleanup,
        EndCleanup, Work, ChildStart, ChildReport, ChildExit, KeepsJob
<1>4. CASE Supervise(b)
    BY <1>0, <1>4
    DEF Supervise, Progress, SendStop, LimitExceeded, Stall, LoseStorage, Reap, Goto,
        Thread, WorkingCounters, KeepsJob
<1>5. CASE BeginClose(b) \/ Close(b) \/ Crash(b)
    BY <1>0, <1>5
    DEF Close, CloseRaised, BeginClose, StopActiveTraining, StopActiveFails, Terminate,
        Kill, BeginSettle, SettleJob, SettleEnds, Unlock, Exit, Crash, Gone, NoThread,
        WorkingCounters, KeepsJob
<1> QED BY <1>1, <1>2, <1>3, <1>4, <1>5 DEF BootStep

(* The lock, the start of a boot and its cleanup flag move as follows.     *)
LEMMA BootMoves ==
    ASSUME TypeOK, NEW b \in Boots, BootStep(b)
    PROVE  /\ \/ owner' \in {owner, NoBoot}
              \/ owner' = b /\ owner = NoBoot /\ TakeQueueLock(b)
           /\ mode'[b] = "off" => mode[b] = "off"
           /\ cleanup'[b] => cleanup[b] \/ BeginCleanup(b)
<1>0. mode \in [Boots -> Modes] /\ cleanup \in [Boots -> BOOLEAN]
    BY DEF TypeOK
<1>1. CASE Start(b)
    BY <1>0, <1>1
    DEF Start, TakeQueueLock, ReconcileJob, StartFails, StartScheduler, memory
<1>2. CASE Handle(b)
    BY <1>0, <1>2
    DEF Handle, Submit, SubmitFetch, SubmitInference, Accept, Action, EndCleanup,
        BeginCleanup
<1>3. CASE Run(b) \/ Work(b)
    BY <1>0, <1>3
    DEF Run, CheckClosing, NextJob, RunJob, PopSecrets, ReportPhase, SpawnPackage, Reaped,
        CollectExit, Finish, ReportFailure, Release, HaltForStorage, Work, ChildStart,
        ChildReport, ChildExit, memory
<1>4. CASE Supervise(b)
    BY <1>0, <1>4
    DEF Supervise, Progress, SendStop, LimitExceeded, Stall, LoseStorage, memory
<1>5. CASE BeginClose(b) \/ Close(b) \/ Crash(b)
    BY <1>0, <1>5
    DEF Close, CloseRaised, BeginClose, StopActiveTraining, StopActiveFails, Terminate,
        Kill, BeginSettle, SettleJob, SettleEnds, Unlock, Exit, Crash, Gone, memory
<1> QED BY <1>1, <1>2, <1>3, <1>4, <1>5 DEF BootStep

(* A row keeps its operation and its subject once it is accepted.          *)
LEMMA RowsKeepWork ==
    ASSUME NEW b \in Boots, RowStep(b), NEW j \in JobIds, jobs[j].status # "absent"
    PROVE  /\ Keeps(jobs[j], jobs'[j]) /\ jobs'[j].status # "absent"
           /\ IsFetch(j)' = IsFetch(j) /\ IsInference(j)' = IsInference(j)
<1>1. ASSUME RowMovesBy(b, j)
      PROVE  Keeps(jobs[j], jobs'[j]) /\ jobs'[j].status # "absent"
    BY <1>1 DEF RowMovesBy, CancelledBy, InterruptedBy, AcceptedBy, EndedBy,
           RowAccepted, RowEnds, RowTaken, RowCancelled, RowResumed, RowAsked,
           RowReports, RowInterrupted
<1>2. Keeps(jobs[j], jobs'[j]) /\ jobs'[j].status # "absent"
    BY <1>1 DEF RowStep, RowsKept, OnlyRow, Keeps
<1> QED BY <1>2 DEF Keeps, IsFetch, IsInference

-----------------------------------------------------------------------------
(* A cleanup of the cache excludes downloads                               *)

(* The inductive invariant: no application cleans before it starts, and    *)
(* the thread of a cleaning one works on no download. That makes the pause *)
(* of a download the only way in which one could become active again.      *)
CleanupInv ==
    /\ CleanupExcludesFetch
    /\ \A b \in Boots : mode[b] = "off" => ~cleanup[b]
    /\ \A b \in Boots : owner = b /\ cleanup[b] /\ thread[b].pc \in WorkingCounters =>
                            ~IsFetch(thread[b].job)

(* No download becomes active beside a cleanup, unless a thread pauses     *)
(* one.                                                                    *)
LEMMA NoNewFetch ==
    ASSUME NEW b \in Boots, RowStep(b), ActiveFetches = {},
           \A k \in JobIds : EndedBy(b, k) => ~IsFetch(k),
           \A k \in JobIds : AcceptedBy(b, k) => jobs'[k].op # "fetch_dataset"
    PROVE  ActiveFetches' = {}
<1> SUFFICES ASSUME NEW j \in JobIds, jobs'[j].op = "fetch_dataset",
                    jobs'[j].status \in ActiveFetchStates
             PROVE  FALSE
    BY DEF ActiveFetches, Having, IsFetch
<1>1. ~(jobs[j].op = "fetch_dataset" /\ jobs[j].status \in ActiveFetchStates)
    BY DEF ActiveFetches, Having, IsFetch
<1>2. RowMovesBy(b, j)
    BY <1>1 DEF RowStep, RowsKept, OnlyRow
<1>3. CASE AcceptedBy(b, j)
    BY <1>3
<1>4. CASE EndedBy(b, j)
    BY <1>4 DEF EndedBy, RowEnds, Keeps, IsFetch, ActiveFetchStates, Unfinished
<1> QED BY <1>1, <1>2, <1>3, <1>4
        DEF RowMovesBy, CancelledBy, InterruptedBy, RowTaken, RowCancelled, RowResumed,
            RowAsked, RowReports, RowInterrupted, Keeps, ActiveFetchStates, Unfinished

(* A thread that works holds the lock, and its row is running or was       *)
(* marked as interrupted behind it.                                        *)
LEMMA WorkingJob ==
    ASSUME TypeOK, LockFollowsThread, WorkingJobStatus, NEW b \in Boots,
           thread[b].pc \in WorkingCounters
    PROVE  /\ owner = b /\ thread[b].job \in JobIds
           /\ jobs[thread[b].job].status \in {"running", "interrupted"}
BY DEF TypeOK, Thread, LockFollowsThread, Alive, WorkingJobStatus, WorkingCounters,
       BusyCounters

(* Every step of an application keeps the cleanup apart ...                *)
LEMMA CleanupBoot ==
    ASSUME IndInv, CleanupInv, NEW b \in Boots, BootStep(b) PROVE CleanupInv'
<1>0. TypeOK /\ LockFollowsThread /\ WorkingJobStatus
    BY DEF IndInv
<1>1. RowStep(b)
    BY <1>0, BootRows DEF BootStep
<1>2. /\ \/ owner' \in {owner, NoBoot}
         \/ owner' = b /\ owner = NoBoot /\ TakeQueueLock(b)
      /\ mode'[b] = "off" => mode[b] = "off"
      /\ cleanup'[b] => cleanup[b] \/ BeginCleanup(b)
    BY <1>0, BootMoves
<1>3. \A a \in Boots \ {b} : SameBoot(a)
    BY <1>0, OthersStay
<1>4. \A a \in Boots : mode'[a] = "off" => ~cleanup'[a]
    BY <1>2, <1>3 DEF CleanupInv, SameBoot, BeginCleanup, Handling
<1>5. ASSUME NEW c \in Boots, owner' = c, cleanup'[c]
      PROVE  /\ owner = c /\ ActiveFetches = {}
             /\ cleanup[c] \/ (c = b /\ BeginCleanup(b))
  <2>1. c # NoBoot
      BY NullsAssumption
  <2>2. CASE c # b
      BY <1>2, <1>3, <1>5, <2>1, <2>2 DEF SameBoot, CleanupInv, CleanupExcludesFetch
  <2>3. CASE c = b
    <3>1. ~TakeQueueLock(b)
        BY <1>2, <1>5, <2>3 DEF TakeQueueLock, BeginCleanup, Handling, CleanupInv
    <3> QED BY <1>2, <1>5, <2>1, <2>3, <3>1
            DEF CleanupInv, CleanupExcludesFetch, BeginCleanup
  <2> QED BY <2>2, <2>3
<1>6. ASSUME NEW c \in Boots, owner' = c, cleanup'[c]
      PROVE  ActiveFetches' = {}
  <2>1. ASSUME NEW k \in JobIds, EndedBy(b, k) PROVE ~IsFetch(k)
    <3>1. /\ thread[b].pc \in WorkingCounters /\ thread[b].job = k /\ owner = b
          /\ c = b
        BY <1>0, <1>5, <1>6, <2>1, WorkingJob DEF EndedBy, WorkingCounters
    <3>2. CASE cleanup[b]
        BY <3>1, <3>2 DEF CleanupInv
    <3>3. CASE BeginCleanup(b)
      <4>1. jobs'[k] = jobs[k] /\ mode[b] \notin Settling
          BY <1>0, <3>3, HandlingOwns DEF BeginCleanup, durable
      <4>2. jobs[k].status = "running"
          BY <1>0, <3>1, <4>1 DEF WorkingJobStatus
      <4> QED BY <1>5, <1>6, <4>2 DEF ActiveFetches, Having, ActiveFetchStates, Unfinished
    <3> QED BY <1>5, <1>6, <3>1, <3>2, <3>3
  <2>2. ASSUME NEW k \in JobIds, AcceptedBy(b, k) PROVE jobs'[k].op # "fetch_dataset"
    <3>1. owner = b
        BY <1>0, <2>2, HandlingOwns DEF AcceptedBy
    <3>2. ~BeginCleanup(b)
        BY <2>2 DEF AcceptedBy, RowAccepted, BeginCleanup, durable
    <3> QED BY <1>5, <1>6, <2>2, <3>1, <3>2 DEF AcceptedBy
  <2> QED BY <1>1, <1>5, <1>6, <2>1, <2>2, NoNewFetch
<1>7. ASSUME NEW c \in Boots, owner' = c, cleanup'[c], thread'[c].pc \in WorkingCounters
      PROVE  ~IsFetch(thread[c].job)'
  <2>0. owner = c /\ ActiveFetches = {} /\ (cleanup[c] \/ (c = b /\ BeginCleanup(b)))
      BY <1>5, <1>7
  <2>1. CASE thread[c].pc \in WorkingCounters /\ thread'[c].job = thread[c].job
    <3>1. thread[c].job \in JobIds /\ jobs[thread[c].job].status \in {"running", "interrupted"}
        BY <1>0, <2>1, WorkingJob
    <3>2. IsFetch(thread[c].job)' = (jobs'[thread[c].job].op = "fetch_dataset")
        BY <2>1 DEF IsFetch
    <3>3. IsFetch(thread[c].job)' <=> IsFetch(thread[c].job)
        BY <1>1, <3>1, <3>2, RowsKeepWork DEF Keeps, IsFetch
    <3>4. CASE cleanup[c]
        BY <2>0, <2>1, <3>3, <3>4 DEF CleanupInv
    <3>5. CASE c = b /\ BeginCleanup(b)
      <4>1. mode[b] \notin Settling
          BY <1>0, <3>5, HandlingOwns DEF BeginCleanup
      <4>2. jobs[thread[c].job].status = "running"
          BY <1>0, <2>1, <3>5, <4>1 DEF WorkingJobStatus
      <4> QED BY <2>0, <3>1, <3>3, <4>2 DEF ActiveFetches, Having, ActiveFetchStates,
          Unfinished
    <3> QED BY <2>0, <3>4, <3>5
  <2>2. CASE c = b /\ TakesJob(b)
    <3>1. PICK k \in JobIds : thread'[b].job = k /\ RowTaken(jobs[k], jobs'[k])
        BY <2>2 DEF TakesJob
    <3> QED BY <2>0, <2>2, <3>1
            DEF RowTaken, Keeps, IsFetch, ActiveFetches, Having, ActiveFetchStates,
                Unfinished
  <2>3. CASE c # b
      BY <1>3, <1>7, <2>1, <2>3 DEF SameBoot
  <2> QED BY <1>0, <1>7, <2>1, <2>2, <2>3, BootKeepsJob DEF KeepsJob
<1> QED BY <1>4, <1>6, <1>7 DEF CleanupInv, CleanupExcludesFetch

(* ... and so does every step of the system.                               *)
LEMMA CleanupStep ==
    ASSUME IndInv, CleanupInv, [Next]_vars PROVE CleanupInv'
<1>1. CASE UNCHANGED vars
    BY <1>1 DEF vars, CleanupInv, CleanupExcludesFetch, ActiveFetches, Having, IsFetch
<1>2. CASE CommandLineTakesProof \/ CommandLineReleasesProof
    BY <1>2 DEF CommandLineTakesProof, CommandLineReleasesProof, durable, memory,
           CleanupInv, CleanupExcludesFetch, ActiveFetches, Having, IsFetch
<1> QED BY <1>1, <1>2, CleanupBoot DEF Next, BootStep

(* While an application deletes unused entries of the cache, it has no     *)
(* download that is queued, running or paused (dataset_source_service.py:  *)
(* remove_unused).                                                         *)
THEOREM CleanupIsExclusive == Spec => []CleanupExcludesFetch
<1>1. Init => CleanupInv
    BY DEF Init, CleanupInv, CleanupExcludesFetch
<1>2. IndInv /\ CleanupInv /\ [Next]_vars => CleanupInv'
    BY CleanupStep
<1>3. CleanupInv => CleanupExcludesFetch
    BY DEF CleanupInv
<1> QED BY <1>1, <1>2, <1>3, Inductive, PTL DEF Spec

-----------------------------------------------------------------------------
(* Workers follow jobs                                                     *)

(* The modes of an application that has begun to close.                    *)
ClosingModes == {"closing", "joining", "killing", "rejoining", "settling", "unlocking",
                 "closed"}

(* A worker belongs to the job its thread supervises, or it survived its   *)
(* application.                                                            *)
Attached(b) == thread[b].pc \in {"supervising", "reaping"} /\ child[b].job = thread[b].job
(* ... or it outlived an application that crashed or was killed.           *)
Orphan(b) == mode[b] = "gone" /\ Live(b)

(* The inductive invariant of the workers, part by part: who closes has    *)
(* said so to its thread; an ended application has no thread; a worker is  *)
(* supervised or an orphan; a stop has a reason.                           *)
ClosingSet == \A b \in Boots : mode[b] \in ClosingModes => closing[b]
GoneIsDead == \A b \in Boots : mode[b] = "gone" => thread[b].pc = "dead"
ChildrenPlaced == \A b \in Boots : child[b].stage # "none" => Attached(b) \/ Orphan(b)
(* An orphan's job is left to it: no thread takes or ends it.              *)
OrphansAlone ==
    \A b \in Boots : Orphan(b) =>
        /\ child[b].job \in JobIds
        /\ jobs[child[b].job].status \in {"running", "interrupted"}
        /\ \A a \in Boots : thread[a].pc \in WorkingCounters =>
                                thread[a].job # child[b].job
SignalsJustified ==
    \A b \in Boots : thread[b].pc = "supervising" /\ child[b].signalled =>
        closing[b] \/ jobs[thread[b].job].requested # NoRequest

WorkerInv == ClosingSet /\ GoneIsDead /\ ChildrenPlaced /\ OrphansAlone /\ SignalsJustified

(* The invariant gives the property that the runs check.                   *)
LEMMA WorkersHold ==
    ASSUME TypeOK, LockFollowsThread, WorkingJobStatus, WorkerInv
    PROVE  WorkersFollowJobs
<1>1. ASSUME NEW b \in Boots, Live(b)
      PROVE  jobs[child[b].job].status \in {"running", "interrupted"}
  <2>1. child[b].stage # "none"
      BY <1>1 DEF Live, LiveStages
  <2>2. CASE Attached(b)
      BY <2>2, WorkingJob DEF Attached, WorkingCounters
  <2>3. CASE Orphan(b)
      BY <2>3 DEF WorkerInv, OrphansAlone
  <2> QED BY <2>1, <2>2, <2>3 DEF WorkerInv, ChildrenPlaced
<1> QED BY <1>1 DEF WorkersFollowJobs, WorkerInv, SignalsJustified, Active

(* closing and gone: the modes of a boot                                   *)
LEMMA ModesStep ==
    ASSUME TypeOK, LockFollowsThread, ClosingSet, GoneIsDead, NEW b \in Boots, BootStep(b)
    PROVE  /\ mode'[b] \in ClosingModes => closing'[b]
           /\ mode'[b] = "gone" => thread'[b].pc = "dead"
           /\ closing[b] => closing'[b] \/ mode'[b] = "gone"
<1>0. /\ mode \in [Boots -> Modes] /\ closing \in [Boots -> BOOLEAN]
      /\ thread \in [Boots -> Thread]
      /\ mode[b] \in ClosingModes => closing[b]
      /\ mode[b] = "gone" => thread[b].pc = "dead"
    BY DEF TypeOK, ClosingSet, GoneIsDead
<1> USE DEF ClosingModes, Thread
<1>1. CASE Start(b)
    BY <1>0, <1>1
    DEF Start, TakeQueueLock, ReconcileJob, StartFails, StartScheduler, memory
<1>2. CASE Handle(b)
    BY <1>0, <1>2
    DEF Handle, Submit, SubmitFetch, SubmitInference, Accept, Action, EndCleanup,
        BeginCleanup
<1>3. CASE Run(b) \/ Work(b)
    BY <1>0, <1>3
    DEF Run, CheckClosing, NextJob, RunJob, PopSecrets, ReportPhase, SpawnPackage, Reaped,
        CollectExit, Finish, ReportFailure, Release, HaltForStorage, Work, ChildStart,
        ChildReport, ChildExit, memory, Goto
<1>4. CASE Supervise(b)
    BY <1>0, <1>4
    DEF Supervise, Progress, SendStop, LimitExceeded, Stall, LoseStorage, memory
<1>5. CASE BeginClose(b) \/ Close(b) \/ Crash(b)
    BY <1>0, <1>5
    DEF Close, CloseRaised, BeginClose, StopActiveTraining, StopActiveFails, Terminate,
        Kill, BeginSettle, SettleJob, SettleEnds, Unlock, Exit, Crash, Gone, NoThread,
        memory
<1> QED BY <1>1, <1>2, <1>3, <1>4, <1>5 DEF BootStep

(* What a step does to the worker of its boot.                             *)
ChildKept(b) ==
    /\ child[b].stage # "none" /\ child'[b].job = child[b].job
    /\ thread'[b].pc = thread[b].pc \/ thread'[b].pc = "reaping"
    /\ thread'[b].job = thread[b].job
    /\ thread[b].pc = "supervising" \/ thread'[b].pc = thread[b].pc
    /\ Live(b)' => Live(b)
    /\ mode'[b] = "gone" => mode[b] = "gone" /\ Live(b)'
    /\ mode'[b] # "gone" => mode[b] # "gone"
(* ... the thread has just started it ...                                  *)
ChildSpawned(b) ==
    /\ thread[b].pc \in {"starting", "spawning"}
    /\ thread'[b].pc = "supervising" /\ thread'[b].job = thread[b].job
    /\ child'[b].job = thread[b].job /\ ~child'[b].signalled
    /\ mode'[b] = mode[b]
(* ... or the application ended without it.                                *)
ChildOrphaned(b) ==
    /\ mode[b] # "gone" /\ mode'[b] = "gone"
    /\ child'[b] = child[b] /\ Live(b)

(* How a step of b leaves a worker of b behind.                            *)
LEMMA ChildMoves ==
    ASSUME TypeOK, LockFollowsThread, GoneIsDead, ChildrenPlaced, NEW b \in Boots,
           BootStep(b), child'[b].stage # "none"
    PROVE  ChildKept(b) \/ ChildSpawned(b) \/ ChildOrphaned(b)
<1>0. /\ mode \in [Boots -> Modes] /\ thread \in [Boots -> Thread]
      /\ child \in [Boots -> Child]
      /\ mode[b] = "gone" => thread[b].pc = "dead"
      /\ child[b].stage # "none" =>
            \/ thread[b].pc \in {"supervising", "reaping"}
            \/ mode[b] = "gone" /\ Live(b)
      /\ mode[b] \in {"off", "reconciling"} => thread[b].pc = "none"
    BY DEF TypeOK, GoneIsDead, ChildrenPlaced, Attached, Orphan, LockFollowsThread
<1> USE DEF Thread, Child, ChildKept
<1>1. CASE Start(b)
    BY <1>0, <1>1
    DEF Start, TakeQueueLock, ReconcileJob, StartFails, StartScheduler, memory, Goto, Live
<1>2. CASE Handle(b)
    BY <1>0, <1>2
    DEF Handle, Submit, SubmitFetch, SubmitInference, Accept, Action, EndCleanup,
        BeginCleanup, Live
<1>3. CASE CheckClosing(b) \/ NextJob(b) \/ PopSecrets(b) \/ ReportPhase(b)
    BY <1>0, <1>3
    DEF CheckClosing, NextJob, PopSecrets, ReportPhase, memory, Goto, Live
<1>4. CASE RunJob(b) \/ SpawnPackage(b)
  <2>1. thread[b].pc \in {"starting", "spawning"} /\ child[b].stage = "none"
      BY <1>0, <1>4 DEF RunJob, SpawnPackage
  <2>2. Goto(b, "supervising") /\ child' = [child EXCEPT ![b] = NewChild(b)] /\ mode' = mode
      BY <1>4, <2>1 DEF RunJob, SpawnPackage, memory
  <2>3. thread'[b].pc = "supervising" /\ thread'[b].job = thread[b].job
      BY <1>0, <2>2 DEF Goto
  <2>4. child'[b].job = thread[b].job /\ ~child'[b].signalled
      BY <1>0, <2>2 DEF NewChild, NoChild, Active
  <2> QED BY <2>1, <2>2, <2>3, <2>4 DEF ChildSpawned
<1>5. CASE Reaped(b) \/ CollectExit(b)
    BY <1>0, <1>5 DEF Reaped, CollectExit, NoChild
<1>6. CASE Finish(b) \/ ReportFailure(b) \/ Release(b) \/ HaltForStorage(b)
    BY <1>0, <1>6
    DEF Finish, ReportFailure, Release, HaltForStorage, memory, Goto, Live
<1>7. CASE Supervise(b)
    BY <1>0, <1>7
    DEF Supervise, Progress, SendStop, LimitExceeded, Stall, LoseStorage, Reap, Goto,
        memory, Live
<1>8. CASE Work(b)
    BY <1>0, <1>8
    DEF Work, ChildStart, ChildReport, ChildExit, Ends, NoChild, memory, Live, LiveStages
<1>9. CASE BeginClose(b) \/ CloseRaised(b) \/ StopActiveTraining(b) \/ StopActiveFails(b)
           \/ Terminate(b)
  <2>1. CASE BeginClose(b) \/ CloseRaised(b)
      BY <1>0, <2>1 DEF CloseRaised, BeginClose, Live
  <2>2. CASE StopActiveTraining(b)
      BY <1>0, <2>2 DEF StopActiveTraining, Live
  <2>3. CASE StopActiveFails(b)
      BY <1>0, <2>3 DEF StopActiveFails, Live
  <2>4. CASE Terminate(b)
      BY <1>0, <2>4 DEF Terminate, Live
  <2> QED BY <1>9, <2>1, <2>2, <2>3, <2>4
<1>10. CASE Kill(b) \/ BeginSettle(b) \/ SettleJob(b) \/ SettleEnds(b) \/ Unlock(b)
    BY <1>0, <1>10
    DEF Kill, Ends, NoChild, BeginSettle, SettleJob, SettleEnds, Unlock, memory, Live,
        LiveStages
<1>11. CASE Exit(b) \/ Crash(b)
    BY <1>0, <1>11 DEF Exit, Crash, Gone, NoChild, ChildOrphaned, Live, LiveStages
<1> QED BY <1>1, <1>2, <1>3, <1>4, <1>5, <1>6, <1>7, <1>8, <1>9, <1>10, <1>11
        DEF BootStep, Run, Close

(* A worker is told to stop by the supervision or by the close only.       *)
LEMMA SignalMoves ==
    ASSUME TypeOK, NEW b \in Boots, BootStep(b),
           thread'[b].pc = "supervising", child'[b].signalled
    PROVE  /\ thread[b].pc = "supervising" /\ thread'[b].job = thread[b].job
           /\ child[b].signalled \/ SendStop(b) \/ Terminate(b)
<1>0. /\ mode \in [Boots -> Modes] /\ thread \in [Boots -> Thread]
      /\ child \in [Boots -> Child]
    BY DEF TypeOK
<1> USE DEF Thread, Child
<1>1. CASE Start(b)
    BY <1>0, <1>1
    DEF Start, TakeQueueLock, ReconcileJob, StartFails, StartScheduler, memory, Goto
<1>2. CASE Handle(b)
    BY <1>0, <1>2
    DEF Handle, Submit, SubmitFetch, SubmitInference, Accept, Action, EndCleanup,
        BeginCleanup
<1>3. CASE CheckClosing(b) \/ NextJob(b) \/ PopSecrets(b) \/ ReportPhase(b)
    BY <1>0, <1>3
    DEF CheckClosing, NextJob, PopSecrets, ReportPhase, memory, Goto
<1>4. CASE RunJob(b) \/ SpawnPackage(b)
  <2>1. thread'[b].pc = "supervising" => child' = [child EXCEPT ![b] = NewChild(b)]
      BY <1>0, <1>4 DEF RunJob, SpawnPackage, Goto
  <2>2. thread'[b].pc = "supervising" => ~child'[b].signalled
    <3>1. ~NewChild(b).signalled
        BY DEF NewChild, NoChild
    <3>2. DOMAIN child = Boots
        BY <1>0
    <3> QED BY ONLY <2>1, <3>1, <3>2, b \in Boots
  <2> QED BY <2>2
<1>5. CASE Reaped(b) \/ CollectExit(b)
    BY <1>0, <1>5 DEF Reaped, CollectExit, AfterPackage, NoChild, Goto
<1>6. CASE Finish(b) \/ ReportFailure(b) \/ Release(b) \/ HaltForStorage(b)
    BY <1>0, <1>6
    DEF Finish, ReportFailure, Release, NoThread, HaltForStorage, memory, Goto
<1>7. CASE Supervise(b)
    BY <1>0, <1>7
    DEF Supervise, Progress, SendStop, LimitExceeded, Stall, LoseStorage, Reap, Goto,
        memory
<1>8. CASE Work(b)
    BY <1>0, <1>8
    DEF Work, ChildStart, ChildReport, ChildExit, Ends, NoChild, memory
<1>9. CASE BeginClose(b) \/ CloseRaised(b) \/ StopActiveTraining(b) \/ StopActiveFails(b)
           \/ Terminate(b)
    BY <1>0, <1>9
    DEF CloseRaised, BeginClose, StopActiveTraining, StopActiveFails, Terminate
<1>10. CASE Kill(b) \/ BeginSettle(b) \/ SettleJob(b) \/ SettleEnds(b) \/ Unlock(b)
    BY <1>0, <1>10
    DEF Kill, Ends, NoChild, BeginSettle, SettleJob, SettleEnds, Unlock, memory
<1>11. CASE Exit(b) \/ Crash(b)
    BY <1>0, <1>11 DEF Exit, Crash, Gone, NoThread
<1> QED BY <1>1, <1>2, <1>3, <1>4, <1>5, <1>6, <1>7, <1>8, <1>9, <1>10, <1>11
        DEF BootStep, Run, Close

(* A job that is worked on, or was, leaves its status only through its     *)
(* thread, and a request of it is never withdrawn.                         *)
LEMMA BusyRowStays ==
    ASSUME NEW b \in Boots, RowStep(b), NEW j \in JobIds,
           jobs[j].status \in {"running", "interrupted"}
    PROVE  /\ EndedBy(b, j) \/ jobs'[j].status \in {"running", "interrupted"}
           /\ jobs[j].requested # NoRequest => jobs'[j].requested # NoRequest
<1>1. ASSUME RowMovesBy(b, j)
      PROVE  /\ EndedBy(b, j) \/ jobs'[j].status \in {"running", "interrupted"}
             /\ jobs[j].requested # NoRequest => jobs'[j].requested # NoRequest
    BY <1>1, NullsAssumption
    DEF RowMovesBy, CancelledBy, InterruptedBy, AcceptedBy, EndedBy, RowAccepted,
        RowEnds, RowTaken, RowCancelled, RowResumed, RowAsked, RowReports,
        RowInterrupted
<1> QED BY <1>1 DEF RowStep, RowsKept, OnlyRow

(* Each conjunct of the invariant is kept by every step of an application: *)
(* a worker was told to stop for a reason ...                              *)
LEMMA SignalsStep ==
    ASSUME IndInv, WorkerInv, NEW b \in Boots, BootStep(b)
    PROVE  SignalsJustified'
<1>0. TypeOK /\ LockFollowsThread /\ WorkingJobStatus /\ ClosingSet /\ GoneIsDead
    BY DEF IndInv, WorkerInv
<1>1. RowStep(b) /\ \A a \in Boots \ {b} : SameBoot(a)
    BY <1>0, BootRows, OthersStay DEF BootStep
<1>2. SUFFICES ASSUME NEW a \in Boots, thread'[a].pc = "supervising", child'[a].signalled
               PROVE  closing'[a] \/ jobs'[thread'[a].job].requested # NoRequest
    BY DEF SignalsJustified
<1>3. /\ thread[a].pc = "supervising" /\ thread'[a].job = thread[a].job
      /\ child[a].signalled \/ (a = b /\ (SendStop(b) \/ Terminate(b)))
    BY <1>0, <1>1, <1>2, SignalMoves DEF SameBoot
<1>4. /\ thread[a].job \in JobIds
      /\ jobs[thread[a].job].status \in {"running", "interrupted"}
    BY <1>0, <1>3, WorkingJob DEF WorkingCounters
<1>5. closing[a] \/ jobs[thread[a].job].requested # NoRequest
  <2>1. CASE child[a].signalled
      BY <1>3, <2>1 DEF WorkerInv, SignalsJustified
  <2>2. CASE a = b /\ SendStop(b)
      BY <2>2, NullsAssumption DEF SendStop, StopRequested, Active, JobActions
  <2>3. CASE a = b /\ Terminate(b)
      BY <1>0, <2>3 DEF Terminate, ClosingSet, ClosingModes
  <2> QED BY <1>3, <2>1, <2>2, <2>3
<1>6. ASSUME closing[a] PROVE closing'[a]
  <2>1. a = b => closing'[a] \/ mode'[a] = "gone"
      BY <1>0, <1>6, ModesStep
  <2>2. a = b /\ mode'[a] = "gone" => thread'[a].pc = "dead"
      BY <1>0, ModesStep
  <2> QED BY <1>1, <1>2, <1>6, <2>1, <2>2 DEF SameBoot
<1> QED BY <1>1, <1>3, <1>4, <1>5, <1>6, BusyRowStays

(* ... every worker is supervised or an orphan ...                         *)
LEMMA ChildrenStep ==
    ASSUME IndInv, WorkerInv, NEW b \in Boots, BootStep(b)
    PROVE  ChildrenPlaced'
<1>0. TypeOK /\ LockFollowsThread /\ GoneIsDead /\ ChildrenPlaced
    BY DEF IndInv, WorkerInv
<1>1. \A a \in Boots \ {b} : SameBoot(a)
    BY <1>0, OthersStay
<1>2. ASSUME NEW a \in Boots \ {b}, child'[a].stage # "none"
      PROVE  Attached(a)' \/ Orphan(a)'
    BY <1>0, <1>1, <1>2 DEF SameBoot, ChildrenPlaced, Attached, Orphan, Live
<1>3. ASSUME child'[b].stage # "none" PROVE Attached(b)' \/ Orphan(b)'
  <2>1. CASE ChildKept(b)
      BY <1>0, <2>1 DEF ChildKept, ChildrenPlaced, Attached, Orphan
  <2>2. CASE ChildSpawned(b)
      BY <2>2 DEF ChildSpawned, Attached
  <2>3. CASE ChildOrphaned(b)
      BY <2>3 DEF ChildOrphaned, Orphan, Live
  <2> QED BY <1>0, <1>3, <2>1, <2>2, <2>3, ChildMoves
<1> QED BY <1>2, <1>3 DEF ChildrenPlaced

(* ... and the job of an orphan is left alone.                             *)
LEMMA OrphansStep ==
    ASSUME IndInv, WorkerInv, NEW b \in Boots, BootStep(b)
    PROVE  OrphansAlone'
<1>0. /\ TypeOK /\ LockFollowsThread /\ WorkingJobStatus
      /\ GoneIsDead /\ ChildrenPlaced /\ OrphansAlone
    BY DEF IndInv, WorkerInv
<1>1. RowStep(b) /\ \A a \in Boots \ {b} : SameBoot(a)
    BY <1>0, BootRows, OthersStay DEF BootStep
<1>2. SUFFICES ASSUME NEW a \in Boots, Orphan(a)'
               PROVE  /\ child'[a].job \in JobIds
                      /\ jobs'[child'[a].job].status \in {"running", "interrupted"}
                      /\ \A c \in Boots : thread'[c].pc \in WorkingCounters =>
                                              thread'[c].job # child'[a].job
    BY DEF OrphansAlone
<1>3. CASE Orphan(a) /\ child'[a].job = child[a].job
  <2> DEFINE j == child[a].job
  <2>1. /\ j \in JobIds /\ jobs[j].status \in {"running", "interrupted"}
        /\ \A c \in Boots : thread[c].pc \in WorkingCounters => thread[c].job # j
      BY <1>0, <1>3 DEF OrphansAlone
  <2> HIDE DEF j
  <2>2. ~EndedBy(b, j)
      BY <2>1 DEF EndedBy, WorkingCounters
  <2>3. jobs'[j].status \in {"running", "interrupted"}
      BY <1>1, <2>1, <2>2, BusyRowStays
  <2>4. ASSUME NEW c \in Boots, thread'[c].pc \in WorkingCounters
        PROVE  thread'[c].job # j
    <3>1. CASE c # b
        BY <1>1, <2>1, <2>4, <3>1 DEF SameBoot
    <3>2. CASE c = b /\ KeepsJob(b)
        BY <2>1, <3>2 DEF KeepsJob
    <3>3. CASE c = b /\ TakesJob(b)
        BY <2>1, <3>3 DEF TakesJob, RowTaken
    <3> QED BY <1>0, <2>4, <3>1, <3>2, <3>3, BootKeepsJob
  <2> QED BY <1>3, <2>1, <2>3, <2>4 DEF j
<1>4. CASE a = b /\ ChildOrphaned(b)
  <2>1. Attached(b) /\ child'[b].job = thread[b].job
      BY <1>0, <1>4 DEF ChildOrphaned, ChildrenPlaced, Orphan, Attached, Live, LiveStages
  <2>2. /\ owner = b /\ thread[b].job \in JobIds
        /\ jobs[thread[b].job].status \in {"running", "interrupted"}
      BY <1>0, <2>1, WorkingJob DEF Attached, WorkingCounters
  <2>3. ~EndedBy(b, thread[b].job)
      BY <2>1 DEF EndedBy, Attached
  <2>4. jobs'[thread[b].job].status \in {"running", "interrupted"}
      BY <1>1, <2>2, <2>3, BusyRowStays
  <2>5. thread'[b].pc = "dead"
      BY <1>0, <1>4, ModesStep DEF ChildOrphaned, IndInv, WorkerInv
  <2>6. \A c \in Boots : thread'[c].pc \notin WorkingCounters
    <3>1. \A c \in Boots \ {b} : thread[c].pc \notin WorkingCounters
        BY <1>0, <2>2, WorkingJob
    <3> QED BY <1>1, <2>5, <3>1 DEF SameBoot, WorkingCounters
  <2> QED BY <1>4, <2>1, <2>2, <2>4, <2>6
<1>5. CASE a # b
    BY <1>1, <1>2, <1>3, <1>5 DEF SameBoot, Orphan, Live
<1>6. CASE a = b
  <2>1. child'[b].stage # "none"
      BY <1>2, <1>6 DEF Orphan, Live, LiveStages
  <2>2. ~ChildSpawned(b)
      BY <1>0, <1>2, <1>6 DEF ChildSpawned, GoneIsDead, Orphan
  <2>3. ChildKept(b) => Orphan(b) /\ child'[b].job = child[b].job
      BY <1>2, <1>6 DEF ChildKept, Orphan
  <2> QED BY <1>0, <1>3, <1>4, <1>6, <2>1, <2>2, <2>3, ChildMoves
<1> QED BY <1>5, <1>6

(* So every step of the system keeps the invariant.                        *)
LEMMA WorkerStep ==
    ASSUME IndInv, WorkerInv, [Next]_vars PROVE WorkerInv'
<1>1. CASE UNCHANGED vars
    BY <1>1 DEF vars, WorkerInv, ClosingSet, GoneIsDead, ChildrenPlaced, OrphansAlone,
       SignalsJustified, Attached, Orphan, Live
<1>2. CASE CommandLineTakesProof \/ CommandLineReleasesProof
    BY <1>2 DEF CommandLineTakesProof, CommandLineReleasesProof, durable, memory,
       WorkerInv, ClosingSet, GoneIsDead, ChildrenPlaced, OrphansAlone, SignalsJustified,
       Attached, Orphan, Live
<1>3. ASSUME NEW b \in Boots, BootStep(b) PROVE WorkerInv'
  <2>0. TypeOK /\ LockFollowsThread /\ ClosingSet /\ GoneIsDead
      BY DEF IndInv, WorkerInv
  <2>1. ClosingSet' /\ GoneIsDead'
      BY <1>3, <2>0, ModesStep, OthersStay DEF ClosingSet, GoneIsDead, SameBoot
  <2> QED BY <1>3, <2>1, ChildrenStep, OrphansStep, SignalsStep DEF WorkerInv
<1> QED BY <1>1, <1>2, <1>3 DEF Next, BootStep

(* A live worker belongs to a job that is running or was marked as         *)
(* interrupted, and a supervised one is told to stop only for a request of *)
(* its job or because its application closes (workflow_execution.py:       *)
(* execute_command; workflow_supervision.py: close_supervisor).            *)
THEOREM WorkersFollow == Spec => []WorkersFollowJobs
<1>1. Init => WorkerInv
    BY DEF Init, WorkerInv, ClosingSet, GoneIsDead, ChildrenPlaced, OrphansAlone,
       SignalsJustified, ClosingModes, Orphan, Live, LiveStages, NoThread, NoChild
<1>2. IndInv /\ WorkerInv /\ [Next]_vars => WorkerInv'
    BY WorkerStep
<1>3. IndInv /\ WorkerInv => WorkersFollowJobs
    BY WorkersHold DEF IndInv
<1> QED BY <1>1, <1>2, <1>3, Inductive, PTL DEF Spec

-----------------------------------------------------------------------------
(* Retries find their job                                                  *)

(* The clients whose remembered submission made the row.                   *)
Submitters(j) == {c \in ClientIds : /\ mutations[c] # NoMutation
                                    /\ mutations[c].job = j
                                    /\ mutations[c].what \in Operations}

(* A remembered request points at a row that is accepted and is about what *)
(* it was.                                                                 *)
MutationsPoint ==
    \A c \in ClientIds : mutations[c] # NoMutation =>
        LET m == mutations[c] IN
        /\ m.job \in JobIds /\ jobs[m.job].status # "absent"
        /\ m.what \in Operations =>
              jobs[m.job].op = m.what /\ jobs[m.job].subject = m.about
        /\ m.what \in JobActions => m.about = m.job

(* Every accepted row comes from one submission.                           *)
OneSubmitter == \A j \in Accepted : \E c \in ClientIds : Submitters(j) = {c}

(* No operation is the name of an action.                                  *)
LEMMA OperationsAreNoActions == Operations \cap JobActions = {}
BY DEF Operations, TrainingFamily, InferenceOperations, JobActions

(* The invariant gives the property that the runs check.                   *)
LEMMA RetryHolds ==
    ASSUME MutationsPoint, OneSubmitter PROVE RetryFindsItsJob
<1>1. ASSUME NEW j \in Accepted PROVE Cardinality(Submitters(j)) = 1
    BY FS_Singleton DEF OneSubmitter
<1>2. ASSUME NEW b \in Boots, NEW request \in Submissions \cup Commands, Replays(b, request)
      PROVE  LET j == mutations[request.client].job IN
             IF request.what \in Operations
               THEN jobs[j].op = request.what /\ jobs[j].subject = request.about
               ELSE j = request.about
  <2>1. /\ request.client \in ClientIds /\ mutations[request.client] # NoMutation
        /\ request.what \in Operations \cup JobActions
        /\ mutations[request.client].what = request.what
        /\ mutations[request.client].about = request.about
      BY <1>2, RequestsAssumption DEF Replays, New, Fingerprint
  <2> QED BY <2>1 DEF MutationsPoint
<1> QED BY <1>1, <1>2 DEF RetryFindsItsJob, Submitters

(* A step that remembers no request.                                       *)
LEMMA RetryKeeps ==
    ASSUME MutationsPoint, OneSubmitter, mutations' = mutations, NEW b \in Boots, RowStep(b)
    PROVE  MutationsPoint' /\ OneSubmitter'
<1>1. ASSUME NEW j \in JobIds, jobs[j].status # "absent"
      PROVE  Keeps(jobs[j], jobs'[j]) /\ jobs'[j].status # "absent"
    BY <1>1, RowsKeepWork
<1>2. MutationsPoint'
    BY <1>1 DEF MutationsPoint, Keeps
<1>0. \A k \in JobIds : ~AcceptedBy(b, k)
    BY DEF AcceptedBy
<1>3. ASSUME NEW j \in JobIds, jobs'[j].status # "absent" PROVE jobs[j].status # "absent"
  <2>1. ~RowMovesBy(b, j) => jobs'[j] = jobs[j]
      BY DEF RowStep, RowsKept, OnlyRow
  <2> QED BY <1>0, <1>3, <2>1
          DEF RowMovesBy, CancelledBy, InterruptedBy, EndedBy, RowEnds, RowTaken,
              RowCancelled, RowResumed, RowAsked, RowReports, RowInterrupted, Unfinished
<1>4. OneSubmitter'
    BY <1>3 DEF OneSubmitter, Accepted, Submitters
<1> QED BY <1>2, <1>4

(* A submission is remembered with the row it makes, which had no          *)
(* submitter before.                                                       *)
LEMMA RetryAccept ==
    ASSUME TypeOK, MutationsPoint, OneSubmitter, NEW b \in Boots,
           NEW request \in Submissions, Accept(b, request)
    PROVE  MutationsPoint' /\ OneSubmitter'
<1> DEFINE client == request.client
<1>0. /\ client \in ClientIds /\ request.what \in Operations /\ request.about \in Subjects
    BY RequestsAssumption
<1>1. PICK k \in JobIds :
              /\ Vacant(k)
              /\ OnlyRow(k)
              /\ RowAccepted(jobs[k], jobs'[k])
              /\ jobs'[k].op = request.what /\ jobs'[k].subject = request.about
              /\ Remember(b, request, k)
    BY AcceptFills
<1> DEFINE m == mutations'[client]
<1>2. /\ m # NoMutation /\ m.what = request.what /\ m.about = request.about /\ m.job = k
      /\ \A c \in ClientIds \ {client} : mutations'[c] = mutations[c]
    BY <1>0, <1>1, Remembered
<1>3. mutations[client] = NoMutation
    BY DEF Accept, New
<1>4. jobs[k].status = "absent" /\ jobs'[k].status = "queued"
    BY <1>1 DEF RowAccepted
<1> HIDE DEF client, m
<1>5. MutationsPoint'
  <2> SUFFICES ASSUME NEW c \in ClientIds, mutations'[c] # NoMutation
               PROVE  LET n == mutations'[c] IN
                      /\ n.job \in JobIds /\ jobs'[n.job].status # "absent"
                      /\ n.what \in Operations =>
                            jobs'[n.job].op = n.what /\ jobs'[n.job].subject = n.about
                      /\ n.what \in JobActions => n.about = n.job
      BY DEF MutationsPoint
  <2>1. CASE c = client
      BY <1>0, <1>1, <1>2, <1>4, <2>1, OperationsAreNoActions DEF m
  <2>2. CASE c # client
    <3>1. mutations'[c] = mutations[c]
        BY <1>2, <2>2
    <3>2. mutations[c].job \in JobIds \ {k}
        BY <1>4, <3>1 DEF MutationsPoint
    <3>3. jobs'[mutations[c].job] = jobs[mutations[c].job]
        BY <1>1, <3>2 DEF OnlyRow
    <3> QED BY <3>1, <3>2, <3>3 DEF MutationsPoint
  <2> QED BY <2>1, <2>2
<1>6. Submitters(k) = {}
    BY <1>4 DEF Submitters, MutationsPoint
<1>7. Submitters(k)' = {client}
    BY <1>0, <1>2, <1>6 DEF Submitters, m
<1>8. \A j \in JobIds \ {k} : Submitters(j)' = Submitters(j)
    BY <1>0, <1>2, <1>3 DEF Submitters, m
<1>9. \A j \in JobIds \ {k} : j \in Accepted' <=> j \in Accepted
    BY <1>1 DEF Accepted, OnlyRow
<1>10. OneSubmitter'
    BY <1>0, <1>7, <1>8, <1>9 DEF OneSubmitter, Accepted
<1> QED BY <1>5, <1>10

(* An action is remembered with the row it is about, which stays.          *)
LEMMA RetryAction ==
    ASSUME TypeOK, MutationsPoint, OneSubmitter, NEW b \in Boots,
           NEW request \in Commands, Action(b, request)
    PROVE  MutationsPoint' /\ OneSubmitter'
<1> DEFINE client == request.client
           k == request.about
<1>0. client \in ClientIds /\ request.what \in JobActions /\ k \in JobIds
    BY RequestsAssumption
<1>1. /\ OnlyRow(k)
      /\ \/ RowCancelled(jobs[k], jobs'[k])
         \/ RowResumed(jobs[k], jobs'[k])
         \/ RowAsked(jobs[k], jobs'[k])
    BY ActionChangesRow
<1> DEFINE m == mutations'[client]
<1>2. /\ m # NoMutation /\ m.what = request.what /\ m.about = k /\ m.job = k
      /\ \A c \in ClientIds \ {client} : mutations'[c] = mutations[c]
  <2>1. Remember(b, request, k)
      BY DEF Action
  <2> QED BY <1>0, <2>1, Remembered
<1>3. mutations[client] = NoMutation
    BY DEF Action, New
<1> HIDE DEF client, k, m
<1>4. /\ jobs[k].status # "absent" /\ jobs'[k].status # "absent"
      /\ Keeps(jobs[k], jobs'[k])
    BY <1>1 DEF RowCancelled, RowResumed, RowAsked
<1>5. \A j \in JobIds : /\ Keeps(jobs[j], jobs'[j])
                        /\ jobs'[j].status # "absent" <=> jobs[j].status # "absent"
    BY <1>1, <1>4 DEF OnlyRow, Keeps
<1>6. MutationsPoint'
  <2> SUFFICES ASSUME NEW c \in ClientIds, mutations'[c] # NoMutation
               PROVE  LET n == mutations'[c] IN
                      /\ n.job \in JobIds /\ jobs'[n.job].status # "absent"
                      /\ n.what \in Operations =>
                            jobs'[n.job].op = n.what /\ jobs'[n.job].subject = n.about
                      /\ n.what \in JobActions => n.about = n.job
      BY DEF MutationsPoint
  <2>1. CASE c = client
      BY <1>0, <1>2, <1>4, <2>1, OperationsAreNoActions DEF m
  <2>2. CASE c # client
      BY <1>2, <1>5, <2>2 DEF MutationsPoint, Keeps
  <2> QED BY <2>1, <2>2
<1>7. \A j \in JobIds : Submitters(j)' = Submitters(j)
    BY <1>0, <1>2, <1>3, OperationsAreNoActions DEF Submitters, m
<1>8. OneSubmitter'
    BY <1>5, <1>7 DEF OneSubmitter, Accepted
<1> QED BY <1>6, <1>8

(* Only handlers remember requests.                                        *)
LEMMA OthersRemember ==
    ASSUME NEW b \in Boots,
           \/ Start(b) \/ Run(b) \/ Supervise(b) \/ Work(b)
           \/ BeginClose(b) \/ Close(b) \/ Crash(b)
    PROVE  mutations' = mutations
BY DEF Start, TakeQueueLock, ReconcileJob, StartFails, StartScheduler, Run, CheckClosing,
       NextJob, RunJob, PopSecrets, ReportPhase, SpawnPackage, Reaped, CollectExit, Finish,
       ReportFailure, Release, HaltForStorage, Supervise, Progress, SendStop, LimitExceeded,
       Stall, LoseStorage, Work, ChildStart, ChildReport, ChildExit, Close, CloseRaised,
       BeginClose, StopActiveTraining, StopActiveFails, Terminate, Kill, BeginSettle,
       SettleJob, SettleEnds, Unlock, Exit, Crash, Gone, durable

(* The inductive invariant of the remembered requests.                     *)
RetryInv == MutationsPoint /\ OneSubmitter

(* Every step keeps it.                                                    *)
LEMMA RetryStep ==
    ASSUME IndInv, RetryInv, [Next]_vars PROVE RetryInv'
<1>0. TypeOK /\ WorkingJobStatus /\ MutationsPoint /\ OneSubmitter
    BY DEF IndInv, RetryInv
<1>1. CASE jobs' = jobs /\ mutations' = mutations
    BY <1>0, <1>1 DEF RetryInv, MutationsPoint, OneSubmitter, Submitters, Accepted
<1>2. CASE UNCHANGED vars \/ CommandLineTakesProof \/ CommandLineReleasesProof
    BY <1>1, <1>2 DEF vars, CommandLineTakesProof, CommandLineReleasesProof, durable
<1>3. ASSUME NEW b \in Boots, BootStep(b), ~Handle(b) PROVE RetryInv'
    BY <1>0, <1>3, OthersRemember, RetryKeeps, BootRows DEF BootStep, RetryInv
<1>4. ASSUME NEW b \in Boots, Handle(b) PROVE RetryInv'
    BY <1>0, <1>1, <1>4, RetryAccept, RetryAction
    DEF Handle, Submit, SubmitFetch, SubmitInference, BeginCleanup, EndCleanup, durable,
        RetryInv
<1> QED BY <1>2, <1>3, <1>4 DEF Next, BootStep

(* A retried request finds the row that its first delivery made or         *)
(* changed, and no row comes from two submissions (workflow_store.py:      *)
(* replay, save).                                                          *)
THEOREM RetriesFind == Spec => []RetryFindsItsJob
<1>1. Init => RetryInv
    BY DEF Init, RetryInv, MutationsPoint, OneSubmitter, Accepted, NoRecord
<1>2. IndInv /\ RetryInv /\ [Next]_vars => RetryInv'
    BY RetryStep
<1>3. RetryInv => RetryFindsItsJob
    BY RetryHolds DEF RetryInv
<1> QED BY <1>1, <1>2, <1>3, Inductive, PTL DEF Spec

-----------------------------------------------------------------------------
(* Secrets follow the queue                                                *)

(* The queued jobs that need secrets.                                      *)
QueuedInference == {j \in Having({"queued"}) : IsInference(j)}

(* The inductive invariant of the secrets, part by part. A running         *)
(* scheduler has the secrets of every queued inference job in memory ...   *)
SecretsStored == \A b \in Boots : Alive(b) => QueuedInference \subseteq secrets[b]
(* ... it keeps those of jobs that are not over only ...                   *)
SecretsPending ==
    \A b \in Boots : \A j \in secrets[b] :
        IsInference(j) /\ jobs[j].status \in {"queued", "running", "interrupted"}
(* ... a thread at work holds its own until it has handed them over ...    *)
SecretsHandedOver ==
    \A a, b \in Boots : thread[a].pc \in WorkingCounters /\ thread[a].job \in secrets[b] =>
        b = a /\ thread[a].pc = "starting"
(* ... no other application has those of a job in the queue of the owner   *)
(* of the lock ...                                                         *)
SecretsApart ==
    \A a, b \in Boots : owner = a /\ thread[a].pc # "none" /\ b # a =>
        QueuedInference \cap secrets[b] = {}
(* ... until a close settles its jobs, an application holds secrets of     *)
(* unfinished jobs only, which are what a submission counts ...            *)
SecretsWaiting ==
    \A b \in Boots : mode[b] \notin Settling => secrets[b] \subseteq WaitingInference
(* ... it has none before its scheduler starts or after it has ended ...   *)
SecretsLost ==
    \A b \in Boots : thread[b].pc = "none" \/ mode[b] = "gone" => secrets[b] = {}
(* ... and it holds no more than the queue accepts.                        *)
SecretsBounded == \A b \in Boots : Cardinality(secrets[b]) <= MaximumInferenceJobs

SecretsInv ==
    /\ SecretsStored /\ SecretsPending /\ SecretsHandedOver /\ SecretsApart
    /\ SecretsWaiting /\ SecretsLost /\ SecretsBounded

(* The invariant gives the property that the runs check.                   *)
LEMMA SecretsHold ==
    ASSUME TypeOK, SecretsInv PROVE SecretsFollowQueue
<1>1. ASSUME NEW b \in Boots PROVE secrets[b] \cap Having(Settled) = {}
    BY DEF SecretsInv, SecretsPending, Having, Settled
<1> QED BY <1>1 DEF SecretsFollowQueue, SecretsInv, SecretsStored, SecretsBounded,
       QueuedInference

(* A submission with secrets.                                              *)
LEMMA SubmitInferenceStores ==
    ASSUME TypeOK, NEW b \in Boots, NEW request \in Submissions, SubmitInference(b, request)
    PROVE  \E k \in JobIds :
              /\ AcceptedBy(b, k) /\ OnlyRow(k)
              /\ IsInference(k)'
              /\ secrets'[b] = secrets[b] \cup {k}
<1>1. PICK k \in JobIds :
              /\ Vacant(k)
              /\ OnlyRow(k)
              /\ RowAccepted(jobs[k], jobs'[k])
              /\ jobs'[k].op = request.what /\ jobs'[k].subject = request.about
              /\ Remember(b, request, k)
    BY AcceptFills DEF SubmitInference
<1>2. PICK i \in JobIds : Vacant(i) /\ secrets' = [secrets EXCEPT ![b] = @ \cup {i}]
    BY DEF SubmitInference
<1>3. i = k
  <2>1. i \in Int /\ k \in Int /\ 1 <= i /\ 1 <= k
      BY BoundsAssumption DEF JobIds
  <2>2. ~(i < k) /\ ~(k < i)
      BY <1>1, <1>2, <2>1 DEF Vacant
  <2> QED BY <2>1, <2>2
<1>4. secrets'[b] = secrets[b] \cup {k}
    BY <1>2, <1>3 DEF TypeOK
<1>5. /\ request.client \in ClientIds /\ request.what \in Operations
      /\ request.about \in Subjects
    BY RequestsAssumption
<1>6. mutations'[request.client] # NoMutation
    BY <1>1, <1>5, Remembered
<1>7. AcceptedBy(b, k)
    BY <1>1, <1>6
    DEF AcceptedBy, SubmitInference, Accept, New, InferenceOperations
<1>8. IsInference(k)'
    BY <1>1 DEF SubmitInference, IsInference
<1> QED BY <1>1, <1>4, <1>7, <1>8

(* Secrets are added by a submission only.                                 *)
LEMMA SecretsGrow ==
    ASSUME TypeOK, NEW b \in Boots, BootStep(b)
    PROVE  \/ secrets'[b] \subseteq secrets[b]
           \/ \E request \in Submissions : SubmitInference(b, request)
<1>0. secrets \in [Boots -> SUBSET JobIds]
    BY DEF TypeOK
<1>1. CASE Start(b)
    BY <1>0, <1>1
    DEF Start, TakeQueueLock, ReconcileJob, StartFails, StartScheduler, memory
<1>2. CASE Handle(b)
    BY <1>0, <1>2 DEF Handle, Submit, SubmitFetch, Action, EndCleanup, BeginCleanup
<1>3. CASE Run(b) \/ Work(b)
    BY <1>0, <1>3
    DEF Run, CheckClosing, NextJob, RunJob, PopSecrets, ReportPhase, SpawnPackage, Reaped,
        CollectExit, Finish, ReportFailure, Release, HaltForStorage, Work, ChildStart,
        ChildReport, ChildExit, memory
<1>4. CASE Supervise(b)
    BY <1>0, <1>4
    DEF Supervise, Progress, SendStop, LimitExceeded, Stall, LoseStorage, memory
<1>5. CASE BeginClose(b) \/ Close(b) \/ Crash(b)
    BY <1>0, <1>5
    DEF Close, CloseRaised, BeginClose, StopActiveTraining, StopActiveFails, Terminate,
        Kill, BeginSettle, SettleJob, SettleEnds, Unlock, Exit, Crash, Gone, memory
<1> QED BY <1>1, <1>2, <1>3, <1>4, <1>5 DEF BootStep

(* So secrets that are new came with a new job.                            *)
LEMMA SecretsComeWithJob ==
    ASSUME TypeOK, NEW b \in Boots, BootStep(b), NEW j \in secrets'[b]
    PROVE  j \in secrets[b] \/ (AcceptedBy(b, j) /\ IsInference(j)')
BY SecretsGrow, SubmitInferenceStores

(* ... and taken away when the job is handed over, cancelled, or the       *)
(* process ends.                                                           *)
LEMMA SecretsShrink ==
    ASSUME TypeOK, NEW b \in Boots, BootStep(b)
    PROVE  \/ secrets[b] \subseteq secrets'[b]
           \/ PopSecrets(b) /\ secrets'[b] = secrets[b] \ {thread[b].job}
           \/ \E k \in JobIds : CancelledBy(b, k)
           \/ thread'[b].pc = "dead"
<1>0. secrets \in [Boots -> SUBSET JobIds] /\ thread \in [Boots -> Thread]
    BY DEF TypeOK
<1>1. CASE Start(b)
    BY <1>0, <1>1
    DEF Start, TakeQueueLock, ReconcileJob, StartFails, StartScheduler, memory
<1>2. CASE Handle(b)
  <2>1. ASSUME NEW request \in Commands, Action(b, request)
        PROVE  secrets[b] \subseteq secrets'[b] \/ \E k \in JobIds : CancelledBy(b, k)
    <3>1. /\ request.about \in JobIds
          /\ \/ RowCancelled(jobs[request.about], jobs'[request.about])
             \/ jobs'[request.about].status # "cancelled"
        BY <2>1, ActionChangesRow DEF RowResumed, RowAsked
    <3> QED BY <1>0, <2>1, <3>1 DEF Action, CancelledBy
  <2> QED BY <1>0, <1>2, <2>1
          DEF Handle, Submit, SubmitFetch, SubmitInference, EndCleanup, BeginCleanup
<1>3. CASE Run(b) \/ Work(b)
    BY <1>0, <1>3
    DEF Run, CheckClosing, NextJob, RunJob, PopSecrets, ReportPhase, SpawnPackage, Reaped,
        CollectExit, Finish, ReportFailure, Release, HaltForStorage, Work, ChildStart,
        ChildReport, ChildExit, memory, Active
<1>4. CASE Supervise(b)
    BY <1>0, <1>4
    DEF Supervise, Progress, SendStop, LimitExceeded, Stall, LoseStorage, memory
<1>5. CASE BeginClose(b) \/ Close(b) \/ Crash(b)
    BY <1>0, <1>5
    DEF Close, CloseRaised, BeginClose, StopActiveTraining, StopActiveFails, Terminate,
        Kill, BeginSettle, SettleJob, SettleEnds, Unlock, Exit, Crash, Gone, NoThread,
        memory
<1> QED BY <1>1, <1>2, <1>3, <1>4, <1>5 DEF BootStep

(* A boot gets its thread once, and its process ends once.                 *)
LEMMA ThreadStarts ==
    ASSUME TypeOK, NEW b \in Boots, BootStep(b)
    PROVE  /\ owner' = b /\ thread'[b].pc # "none" =>
                  thread[b].pc # "none" \/ StartScheduler(b)
           /\ thread'[b].pc = "none" => thread[b].pc = "none"
           /\ Alive(b)' => Alive(b) \/ StartScheduler(b)
           /\ mode'[b] = "gone" => mode[b] = "gone" \/ secrets'[b] = {}
           /\ mode[b] \in Settling => mode'[b] \in Settling \cup {"gone"}
<1>0. /\ mode \in [Boots -> Modes] /\ thread \in [Boots -> Thread]
      /\ secrets \in [Boots -> SUBSET JobIds]
    BY DEF TypeOK
<1> USE NullsAssumption DEF Thread, Alive, Settling
<1>1. CASE Start(b)
    BY <1>0, <1>1
    DEF Start, TakeQueueLock, ReconcileJob, StartFails, memory, StartScheduler, Goto
<1>2. CASE Handle(b)
    BY <1>0, <1>2
    DEF Handle, Submit, SubmitFetch, SubmitInference, Accept, Action, EndCleanup,
        BeginCleanup
<1>3. CASE Run(b)
  <2>1. CASE CheckClosing(b) \/ NextJob(b) \/ RunJob(b) \/ PopSecrets(b) \/ ReportPhase(b)
      BY <1>0, <2>1
      DEF CheckClosing, NextJob, RunJob, PopSecrets, ReportPhase, Goto, memory
  <2>2. CASE SpawnPackage(b) \/ CollectExit(b) \/ Finish(b)
      BY <1>0, <2>2
      DEF SpawnPackage, CollectExit, AfterPackage, Finish, Goto, memory
  <2>3. CASE ReportFailure(b) \/ Release(b) \/ HaltForStorage(b)
      BY <1>0, <2>3
      DEF ReportFailure, Release, NoThread, HaltForStorage, Goto, memory
  <2>4. CASE Reaped(b)
    <3>1. thread[b].pc = "reaping" /\ thread[b].next # "none"
        BY <2>4 DEF Reaped, TypeOK
    <3> QED BY <1>0, <2>4, <3>1 DEF Reaped, Goto, memory
  <2> QED BY <1>3, <2>1, <2>2, <2>3, <2>4 DEF Run
<1>4. CASE Supervise(b) \/ Work(b)
    BY <1>0, <1>4
    DEF Supervise, Progress, SendStop, LimitExceeded, Stall, LoseStorage, Reap, Goto,
        memory, Work, ChildStart, ChildReport, ChildExit
<1>5. CASE BeginClose(b) \/ Close(b) \/ Crash(b)
    BY <1>0, <1>5
    DEF Close, CloseRaised, BeginClose, StopActiveTraining, StopActiveFails, Terminate,
        Kill, BeginSettle, SettleJob, SettleEnds, Unlock, Exit, Crash, Gone, NoThread,
        memory
<1> QED BY <1>1, <1>2, <1>3, <1>4, <1>5 DEF BootStep

(* A thread hands the secrets of its job over as it leaves "starting".     *)
LEMMA ThreadHandsOver ==
    ASSUME TypeOK, NEW b \in Boots, BootStep(b), KeepsJob(b),
           thread'[b].pc \in WorkingCounters
    PROVE  /\ thread'[b].pc = "starting" => thread[b].pc = "starting"
           /\ thread[b].pc = "starting" /\ thread'[b].pc # "starting" =>
                  PopSecrets(b) \/ ~IsInference(thread[b].job)
<1>0. thread \in [Boots -> Thread] /\ thread[b].pc \in WorkingCounters
    BY DEF TypeOK, KeepsJob
<1> USE DEF Thread, WorkingCounters
<1>1. CASE Start(b)
    BY <1>0, <1>1
    DEF Start, TakeQueueLock, ReconcileJob, StartFails, memory, StartScheduler, Goto
<1>2. CASE Handle(b)
    BY <1>0, <1>2
    DEF Handle, Submit, SubmitFetch, SubmitInference, Accept, Action, EndCleanup,
        BeginCleanup
<1>3. CASE Run(b)
  <2>1. CASE CheckClosing(b) \/ NextJob(b) \/ RunJob(b) \/ PopSecrets(b) \/ ReportPhase(b)
      BY <1>0, <2>1
      DEF CheckClosing, NextJob, RunJob, PopSecrets, ReportPhase, Goto, memory, Active
  <2>2. CASE SpawnPackage(b) \/ CollectExit(b) \/ Finish(b)
      BY <1>0, <2>2
      DEF SpawnPackage, CollectExit, AfterPackage, Finish, Goto, memory
  <2>3. CASE Reaped(b) \/ ReportFailure(b) \/ Release(b) \/ HaltForStorage(b)
      BY <1>0, <2>3
      DEF Reaped, ReportFailure, Release, NoThread, HaltForStorage, Goto, memory
  <2> QED BY <1>3, <2>1, <2>2, <2>3 DEF Run
<1>4. CASE Supervise(b) \/ Work(b)
    BY <1>0, <1>4
    DEF Supervise, Progress, SendStop, LimitExceeded, Stall, LoseStorage, Reap, Goto,
        memory, Work, ChildStart, ChildReport, ChildExit
<1>5. CASE BeginClose(b) \/ Close(b) \/ Crash(b)
    BY <1>0, <1>5
    DEF Close, CloseRaised, BeginClose, StopActiveTraining, StopActiveFails, Terminate,
        Kill, BeginSettle, SettleJob, SettleEnds, Unlock, Exit, Crash, Gone, NoThread,
        memory
<1> QED BY <1>1, <1>2, <1>3, <1>4, <1>5 DEF BootStep

(* Whatever changes a row otherwise than by taking or asking is a boot's   *)
(* that owns the lock.                                                     *)
LEMMA OwnersMoveRows ==
    ASSUME TypeOK, LockFollowsThread, NEW b \in Boots, NEW k \in JobIds,
           AcceptedBy(b, k) \/ CancelledBy(b, k) \/ EndedBy(b, k) \/ InterruptedBy(b, k)
    PROVE  owner = b
BY HandlingOwns
DEF AcceptedBy, CancelledBy, EndedBy, InterruptedBy, LockFollowsThread, Alive

(* A job with secrets is an inference job that waits, runs or was          *)
(* interrupted.                                                            *)
LEMMA PendingStep ==
    ASSUME IndInv, SecretsInv, NEW b \in Boots, BootStep(b) PROVE SecretsPending'
<1>0. /\ TypeOK /\ LockFollowsThread /\ WorkingJobStatus
      /\ SecretsPending /\ SecretsHandedOver /\ SecretsApart
    BY DEF IndInv, SecretsInv
<1>1. RowStep(b) /\ \A a \in Boots \ {b} : SameBoot(a)
    BY <1>0, BootRows, OthersStay DEF BootStep
<1>2. SUFFICES ASSUME NEW a \in Boots, NEW j \in secrets'[a]
               PROVE  IsInference(j)' /\ jobs'[j].status \in {"queued", "running", "interrupted"}
    BY DEF SecretsPending
<1>3. CASE AcceptedBy(b, j) /\ IsInference(j)'
    BY <1>3 DEF AcceptedBy, RowAccepted
<1>4. CASE j \in secrets[a]
  <2>1. /\ j \in JobIds /\ IsInference(j)
        /\ jobs[j].status \in {"queued", "running", "interrupted"}
      BY <1>0, <1>4 DEF TypeOK, SecretsPending
  <2>2. IsInference(j)'
      BY <1>1, <2>1, RowsKeepWork
  <2>3. ~EndedBy(b, j)
      BY <1>0, <1>4 DEF EndedBy, SecretsHandedOver, WorkingCounters
  <2>4. ASSUME CancelledBy(b, j) PROVE FALSE
    <3>1. owner = b /\ thread[b].pc # "none" /\ jobs[j].status = "queued" /\ j \notin secrets'[b]
        BY <1>0, <2>1, <2>4, OwnersMoveRows DEF CancelledBy, Handling, RowCancelled
    <3> QED BY <1>0, <1>2, <1>4, <2>1, <3>1 DEF SecretsApart, QueuedInference, Having
  <2>5. RowMovesBy(b, j) => jobs'[j].status \in {"queued", "running", "interrupted"}
      BY <2>1, <2>3, <2>4
      DEF RowMovesBy, AcceptedBy, RowAccepted, RowTaken, RowResumed, RowAsked, RowReports,
          InterruptedBy, RowInterrupted
  <2>6. ~RowMovesBy(b, j) => jobs'[j] = jobs[j]
      BY <1>1, <2>1 DEF RowStep, RowsKept, OnlyRow
  <2> QED BY <2>1, <2>2, <2>5, <2>6
<1>5. CASE a # b
    BY <1>1, <1>2, <1>4, <1>5 DEF SameBoot
<1> QED BY <1>0, <1>2, <1>3, <1>4, <1>5, SecretsComeWithJob

(* The queued inference jobs after a step were queued before, or this boot *)
(* accepted them.                                                          *)
LEMMA QueuedBefore ==
    ASSUME NEW b \in Boots, RowStep(b), NEW j \in QueuedInference'
    PROVE  AcceptedBy(b, j) \/ j \in QueuedInference
<1>1. j \in JobIds /\ jobs'[j].status = "queued" /\ jobs'[j].op \in InferenceOperations
    BY DEF QueuedInference, Having, IsInference
<1>2. RowMovesBy(b, j) => AcceptedBy(b, j)
    BY <1>1 DEF RowMovesBy, EndedBy, RowEnds, RowTaken, CancelledBy, RowCancelled,
           RowResumed, Keeps, InferenceOperations, RowAsked, RowReports, InterruptedBy,
           RowInterrupted
<1>3. ~RowMovesBy(b, j) => jobs'[j] = jobs[j]
    BY <1>1 DEF RowStep, RowsKept, OnlyRow
<1> QED BY <1>1, <1>2, <1>3 DEF QueuedInference, Having, IsInference

(* Every step of an application keeps each part of the invariant: the      *)
(* secrets of queued jobs stay in memory ...                               *)
LEMMA StoredStep ==
    ASSUME IndInv, SecretsInv, NEW b \in Boots, BootStep(b) PROVE SecretsStored'
<1>0. /\ TypeOK /\ LockFollowsThread /\ WorkingJobStatus /\ SecretsStored
    BY DEF IndInv, SecretsInv
<1>1. RowStep(b) /\ \A a \in Boots \ {b} : SameBoot(a)
    BY <1>0, BootRows, OthersStay DEF BootStep
<1>2. SUFFICES ASSUME NEW a \in Boots, Alive(a)', NEW j \in QueuedInference'
               PROVE  j \in secrets'[a]
    BY DEF SecretsStored
<1>3. CASE a # b
  <2>1. Alive(a) /\ secrets'[a] = secrets[a]
      BY <1>1, <1>2, <1>3 DEF SameBoot, Alive
  <2>2. ~AcceptedBy(b, j)
    <3>1. owner = a /\ j \in JobIds
        BY <1>0, <2>1 DEF LockFollowsThread, QueuedInference, Having
    <3> QED BY <1>0, <1>3, <3>1, OwnersMoveRows
  <2> QED BY <1>0, <1>1, <2>1, <2>2, QueuedBefore DEF SecretsStored
<1>4. CASE a = b /\ AcceptedBy(b, j)
  <2>1. \/ \E request \in Submissions : SubmitInference(b, request)
        \/ \E request \in Submissions :
              request.what \notin InferenceOperations /\ Accept(b, request)
        \/ \E request \in Commands : Action(b, request)
    <3>1. mutations' # mutations
        BY <1>4 DEF AcceptedBy
    <3> QED BY <3>1, OthersRemember
            DEF BootStep, Handle, Submit, SubmitFetch, BeginCleanup, EndCleanup, durable,
                TrainingFamily, InferenceOperations
  <2>2. jobs[j].status = "absent" /\ jobs'[j].status # "absent" /\ j \in JobIds
      BY <1>4 DEF AcceptedBy, RowAccepted, QueuedInference, Having
  <2>3. ASSUME NEW request \in Submissions, SubmitInference(b, request)
        PROVE  j \in secrets'[b]
    <3>1. PICK k \in JobIds : OnlyRow(k) /\ secrets'[b] = secrets[b] \cup {k}
        BY <1>0, <2>3, SubmitInferenceStores
    <3> QED BY <2>2, <3>1 DEF OnlyRow
  <2>4. ASSUME NEW request \in Submissions, request.what \notin InferenceOperations,
               Accept(b, request)
        PROVE  FALSE
    <3>1. PICK k \in JobIds : OnlyRow(k) /\ jobs'[k].op = request.what
        BY <1>0, <2>4, AcceptFills
    <3>2. j = k
        BY <2>2, <3>1 DEF OnlyRow
    <3> QED BY <1>2, <2>4, <3>1, <3>2 DEF QueuedInference, IsInference
  <2>5. ASSUME NEW request \in Commands, Action(b, request) PROVE FALSE
    <3>1. PICK k \in JobIds : OnlyRow(k) /\ jobs[k].status # "absent"
        BY <1>0, <2>5, ActionChangesRow DEF RowCancelled, RowResumed, RowAsked
    <3> QED BY <2>2, <3>1 DEF OnlyRow
  <2> QED BY <1>4, <2>1, <2>3, <2>4, <2>5
<1>5. CASE a = b /\ j \in QueuedInference
  <2>1. Alive(b)
    <3>1. ~StartScheduler(b)
        BY <1>5 DEF StartScheduler, QueuedInference, Having, Unfinished
    <3> QED BY <1>0, <1>2, <1>5, <3>1, ThreadStarts
  <2>2. j \in secrets[b]
      BY <1>0, <1>5, <2>1 DEF SecretsStored
  <2>3. j \in JobIds /\ jobs[j].status = "queued" /\ jobs'[j].status = "queued"
      BY <1>2, <1>5 DEF QueuedInference, Having
  <2>4. CASE PopSecrets(b) /\ secrets'[b] = secrets[b] \ {thread[b].job}
    <3>1. j # thread[b].job
        BY <1>0, <2>3, <2>4, WorkingJob DEF PopSecrets, WorkingCounters
    <3> QED BY <1>5, <2>2, <2>4, <3>1
  <2>5. ASSUME NEW k \in JobIds, CancelledBy(b, k) PROVE j \in secrets'[b]
    <3>1. j # k /\ secrets'[b] = secrets[b] \ {k}
        BY <2>3, <2>5 DEF CancelledBy, RowCancelled
    <3> QED BY <2>2, <3>1
  <2>6. thread'[b].pc # "dead"
      BY <1>2, <1>5 DEF Alive
  <2> QED BY <1>0, <1>5, <2>2, <2>4, <2>5, <2>6, SecretsShrink
<1> QED BY <1>1, <1>3, <1>4, <1>5, QueuedBefore

(* ... in the memory of the owner only ...                                 *)
LEMMA ApartStep ==
    ASSUME IndInv, SecretsInv, NEW b \in Boots, BootStep(b) PROVE SecretsApart'
<1>0. /\ TypeOK /\ LockFollowsThread /\ SecretsApart /\ SecretsPending
    BY DEF IndInv, SecretsInv
<1>1. RowStep(b) /\ \A a \in Boots \ {b} : SameBoot(a)
    BY <1>0, BootRows, OthersStay DEF BootStep, IndInv
<1>2. SUFFICES ASSUME NEW a \in Boots, NEW c \in Boots \ {a}, owner' = a,
                      thread'[a].pc # "none", NEW j \in QueuedInference', j \in secrets'[c]
               PROVE  FALSE
    BY DEF SecretsApart
<1>3. ~(a = b /\ StartScheduler(b))
  <2>1. ASSUME StartScheduler(b) PROVE QueuedInference' = {}
      BY <2>1 DEF StartScheduler, QueuedInference, Having, Unfinished, durable
  <2> QED BY <1>2, <2>1
<1>4. thread[a].pc # "none"
    BY <1>0, <1>1, <1>2, <1>3, ThreadStarts DEF SameBoot
<1>5. owner = a
    BY <1>0, <1>2, <1>4, BootMoves, NullsAssumption DEF TakeQueueLock, LockFollowsThread
<1>6. j \in secrets[c]
  <2>1. CASE c # b
      BY <1>1, <1>2, <2>1 DEF SameBoot
  <2>2. CASE c = b
      BY <1>0, <1>2, <1>5, <2>2, SecretsComeWithJob, OwnersMoveRows
      DEF QueuedInference, Having
  <2> QED BY <2>1, <2>2
<1>7. ~AcceptedBy(b, j)
    BY <1>0, <1>6 DEF AcceptedBy, RowAccepted, SecretsPending
<1> QED BY <1>0, <1>1, <1>4, <1>5, <1>6, <1>7, QueuedBefore DEF SecretsApart

(* ... until they are handed over ...                                      *)
LEMMA HandedOverStep ==
    ASSUME IndInv, SecretsInv, NEW b \in Boots, BootStep(b) PROVE SecretsHandedOver'
<1>0. /\ TypeOK /\ LockFollowsThread /\ WorkingJobStatus /\ SecretsHandedOver
      /\ SecretsPending /\ SecretsApart
    BY DEF IndInv, SecretsInv
<1>1. \A a \in Boots \ {b} : SameBoot(a)
    BY <1>0, OthersStay
<1>2. SUFFICES ASSUME NEW a \in Boots, NEW c \in Boots, thread'[a].pc \in WorkingCounters,
                      thread'[a].job \in secrets'[c]
               PROVE  c = a /\ thread'[a].pc = "starting"
    BY DEF SecretsHandedOver
<1>3. ASSUME thread'[a].job \in JobIds, jobs[thread'[a].job].status # "absent"
      PROVE  thread'[a].job \in secrets[c]
  <2>1. ~AcceptedBy(b, thread'[a].job)
      BY <1>3 DEF AcceptedBy, RowAccepted
  <2> QED BY <1>0, <1>1, <1>2, <2>1, SecretsComeWithJob DEF SameBoot
<1>4. CASE a # b
  <2>1. thread'[a] = thread[a]
      BY <1>1, <1>4 DEF SameBoot
  <2>2. thread[a].job \in JobIds /\ jobs[thread[a].job].status # "absent"
      BY <1>0, <1>2, <2>1, WorkingJob
  <2> QED BY <1>0, <1>2, <1>3, <2>1, <2>2 DEF SecretsHandedOver
<1>5. CASE a = b /\ KeepsJob(b)
  <2>1. /\ thread'[b].job = thread[b].job /\ thread[b].pc \in WorkingCounters
        /\ thread[b].job \in JobIds /\ jobs[thread[b].job].status # "absent"
      BY <1>0, <1>5, WorkingJob DEF KeepsJob
  <2>2. c = b /\ thread[b].pc = "starting" /\ thread[b].job \in secrets[b]
      BY <1>0, <1>3, <1>5, <2>1 DEF SecretsHandedOver
  <2>3. IsInference(thread[b].job)
      BY <1>0, <2>2 DEF SecretsPending
  <2>4. ~PopSecrets(b)
      BY <1>0, <1>2, <1>5, <2>1, <2>2 DEF PopSecrets, Active, TypeOK
  <2> QED BY <1>0, <1>2, <1>5, <2>2, <2>3, <2>4, ThreadHandsOver
<1>6. CASE a = b /\ TakesJob(b)
  <2>1. PICK k \in JobIds : thread'[b].job = k /\ jobs[k].status = "queued"
      BY <1>6 DEF TakesJob, RowTaken
  <2>2. thread[b].pc = "polling" /\ thread'[b].pc = "starting"
      BY <1>6 DEF TakesJob
  <2>3. k \in secrets[c]
      BY <1>3, <1>6, <2>1
  <2>4. k \in QueuedInference
      BY <1>0, <2>1, <2>3 DEF SecretsPending, QueuedInference, Having
  <2>5. owner = b
      BY <1>0, <2>2 DEF LockFollowsThread, Alive
  <2>6. c = b
      BY <1>0, <2>2, <2>3, <2>4, <2>5 DEF SecretsApart
  <2> QED BY <1>6, <2>2, <2>6
<1> QED BY <1>0, <1>2, <1>4, <1>5, <1>6, BootKeepsJob

(* ... and not beyond the life of the application ...                      *)
LEMMA LostStep ==
    ASSUME IndInv, SecretsInv, NEW b \in Boots, BootStep(b) PROVE SecretsLost'
<1>0. TypeOK /\ SecretsLost
    BY DEF IndInv, SecretsInv
<1>1. \A a \in Boots \ {b} : SameBoot(a)
    BY <1>0, OthersStay
<1>2. ASSUME thread'[b].pc = "none" \/ mode'[b] = "gone", NEW j \in secrets'[b]
      PROVE  FALSE
  <2>1. thread[b].pc = "none" \/ mode[b] = "gone"
      BY <1>0, <1>2, ThreadStarts
  <2>2. ~AcceptedBy(b, j)
      BY <2>1 DEF AcceptedBy, Handling
  <2> QED BY <1>0, <1>2, <2>1, <2>2, SecretsComeWithJob DEF SecretsLost
<1>3. ASSUME NEW a \in Boots, thread'[a].pc = "none" \/ mode'[a] = "gone"
      PROVE  secrets'[a] = {}
  <2>1. CASE a = b
      BY <1>2, <1>3, <2>1
  <2>2. CASE a # b
      BY <1>0, <1>1, <1>3, <2>2 DEF SameBoot, SecretsLost
  <2> QED BY <2>1, <2>2
<1> QED BY <1>3 DEF SecretsLost

(* ... or of the job they belong to.                                       *)
LEMMA WaitingStep ==
    ASSUME IndInv, SecretsInv, NEW b \in Boots, BootStep(b) PROVE SecretsWaiting'
<1>0. /\ TypeOK /\ LockFollowsThread /\ WorkingJobStatus /\ SecretsWaiting
      /\ SecretsLost /\ SecretsHandedOver
    BY DEF IndInv, SecretsInv
<1>1. RowStep(b) /\ \A a \in Boots \ {b} : SameBoot(a)
    BY <1>0, BootRows, OthersStay DEF BootStep
<1>2. SUFFICES ASSUME NEW a \in Boots, mode'[a] \notin Settling, NEW j \in secrets'[a]
               PROVE  j \in WaitingInference'
    BY DEF SecretsWaiting
<1>3. CASE AcceptedBy(b, j) /\ IsInference(j)'
  <2>1. j \in JobIds
    <3>1. TypeOK'
        BY TypeOKStep DEF IndInv, Next, BootStep
    <3> QED BY <3>1, <1>2 DEF TypeOK
  <2>2. jobs'[j].status = "queued"
      BY <1>3 DEF AcceptedBy, RowAccepted
  <2> QED BY <1>3, <2>1, <2>2 DEF WaitingInference, Having, Unfinished
<1>4. CASE j \in secrets[a] /\ ~AcceptedBy(b, j)
  <2>1. thread[a].pc # "none" /\ mode[a] # "gone"
      BY <1>0, <1>4 DEF SecretsLost
  <2>2. mode[a] \notin Settling
    <3>1. CASE a # b
        BY <1>1, <1>2, <3>1 DEF SameBoot
    <3>2. CASE a = b
        BY <1>0, <1>2, <2>1, <3>2, ThreadStarts
    <3> QED BY <3>1, <3>2
  <2>3. /\ j \in JobIds /\ IsInference(j) /\ jobs[j].status \in Unfinished
        /\ owner = a
      BY <1>0, <1>4, <2>1, <2>2
      DEF SecretsWaiting, WaitingInference, Having, LockFollowsThread, Settling
  <2>4. ~EndedBy(b, j)
      BY <1>0, <1>4 DEF EndedBy, SecretsHandedOver, WorkingCounters
  <2>5. ASSUME CancelledBy(b, j) PROVE FALSE
    <3>1. a = b /\ j \notin secrets'[b]
        BY <1>0, <2>3, <2>5, OwnersMoveRows DEF CancelledBy
    <3> QED BY <1>2, <3>1
  <2>6. ASSUME InterruptedBy(b, j) PROVE FALSE
    <3>1. a = b
        BY <1>0, <2>3, <2>6, OwnersMoveRows
    <3> QED BY <1>0, <2>1, <2>2, <2>6, <3>1 DEF InterruptedBy, LockFollowsThread, Settling
  <2>7. jobs'[j].status \in Unfinished
    <3>1. RowMovesBy(b, j) => jobs'[j].status \in Unfinished
        BY <1>4, <2>3, <2>4, <2>5, <2>6
        DEF RowMovesBy, RowTaken, RowResumed, RowAsked, RowReports, Unfinished
    <3>2. ~RowMovesBy(b, j) => jobs'[j] = jobs[j]
        BY <1>1, <2>3 DEF RowStep, RowsKept, OnlyRow
    <3> QED BY <2>3, <3>1, <3>2
  <2>8. IsInference(j)'
      BY <1>1, <2>3, RowsKeepWork DEF Unfinished
  <2> QED BY <2>3, <2>7, <2>8 DEF WaitingInference, Having
<1>5. j \in secrets[a] \/ (AcceptedBy(b, j) /\ IsInference(j)')
    BY <1>0, <1>1, <1>2, SecretsComeWithJob DEF SameBoot
<1>6. CASE j \in secrets[a] /\ AcceptedBy(b, j)
    BY <1>0, <1>6 DEF SecretsInv, SecretsPending, AcceptedBy, RowAccepted
<1> QED BY <1>3, <1>4, <1>5, <1>6

(* The store takes one more job only while fewer wait than the limit.      *)
LEMMA BoundedStep ==
    ASSUME IndInv, SecretsInv, NEW b \in Boots, BootStep(b) PROVE SecretsBounded'
<1>0. TypeOK /\ SecretsWaiting /\ SecretsBounded /\ LockFollowsThread
    BY DEF IndInv, SecretsInv
<1>1. \A a \in Boots \ {b} : SameBoot(a)
    BY <1>0, OthersStay
<1>2. /\ IsFiniteSet(JobIds) /\ MaximumInferenceJobs \in Nat
      /\ secrets[b] \subseteq JobIds
    BY <1>0, FS_Interval, BoundsAssumption DEF JobIds, TypeOK
<1>3. IsFiniteSet(secrets[b]) /\ Cardinality(secrets[b]) \in Nat
    BY <1>2, FS_Subset, FS_CardinalityType
<1>4. ASSUME secrets'[b] \subseteq secrets[b]
      PROVE  Cardinality(secrets'[b]) <= MaximumInferenceJobs
  <2>1. Cardinality(secrets'[b]) <= Cardinality(secrets[b])
      BY <1>3, <1>4, FS_Subset
  <2>2. Cardinality(secrets'[b]) \in Nat
      BY <1>3, <1>4, FS_Subset, FS_CardinalityType
  <2>3. Cardinality(secrets[b]) <= MaximumInferenceJobs
      BY <1>0 DEF SecretsBounded
  <2> DEFINE m == Cardinality(secrets'[b])
             n == Cardinality(secrets[b])
  <2> HIDE DEF m, n
  <2>4. m \in Nat /\ n \in Nat /\ m <= n /\ n <= MaximumInferenceJobs
      BY <1>3, <2>1, <2>2, <2>3 DEF m, n
  <2>5. m <= MaximumInferenceJobs
      BY <1>2, <2>4
  <2> QED BY <2>5 DEF m
<1>5. ASSUME NEW request \in Submissions, SubmitInference(b, request)
      PROVE  Cardinality(secrets'[b]) <= MaximumInferenceJobs
  <2>1. PICK k \in JobIds : secrets'[b] = secrets[b] \cup {k}
      BY <1>0, <1>5, SubmitInferenceStores
  <2>2. Cardinality(secrets'[b]) \in {Cardinality(secrets[b]), Cardinality(secrets[b]) + 1}
      BY <1>3, <2>1, FS_AddElement
  <2>3. secrets[b] \subseteq WaitingInference
      BY <1>0, <1>5, HandlingOwns DEF SubmitInference, Accept, SecretsWaiting
  <2>4. IsFiniteSet(WaitingInference)
      BY <1>2, FS_Subset DEF WaitingInference, Having
  <2>5. /\ Cardinality(secrets[b]) <= Cardinality(WaitingInference)
        /\ Cardinality(WaitingInference) \in Nat
      BY <2>3, <2>4, FS_Subset, FS_CardinalityType
  <2>6. Cardinality(WaitingInference) < MaximumInferenceJobs
      BY <1>5 DEF SubmitInference
  <2> DEFINE m == Cardinality(secrets'[b])
             n == Cardinality(secrets[b])
             w == Cardinality(WaitingInference)
  <2> HIDE DEF m, n, w
  <2>7. /\ m \in {n, n + 1} /\ n \in Nat /\ w \in Nat
        /\ n <= w /\ w < MaximumInferenceJobs
      BY <1>3, <2>2, <2>5, <2>6 DEF m, n, w
  <2>8. m <= MaximumInferenceJobs
      BY <1>2, <2>7
  <2> QED BY <2>8 DEF m
<1>6. Cardinality(secrets'[b]) <= MaximumInferenceJobs
  <2>1. secrets'[b] \subseteq secrets[b]
            \/ \E request \in Submissions : SubmitInference(b, request)
      BY <1>0, SecretsGrow
  <2> QED BY <1>4, <1>5, <2>1
<1> QED BY <1>0, <1>1, <1>6 DEF SecretsBounded, SameBoot

(* So every step of the system keeps the invariant.                        *)
LEMMA SecretsStep ==
    ASSUME IndInv, SecretsInv, [Next]_vars PROVE SecretsInv'
<1>1. CASE UNCHANGED vars \/ CommandLineTakesProof \/ CommandLineReleasesProof
    BY <1>1 DEF vars, CommandLineTakesProof, CommandLineReleasesProof, durable, memory,
       SecretsInv, SecretsStored, SecretsPending, SecretsHandedOver, SecretsApart,
       SecretsWaiting, SecretsLost, SecretsBounded, QueuedInference, WaitingInference,
       Having, IsInference, Alive
<1>2. ASSUME NEW b \in Boots, BootStep(b) PROVE SecretsInv'
    BY <1>2, StoredStep, PendingStep, HandedOverStep, ApartStep, WaitingStep, LostStep,
       BoundedStep DEF SecretsInv
<1> QED BY <1>1, <1>2 DEF Next, BootStep

(* The secrets of queued inference jobs are in the memory of the running   *)
(* scheduler, those of settled jobs are gone, and their number is bounded  *)
(* (inference_secrets.py: InferenceSecretStore).                           *)
THEOREM SecretsFollow == Spec => []SecretsFollowQueue
<1>1. Init => SecretsInv
  <2>1. Cardinality({}) = 0 /\ 0 <= MaximumInferenceJobs
      BY FS_EmptySet, BoundsAssumption
  <2> QED BY <2>1 DEF Init, SecretsInv, SecretsStored, SecretsPending, SecretsHandedOver,
              SecretsApart, SecretsWaiting, SecretsLost, SecretsBounded, QueuedInference,
              Having, NoRecord, NoThread, Alive, WorkingCounters
<1>2. IndInv /\ SecretsInv /\ [Next]_vars => SecretsInv'
    BY SecretsStep
<1>3. IndInv /\ SecretsInv => SecretsFollowQueue
    BY SecretsHold DEF IndInv
<1> QED BY <1>1, <1>2, <1>3, Inductive, PTL DEF Spec
============================================================================
