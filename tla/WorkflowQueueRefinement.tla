---------------------- MODULE WorkflowQueueRefinement ----------------------
(***************************************************************************)
(* Proof that WorkflowQueue implements JobLedger: every step of a handler, *)
(* thread, worker or shutdown is a step of the ledger or changes nothing   *)
(* the ledger shows.                                                       *)
(***************************************************************************)
EXTENDS WorkflowQueueProofs

StatusOf == [j \in JobIds |-> jobs[j].status]

LedgerStep == Ledger!LedgerNext \/ UNCHANGED <<StatusOf, LedgerPhase>>

(* The empty table without an owner is the initial ledger. *)
LEMMA InitImplements == Init => Ledger!LedgerInit
BY DEF Init, Ledger!LedgerInit, NoRecord, LedgerPhase

-----------------------------------------------------------------------------
(* The phase the ledger shows *)

(* While a boot owns the lock, the phase is decided by its mode and thread. *)
LEMMA PhaseOfOwner ==
    ASSUME NEW b \in Boots, owner = b
    PROVE  LedgerPhase = IF mode[b] \in Settling THEN "draining"
                         ELSE IF thread[b].pc = "none" THEN "recovering" ELSE "open"
BY NullsAssumption DEF LedgerPhase, Settling

(* A thread that is alive works in the open or the draining phase.         *)
LEMMA PhaseOfThread ==
    ASSUME LockFollowsThread, NEW b \in Boots, Alive(b)
    PROVE  LedgerPhase = IF mode[b] \in Settling THEN "draining" ELSE "open"
BY PhaseOfOwner DEF LockFollowsThread, Alive

(* The phase moves with the owner, its mode, and the start of its thread.  *)
LEMMA PhaseStays ==
    ASSUME TypeOK, owner' = owner,
           \A b \in Boots : owner = b =>
               /\ mode'[b] \in Settling <=> mode[b] \in Settling
               /\ thread'[b].pc = "none" <=> thread[b].pc = "none"
    PROVE  LedgerPhase' = LedgerPhase
BY DEF LedgerPhase, Settling, TypeOK

(* Steps that show the ledger nothing.                                     *)
LEMMA Stutters ==
    ASSUME SameJobs, LedgerPhase' = LedgerPhase PROVE LedgerStep
BY DEF LedgerStep, SameJobs, StatusOf

(* A step that leaves the threads alone shows the ledger nothing. *)
LEMMA StutterStill ==
    ASSUME TypeOK, SameJobs, owner' = owner, mode' = mode, thread' = thread
    PROVE  LedgerStep
BY PhaseStays, Stutters

(* A live thread goes on and leaves the table alone.                       *)
LEMMA StutterThread ==
    ASSUME TypeOK, SameJobs, owner' = owner, mode' = mode, NEW b \in Boots, Alive(b),
           thread'[b].pc # "none", \A a \in Boots \ {b} : thread'[a] = thread[a]
    PROVE  LedgerStep
BY PhaseStays, Stutters DEF Alive

(* Nor does a thread that only moves to another step. *)
LEMMA StutterGoto ==
    ASSUME TypeOK, SameJobs, owner' = owner, mode' = mode, NEW b \in Boots, Alive(b),
           NEW pc, Goto(b, pc), pc # "none"
    PROVE  LedgerStep
BY StutterThread DEF Goto, TypeOK, Thread

(* A boot that goes on to another mode, before or after it settles.        *)
LEMMA StutterMode ==
    ASSUME TypeOK, SameJobs, owner' = owner, thread' = thread, NEW b \in Boots, NEW m,
           mode' = [mode EXCEPT ![b] = m], m \in Settling <=> mode[b] \in Settling
    PROVE  LedgerStep
BY PhaseStays, Stutters DEF TypeOK

(* One row takes another status.                                           *)
LEMMA RowMoves ==
    ASSUME NEW k \in JobIds, NEW s, jobs'[k].status = s,
           \A j \in JobIds \ {k} : jobs'[j].status = jobs[j].status
    PROVE  StatusOf' = [StatusOf EXCEPT ![k] = s]
BY DEF StatusOf

(* A row that goes from one status to another is the ledger's step. *)
LEMMA Becomes ==
    ASSUME NEW k \in JobIds, NEW from, NEW to, jobs[k].status \in from,
           jobs'[k].status \in to, LedgerPhase' = LedgerPhase,
           \A j \in JobIds \ {k} : jobs'[j].status = jobs[j].status
    PROVE  Ledger!Become(k, from, to)
<1>1. StatusOf' = [StatusOf EXCEPT ![k] = jobs'[k].status]
    BY RowMoves
<1> QED BY <1>1 DEF Ledger!Become, StatusOf

-----------------------------------------------------------------------------
(* Start and requests *)

(* A start opens the ledger, recovers it, or shows it nothing. *)
LEMMA StartImplements ==
    ASSUME IndInv, NEW b \in Boots, Start(b) PROVE LedgerStep
<1> USE IndInvParts
<1>1. CASE TakeQueueLock(b)
  <2>1. CASE owner = NoBoot
    <3>1. owner' = b /\ mode'[b] = "reconciling" /\ thread'[b].pc = "none"
        BY <1>1, <2>1 DEF TakeQueueLock, TypeOK, LockFollowsThread
    <3>2. LedgerPhase = "down" /\ LedgerPhase' = "recovering"
        BY <2>1, <3>1, NullsAssumption DEF LedgerPhase
    <3> QED BY <1>1, <3>2
            DEF TakeQueueLock, durable, LedgerStep, Ledger!LedgerNext, Ledger!Own
  <2>2. CASE owner # NoBoot
      BY <1>1, <2>2, StutterMode DEF TakeQueueLock, durable, SameJobs, Settling
  <2> QED BY <2>1, <2>2
<1>2. CASE ReconcileJob(b)
  <2>1. PICK k \in Having(Unfinished) : jobs' = Interrupted(k)
      BY <1>2 DEF ReconcileJob
  <2>2. /\ jobs[k].status \in {"queued", "running"}
        /\ jobs'[k].status \in {"interrupted"}
        /\ \A j \in JobIds \ {k} : jobs'[j].status = jobs[j].status
      BY <2>1 DEF Having, Unfinished, Interrupted, Changed, TypeOK, Record
  <2>3. LedgerPhase = "recovering" /\ LedgerPhase' = LedgerPhase
      BY <1>2, PhaseOfOwner, PhaseStays
      DEF ReconcileJob, memory, LockFollowsThread, Settling
  <2>4. Ledger!CloseUnfinished(k)
      BY <2>2, <2>3, Becomes DEF Having, Ledger!CloseUnfinished
  <2> QED BY <2>4 DEF Having, LedgerStep, Ledger!LedgerNext
<1>3. CASE StartFails(b)
    BY <1>3, StutterMode DEF StartFails, durable, SameJobs, Settling
<1>4. CASE StartScheduler(b)
  <2>1. /\ owner = b /\ thread[b].pc = "none" /\ mode[b] \notin Settling
        /\ owner' = b /\ thread'[b].pc = "idle" /\ mode'[b] \notin Settling
      BY <1>4 DEF StartScheduler, Goto, LockFollowsThread, TypeOK, Thread, Settling
  <2>2. LedgerPhase = "recovering" /\ LedgerPhase' = "open"
      BY <2>1, NullsAssumption DEF LedgerPhase, Settling
  <2>3. Ledger!NoneIs({"queued", "running"})
      BY <1>4 DEF StartScheduler, Having, Unfinished, Ledger!NoneIs
  <2> QED BY <1>4, <2>2, <2>3
          DEF StartScheduler, durable, LedgerStep, Ledger!LedgerNext, Ledger!Open
<1> QED BY <1>1, <1>2, <1>3, <1>4 DEF Start

(* A handler runs in the open phase.                                       *)
LEMMA HandlingIsOpen ==
    ASSUME LockFollowsThread, NEW b \in Boots, Handling(b) PROVE LedgerPhase = "open"
BY HandlingOwns, PhaseOfOwner DEF Handling

(* A handler accepts, cancels, resumes or pauses jobs as the ledger        *)
(* allows.                                                                 *)
LEMMA HandleImplements ==
    ASSUME IndInv, NEW b \in Boots, Handle(b) PROVE LedgerStep
<1> USE IndInvParts
<1>1. ASSUME NEW request \in Submissions, Accept(b, request) PROVE LedgerStep
  <2>1. PICK k \in JobIds :
              /\ jobs[k].status = "absent"
              /\ jobs'[k].status = "queued" /\ jobs'[k].op = request.what
              /\ \A j \in JobIds \ {k} : jobs'[j] = jobs[j]
      BY <1>1, AcceptRow
  <2>2. LedgerPhase = "open" /\ LedgerPhase' = LedgerPhase
      BY <1>1, HandlingIsOpen, PhaseStays DEF Accept
  <2>3. Ledger!AcceptJob(k)
      BY <2>1, <2>2, Becomes DEF Ledger!AcceptJob
  <2> QED BY <2>3 DEF LedgerStep, Ledger!LedgerNext
<1>2. ASSUME NEW request \in Commands, Action(b, request) PROVE LedgerStep
  <2> DEFINE k == request.about
  <2>1. /\ k \in JobIds
        /\ jobs'[k].op = jobs[k].op
        /\ \/ jobs'[k].status = jobs[k].status
           \/ /\ jobs[k].status \in {"queued", "paused"}
              /\ jobs'[k].status = "cancelled"
           \/ /\ jobs[k].status = "paused" /\ IsFetch(k)
              /\ jobs'[k].status = "queued"
        /\ \A j \in JobIds \ {k} : jobs'[j] = jobs[j]
      BY <1>2, ActionRow
  <2> HIDE DEF k
  <2>2. /\ LedgerPhase = "open" /\ LedgerPhase' = LedgerPhase
        /\ owner' = owner /\ mode' = mode /\ thread' = thread
      BY <1>2, HandlingIsOpen, PhaseStays DEF Action
  <2>3. CASE jobs'[k].status = jobs[k].status
      BY <2>1, <2>2, <2>3, StutterStill DEF SameJobs
  <2>4. CASE jobs[k].status \in {"queued", "paused"} /\ jobs'[k].status = "cancelled"
    <3>1. Ledger!Cancel(k)
        BY <2>1, <2>2, <2>4, Becomes DEF Ledger!Cancel
    <3> QED BY <2>1, <3>1 DEF LedgerStep, Ledger!LedgerNext
  <2>5. CASE jobs[k].status = "paused" /\ jobs'[k].status = "queued"
    <3>1. Ledger!Resume(k)
        BY <2>1, <2>2, <2>5, Becomes DEF Ledger!Resume
    <3> QED BY <2>1, <3>1 DEF LedgerStep, Ledger!LedgerNext
  <2> QED BY <2>1, <2>3, <2>4, <2>5
<1>3. CASE BeginCleanup(b) \/ EndCleanup(b)
    BY <1>3, StutterStill DEF BeginCleanup, EndCleanup, durable, SameJobs
<1> QED BY <1>1, <1>2, <1>3 DEF Handle, Submit, SubmitFetch, SubmitInference

-----------------------------------------------------------------------------
(* The scheduler and the worker *)

(* A thread ends the job it works on: an ending, or a late result if close *)
(* has interrupted the job meanwhile.                                      *)
LEMMA EndImplements ==
    ASSUME IndInv, NEW b \in Boots, NEW s, NEW a, thread[b].pc \in WorkingCounters,
           s \in Ledger!Ended \cup {"paused", "interrupted"},
           jobs' = Changed(Active(b), s, a), Goto(b, "releasing"), mode' = mode,
           owner' = owner
    PROVE  LedgerStep
<1> USE IndInvParts
<1>0. PICK k \in JobIds : k = Active(b)
    BY DEF TypeOK, Thread, WorkingCounters, BusyCounters, Active
<1>1. Alive(b)
    BY DEF WorkingCounters, Alive
<1>2. /\ jobs'[k].status = s
      /\ \A j \in JobIds \ {k} : jobs'[j].status = jobs[j].status
      /\ \A j \in JobIds : jobs'[j].op = jobs[j].op
    BY <1>0 DEF Changed, TypeOK, Record
<1>3. LedgerPhase' = LedgerPhase
    BY <1>1, PhaseStays DEF Goto, TypeOK, Thread, Alive
<1>4. LedgerPhase = IF mode[b] \in Settling THEN "draining" ELSE "open"
    BY <1>1, PhaseOfThread
<1>5. \/ jobs[k].status = "running"
      \/ jobs[k].status = "interrupted" /\ mode[b] \in Settling
    BY <1>0 DEF QueueInv, WorkingJobStatus, Active
<1>6. CASE jobs[k].status = "running"
  <2>1. Ledger!End(k)
      BY <1>1, <1>2, <1>3, <1>4, <1>6, Becomes DEF Ledger!End
  <2> QED BY <2>1 DEF LedgerStep, Ledger!LedgerNext
<1>7. CASE jobs[k].status = "interrupted" /\ s # "interrupted"
  <2>1. Ledger!LateResult(k)
      BY <1>1, <1>2, <1>3, <1>4, <1>5, <1>7, Becomes DEF Ledger!LateResult
  <2> QED BY <2>1 DEF LedgerStep, Ledger!LedgerNext
<1>8. CASE jobs[k].status = "interrupted" /\ s = "interrupted"
  <2>1. SameJobs
      BY <1>2, <1>8 DEF SameJobs
  <2> QED BY <1>3, <2>1, Stutters
<1> QED BY <1>5, <1>6, <1>7, <1>8

(* Taking the next job is the ledger's start of one. *)
LEMMA NextJobImplements ==
    ASSUME IndInv, NEW b \in Boots, NextJob(b) PROVE LedgerStep
<1> USE IndInvParts
<1>1. CASE Startable = {}
    BY <1>1, StutterGoto DEF NextJob, memory, SameJobs, Alive
<1>2. CASE Startable # {}
  <2>1. PICK k \in JobIds :
             /\ jobs[k].status = "queued"
             /\ jobs' = Changed(k, "running", InitialRunningActions(jobs[k].op))
             /\ thread' = [thread EXCEPT ![b].pc = "starting", ![b].job = k]
      BY <1>2 DEF NextJob, Startable, Having
  <2>2. /\ jobs'[k].status = "running"
        /\ \A j \in JobIds \ {k} : jobs'[j].status = jobs[j].status
      BY <2>1 DEF Changed, TypeOK, Record
  <2>3. Alive(b) /\ thread[b].pc = "polling"
      BY DEF NextJob, Alive
  <2>4. LedgerPhase \in {"open", "draining"} /\ LedgerPhase' = LedgerPhase
    <3>1. LedgerPhase \in {"open", "draining"}
        BY <2>3, PhaseOfThread
    <3>2. \A c \in Boots : thread'[c].pc = "none" <=> thread[c].pc = "none"
        BY <2>1, <2>3 DEF TypeOK, Thread
    <3> QED BY <3>1, <3>2, PhaseStays DEF NextJob, memory
  <2>5. Ledger!NoneIs({"running"})
    <3>1. thread[b].job = NoJob
        BY <2>3 DEF TypeOK, BusyCounters
    <3> QED BY <2>3, <3>1, NullsAssumption
            DEF QueueInv, RunningIsActive, Having, Ledger!NoneIs
  <2>6. Ledger!Run(k)
      BY <2>1, <2>2, <2>4, <2>5, Becomes DEF Ledger!Run
  <2> QED BY <2>6 DEF LedgerStep, Ledger!LedgerNext
<1> QED BY <1>1, <1>2

(* The scheduler's own steps implement the ledger. *)
LEMMA RunImplements ==
    ASSUME IndInv, NEW b \in Boots, Run(b) PROVE LedgerStep
<1> USE IndInvParts DEF SameJobs, Alive
<1>1. CASE CheckClosing(b)
    BY <1>1, StutterGoto DEF CheckClosing, durable, memory
<1>2. CASE NextJob(b)
    BY <1>2, NextJobImplements
<1>3. CASE RunJob(b)
    BY <1>3, StutterGoto DEF RunJob, durable, memory
<1>4. CASE PopSecrets(b)
  <2>1. /\ thread'[b].pc # "none"
        /\ \A c \in Boots \ {b} : thread'[c] = thread[c]
      BY <1>4 DEF PopSecrets, TypeOK, Thread
  <2> QED BY <1>4, <2>1, StutterThread DEF PopSecrets, durable
<1>5. CASE ReportPhase(b)
    BY <1>5, StutterGoto DEF ReportPhase, durable, memory
<1>6. CASE SpawnPackage(b)
    BY <1>6, StutterGoto DEF SpawnPackage, durable, memory
<1>7. CASE Reaped(b)
  <2>1. thread[b].next # "none"
      BY <1>7 DEF Reaped, TypeOK
  <2> QED BY <1>7, <2>1, StutterGoto DEF Reaped, durable, memory
<1>8. CASE CollectExit(b)
  <2>1. /\ thread'[b].pc # "none"
        /\ \A c \in Boots \ {b} : thread'[c] = thread[c]
      BY <1>8 DEF CollectExit, AfterPackage, TypeOK, Thread
  <2> QED BY <1>8, <2>1, StutterThread DEF CollectExit, durable, memory
<1>9. CASE Finish(b)
  <2>1. CASE Goto(b, "failing") /\ jobs' = jobs
      BY <1>9, <2>1, StutterGoto DEF Finish, memory
  <2>2. CASE /\ FinalStatus(b, Active(b)) # "raises"
             /\ Goto(b, "releasing")
             /\ jobs' = Changed(Active(b), FinalStatus(b, Active(b)),
                                IF FinalStatus(b, Active(b)) = "paused"
                                  THEN {"resume", "cancel"} ELSE {})
    <3> DEFINE s == FinalStatus(b, Active(b))
    <3>1. s \in Ledger!Ended \cup {"paused", "interrupted"}
        BY <2>2 DEF FinalStatus, StoppedStatus, Ledger!Ended
    <3> HIDE DEF s
    <3> QED BY <1>9, <2>2, <3>1, EndImplements DEF Finish, memory, WorkingCounters, s
  <2> QED BY <1>9, <2>1, <2>2 DEF Finish
<1>10. CASE ReportFailure(b)
    BY <1>10, EndImplements DEF ReportFailure, memory, WorkingCounters, Ledger!Ended
<1>11. CASE Release(b)
  <2>1. /\ thread'[b].pc # "none"
        /\ \A c \in Boots \ {b} : thread'[c] = thread[c]
      BY <1>11 DEF Release, NoThread, TypeOK, Thread
  <2> QED BY <1>11, <2>1, StutterThread DEF Release, durable, memory
<1>12. CASE HaltForStorage(b)
    BY <1>12, StutterGoto DEF HaltForStorage, durable
<1> QED BY <1>1, <1>2, <1>3, <1>4, <1>5, <1>6, <1>7, <1>8, <1>9, <1>10, <1>11, <1>12
        DEF Run

(* Reaping a worker shows the ledger nothing. *)
LEMMA ReapImplements ==
    ASSUME IndInv, NEW b \in Boots, NEW next, Reap(b, next), Alive(b), jobs' = jobs,
           mode' = mode, owner' = owner
    PROVE  LedgerStep
<1>1. /\ thread'[b].pc # "none"
      /\ \A c \in Boots \ {b} : thread'[c] = thread[c]
    BY IndInvParts DEF Reap, TypeOK, Thread
<1> QED BY <1>1, IndInvParts, StutterThread DEF SameJobs

(* Watching a worker shows the ledger nothing. *)
LEMMA SuperviseImplements ==
    ASSUME IndInv, NEW b \in Boots, Supervise(b) PROVE LedgerStep
<1> USE IndInvParts
<1>1. CASE Progress(b)
  <2>1. SameJobs
      BY <1>1 DEF Progress, SameJobs, TypeOK, Record
  <2> QED BY <1>1, <2>1, StutterStill DEF Progress, memory
<1>2. CASE SendStop(b)
    BY <1>2, StutterStill DEF SendStop, durable, memory, SameJobs
<1>3. CASE LimitExceeded(b) \/ Stall(b)
    BY <1>3, ReapImplements DEF LimitExceeded, Stall, durable, memory, Alive
<1>4. CASE LoseStorage(b)
    BY <1>4, ReapImplements, StutterGoto
    DEF LoseStorage, durable, memory, SameJobs, Alive
<1> QED BY <1>1, <1>2, <1>3, <1>4 DEF Supervise

-----------------------------------------------------------------------------
(* Shutdown *)

(* The end of a process ends its ownership.                                *)
LEMMA LeaveImplements ==
    ASSUME IndInv, NEW b \in Boots, Gone(b) PROVE LedgerStep
<1> USE IndInvParts
<1>1. CASE owner = b
  <2>1. LedgerPhase # "down" /\ LedgerPhase' = "down"
      BY <1>1, PhaseOfOwner DEF Gone, LedgerPhase
  <2> QED BY <2>1 DEF Gone, durable, LedgerStep, Ledger!LedgerNext, Ledger!Leave
<1>2. CASE owner # b
  <2>1. /\ owner' = owner
        /\ \A a \in Boots \ {b} : thread'[a] = thread[a] /\ mode'[a] = mode[a]
      BY <1>2 DEF Gone, TypeOK
  <2> QED BY <1>2, <2>1, PhaseStays, Stutters DEF Gone, durable, SameJobs
<1> QED BY <1>1, <1>2

(* Shutdown and crashes implement the ledger. *)
LEMMA CloseImplements ==
    ASSUME IndInv, NEW b \in Boots, BeginClose(b) \/ Close(b) \/ Crash(b)
    PROVE  LedgerStep
<1> USE IndInvParts
<1>1. CASE BeginClose(b)
    BY <1>1, StutterMode DEF BeginClose, durable, SameJobs, Settling
<1>2. CASE StopActiveTraining(b)
  <2>1. SameJobs
      BY <1>2 DEF StopActiveTraining, SameJobs, TypeOK, Record
  <2> QED BY <1>2, <2>1, StutterMode DEF StopActiveTraining, Settling
<1>3. CASE StopActiveFails(b)
    BY <1>3, StutterMode DEF StopActiveFails, durable, SameJobs, Settling
<1>4. CASE Terminate(b)
    BY <1>4, StutterMode DEF Terminate, durable, SameJobs, Settling
<1>5. CASE Kill(b)
    BY <1>5, StutterMode DEF Kill, durable, SameJobs, Settling
<1>6. CASE BeginSettle(b)
  <2>1. CASE owner = b
    <3>1. mode[b] \notin Settling /\ mode'[b] \in Settling /\ owner' = b
        BY <1>6, <2>1 DEF BeginSettle, Settling, TypeOK
    <3>2. LedgerPhase \in {"recovering", "open"} /\ LedgerPhase' = "draining"
        BY <2>1, <3>1, NullsAssumption DEF LedgerPhase, Settling
    <3> QED BY <1>6, <3>2
            DEF BeginSettle, durable, LedgerStep, Ledger!LedgerNext, Ledger!Drain
  <2>2. CASE owner # b
    <3>1. \A a \in Boots \ {b} : mode'[a] = mode[a]
        BY <1>6 DEF BeginSettle, TypeOK
    <3> QED BY <1>6, <2>2, <3>1, PhaseStays, Stutters
            DEF BeginSettle, durable, SameJobs
  <2> QED BY <2>1, <2>2
<1>7. CASE SettleJob(b)
  <2>1. PICK k \in Having(Unfinished) : jobs' = Interrupted(k)
      BY <1>7 DEF SettleJob
  <2>2. /\ jobs[k].status \in {"queued", "running"}
        /\ jobs'[k].status \in {"interrupted"}
        /\ \A j \in JobIds \ {k} : jobs'[j].status = jobs[j].status
      BY <2>1 DEF Having, Unfinished, Interrupted, Changed, TypeOK, Record
  <2>3. LedgerPhase = "draining" /\ LedgerPhase' = LedgerPhase
      BY <1>7, PhaseOfOwner, PhaseStays
      DEF SettleJob, memory, LockFollowsThread, Settling
  <2>4. Ledger!CloseUnfinished(k)
      BY <2>2, <2>3, Becomes DEF Having, Ledger!CloseUnfinished
  <2> QED BY <2>4 DEF Having, LedgerStep, Ledger!LedgerNext
<1>8. CASE SettleEnds(b)
    BY <1>8, StutterMode DEF SettleEnds, durable, SameJobs, Settling
<1>9. CASE Unlock(b)
  <2>1. CASE owner = b /\ ~Alive(b)
    <3>1. LedgerPhase # "down" /\ LedgerPhase' = "down"
        BY <1>9, <2>1, PhaseOfOwner DEF Unlock, LedgerPhase
    <3> QED BY <1>9, <3>1 DEF Unlock, durable, LedgerStep, Ledger!LedgerNext, Ledger!Leave
  <2>2. CASE ~(owner = b /\ ~Alive(b))
      BY <1>9, <2>2, StutterMode DEF Unlock, durable, SameJobs, Settling
  <2> QED BY <2>1, <2>2
<1>10. CASE Exit(b) \/ Crash(b)
    BY <1>10, LeaveImplements DEF Exit, Crash
<1> QED BY <1>1, <1>2, <1>3, <1>4, <1>5, <1>6, <1>7, <1>8, <1>9, <1>10
        DEF Close, CloseRaised

-----------------------------------------------------------------------------
(* The refinement *)

(* Every step implements the ledger or shows it nothing. *)
LEMMA StepImplements == IndInv /\ [Next]_vars => LedgerStep
<1> SUFFICES ASSUME IndInv, [Next]_vars PROVE LedgerStep
    OBVIOUS
<1> USE IndInvParts
<1>1. CASE UNCHANGED vars
    BY <1>1, StutterStill DEF vars, SameJobs
<1>2. CASE CommandLineTakesProof \/ CommandLineReleasesProof
    BY <1>2, StutterStill
    DEF CommandLineTakesProof, CommandLineReleasesProof, durable, memory, SameJobs
<1>3. ASSUME NEW b \in Boots, Work(b) PROVE LedgerStep
    BY <1>3, StutterStill
    DEF Work, ChildStart, ChildReport, ChildExit, durable, memory, SameJobs
<1>4. CASE \E b \in Boots :
              \/ Start(b) \/ Handle(b) \/ Run(b) \/ Supervise(b) \/ Work(b)
              \/ BeginClose(b) \/ Close(b) \/ Crash(b)
    BY <1>3, <1>4, StartImplements, HandleImplements, RunImplements,
       SuperviseImplements, CloseImplements
<1> QED BY <1>1, <1>2, <1>4 DEF Next

(* The queue implements the job ledger: over every interleaving of         *)
(* requests, scheduler, worker, crash and shutdown, the table reconciles   *)
(* before it accepts, runs one job at a time and ends each job once.       *)
THEOREM Implementation == Spec => ImplementsLedger
<1>1. IndInv /\ [Next]_vars => [Ledger!LedgerNext]_<<StatusOf, LedgerPhase>>
    BY StepImplements DEF LedgerStep
<1>2. Init => Ledger!LedgerInit
    BY InitImplements
<1> QED BY <1>1, <1>2, Inductive, PTL
        DEF Spec, ImplementsLedger, Ledger!LedgerSpec, Ledger!ledger, StatusOf
=============================================================================
