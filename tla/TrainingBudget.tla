--------------------------- MODULE TrainingBudget ---------------------------
(***************************************************************************)
(* The accounting of local training time and the checkpoints it buys       *)
(* (training_budget.py, cpu_training.py, training_checkpoints.py,          *)
(* proof_operations.py).  Whoever holds .proof.lock works; others are      *)
(* refused and change nothing.  Time is counted in units of one save.      *)
(***************************************************************************)
EXTENDS Naturals, FiniteSets, FiniteSetsExt

CONSTANTS
    Experiments,         \* identifiers that may be asked for
    MaximumExperiments, MaximumTotal, MaximumExperiment,  \* BudgetLedger's limits
    SaveReserve,         \* save_reserve_seconds
    StopSteps,           \* stop_after_step of the requests
    Interval,            \* validation_interval_steps
    LongestStep,         \* the time one optimizer step and its validation may take
    Scores,              \* what a validation may measure, best last
    BestKept,            \* the measured checkpoints kept beside the latest one
    MaxCrashes,          \* bound: crashes, signals and failed writes
    Nothing

VARIABLES
    ledger,     \* ledger.json: total, spent of each registered experiment, active
    shelf,      \* the checkpoint directory of each experiment
    work,       \* the process inside ProofBudget
    trueTime,   \* history: what each experiment really used
    crashes

budgetVars == <<ledger, shelf, work, trueTime, crashes>>

ASSUME BudgetAssumption ==
    /\ {MaximumExperiments, MaximumTotal, MaximumExperiment, SaveReserve,
        BestKept, MaxCrashes} \subseteq Nat
    /\ {Interval, LongestStep} \cup StopSteps \subseteq Nat \ {0}
    /\ Scores \subseteq Nat
    \* the reserve covers one late step, its periodic save and the final save
    /\ LongestStep + 1 <= SaveReserve
    /\ Nothing # "train"
    /\ Nothing \notin [exp : Experiments, reserved : Nat]
    /\ Nothing \notin [name : Nat, step : Nat, score : Scores \cup {Nothing}]

RegisteredExperiments == DOMAIN ledger.spent
NoShelf == [lock |-> FALSE, pending |-> {}, done |-> {}, index |-> {}, latest |-> Nothing]
NoWork == [pc |-> "rest", kind |-> Nothing, exp |-> Nothing, resume |-> FALSE,
            reserved |-> 0, elapsed |-> 0, step |-> 0, stopAfter |-> 0, stop |-> FALSE,
            saving |-> Nothing, dropped |-> {}, then |-> Nothing]

WorkAt(pc) == work.pc = pc
MoveWork(pc) == work' = [work EXCEPT !.pc = pc]
MyShelf == shelf[work.exp]
SetMyShelf(new) == shelf' = [shelf EXCEPT ![work.exp] = new]
BudgetFault == crashes < MaxCrashes /\ crashes' = crashes + 1

TrainingRemaining == work.reserved - work.elapsed > SaveReserve

\* time passes inside the lock
SpendTime(w, d) == /\ work' = [w EXCEPT !.elapsed = @ + d]
               /\ trueTime' = [trueTime EXCEPT ![w.exp] = @ + d]

-----------------------------------------------------------------------------
(* ProofBudget *)

\* the lock is free and the ledger is read: first a crashed operation is charged
EnterBudget(kind, e, resume, stopAfter) ==
    /\ WorkAt("rest")
    /\ kind = "check" => resume /\ stopAfter = Max(StopSteps)
    /\ work' = [NoWork EXCEPT !.kind = kind, !.exp = e, !.resume = resume,
                               !.stopAfter = stopAfter,
                               !.pc = IF ledger.active = Nothing THEN "reserve"
                                      ELSE "reconcile"]
    /\ UNCHANGED <<ledger, shelf, trueTime, crashes>>

\* a fault: only what the limit leaves after the reserve is charged
FaultyReconcile ==
    /\ WorkAt("reconcile")
    /\ LET e == ledger.active.exp
           charge == IF ledger.active.reserved > SaveReserve
                     THEN ledger.active.reserved - SaveReserve ELSE 0 IN
           ledger' = [total |-> ledger.total + charge,
                      spent |-> [ledger.spent EXCEPT ![e] = @ + charge],
                      active |-> Nothing]
    /\ MoveWork("reserve")
    /\ UNCHANGED <<shelf, trueTime, crashes>>

\* _reconcile: the whole reservation, for nobody knows how long it ran
Reconcile ==
    /\ WorkAt("reconcile")
    /\ LET e == ledger.active.exp
           charge == ledger.active.reserved IN
           ledger' = [total |-> ledger.total + charge,
                      spent |-> [ledger.spent EXCEPT ![e] = @ + charge],
                      active |-> Nothing]
    /\ MoveWork("reserve")
    /\ UNCHANGED <<shelf, trueTime, crashes>>

\* _startup_retry: nothing but the lock file was ever left in the directory
StartupRetry(e) ==
    shelf[e].pending = {} /\ shelf[e].done = {} /\ shelf[e].latest = Nothing

SlotAdmitted(e, resume) ==
    LET existing == e \in RegisteredExperiments IN
    /\ \/ existing = resume
       \/ existing /\ ~resume /\ StartupRetry(e)
    /\ existing \/ Cardinality(RegisteredExperiments) < MaximumExperiments

SpentBy(e) == IF e \in RegisteredExperiments THEN ledger.spent[e] ELSE 0
LeftOf(limit, used) == IF used < limit THEN limit - used ELSE 0
Allowance(e) == Min({LeftOf(MaximumTotal, ledger.total),
                     LeftOf(MaximumExperiment, SpentBy(e))})

\* a fault: what the directory holds is not looked at
FaultyPreflightAllows(e, chosen, stopAfter) ==
    /\ chosen # Nothing => e \in RegisteredExperiments /\ chosen.step < stopAfter
    /\ e \in RegisteredExperiments \/ Cardinality(RegisteredExperiments) < MaximumExperiments
    /\ Allowance(e) > SaveReserve

\* training_preflight: what the queue asks before it starts a training worker. It reads
\* the ledger without the lock and charges nothing
PreflightAllows(e, chosen, stopAfter) ==
    /\ chosen # Nothing => e \in RegisteredExperiments /\ chosen.step < stopAfter
    /\ e \in RegisteredExperiments \/ Cardinality(RegisteredExperiments) < MaximumExperiments
    /\ e \in RegisteredExperiments /\ chosen = Nothing => StartupRetry(e)
    /\ Allowance(e) > SaveReserve

\* the slot, and the reservation that stands until the operation ends, in one write
ReserveTime ==
    /\ WorkAt("reserve")
    /\ IF SlotAdmitted(work.exp, work.resume) /\ Allowance(work.exp) > 0
       THEN /\ ledger' = [ledger EXCEPT
                              !.spent = [e \in RegisteredExperiments \cup {work.exp} |-> SpentBy(e)],
                              !.active = [exp |-> work.exp, reserved |-> Allowance(work.exp)]]
            /\ work' = [work EXCEPT !.pc = "load", !.reserved = Allowance(work.exp)]
       ELSE work' = NoWork /\ UNCHANGED ledger
    /\ UNCHANGED <<shelf, trueTime, crashes>>

\* __exit__: what was really used
ExitBudget ==
    /\ WorkAt("exit")
    /\ ledger' = [total |-> ledger.total + work.elapsed,
                  spent |-> [ledger.spent EXCEPT ![work.exp] = @ + work.elapsed],
                  active |-> Nothing]
    /\ work' = NoWork
    /\ UNCHANGED <<shelf, trueTime, crashes>>

\* _persist raises: nothing is written and the lock is released
PersistFails ==
    /\ work.pc \in {"reconcile", "reserve", "exit"} /\ BudgetFault
    /\ work' = NoWork
    /\ UNCHANGED <<ledger, shelf, trueTime>>

-----------------------------------------------------------------------------
(* train *)

\* create_session: from a chosen checkpoint or from the start; evaluations and exports
\* only read one
LoadSession ==
    /\ WorkAt("load")
    /\ \E step \in IF work.resume THEN {c.step : c \in MyShelf.done} ELSE {0} :
           work' = [work EXCEPT !.step = step,
                                !.pc = IF work.kind = "check" THEN "check"
                                       ELSE IF step > work.stopAfter THEN "exit" ELSE "train",
                                !.then = IF step > work.stopAfter THEN "failed" ELSE Nothing]
    /\ UNCHANGED <<ledger, shelf, trueTime, crashes>>

\* the data, the checkpoint or the environment is refused
SessionFails ==
    /\ WorkAt("load")
    /\ work' = [work EXCEPT !.pc = "exit", !.then = "failed"]
    /\ UNCHANGED <<ledger, shelf, trueTime, crashes>>

\* the first signal is remembered until the step is complete
StopSignal ==
    /\ work.kind = "train" /\ work.pc \notin {"reconcile", "reserve", "exit"}
    /\ ~work.stop /\ work' = [work EXCEPT !.stop = TRUE]
    /\ UNCHANGED <<ledger, shelf, trueTime, crashes>>

\* one optimizer step; a checkpoint when one is due by steps, or by time
TrainStep ==
    /\ WorkAt("train") /\ work.step < work.stopAfter /\ ~work.stop /\ TrainingRemaining
    /\ \E d \in 1..LongestStep, timed \in BOOLEAN :
           LET step == work.step + 1
               due == step % Interval = 0
           IN SpendTime([work EXCEPT !.step = step,
                                 !.pc = IF due \/ timed THEN "stage" ELSE "train",
                                 !.then = IF due THEN "measured" ELSE "timed"], d)
    /\ UNCHANGED <<ledger, shelf, crashes>>

\* completed, stopped or budget_exhausted: always one more checkpoint
LeaveLoop ==
    /\ WorkAt("train")
    /\ work.step >= work.stopAfter \/ work.stop \/ ~TrainingRemaining
    /\ work' = [work EXCEPT !.pc = "stage", !.then = "final"]
    /\ UNCHANGED <<ledger, shelf, trueTime, crashes>>

\* evaluate_checkpoint, export_checkpoint: work against the deadline
WorkToDeadline ==
    /\ WorkAt("check")
    /\ \/ /\ work.elapsed < work.reserved
          /\ SpendTime(work, 1)
       \/ /\ work' = [work EXCEPT !.pc = "exit", !.then = "checked"]
          /\ UNCHANGED trueTime
    /\ UNCHANGED <<ledger, shelf, crashes>>

-----------------------------------------------------------------------------
(* save_checkpoint *)

CheckpointNames(s) == {c.name : c \in s.pending \cup s.done \cup s.index}
FreshName(s) == Min(1..(Cardinality(CheckpointNames(s)) + 1) \ CheckpointNames(s))

\* the lock, the index, the pending directory; only a due checkpoint is measured, and
\* not when a stop or the limit came first
StageCheckpoint ==
    /\ WorkAt("stage")
    /\ \E score \in IF work.then = "measured" /\ ~work.stop /\ TrainingRemaining
                    THEN Scores \cup {Nothing} ELSE {Nothing} :
           LET c == [name |-> FreshName(MyShelf), step |-> work.step, score |-> score] IN
           /\ work' = [work EXCEPT !.pc = "write", !.saving = c]
           /\ SetMyShelf([MyShelf EXCEPT !.lock = TRUE, !.pending = @ \cup {c}])
    /\ UNCHANGED <<ledger, trueTime, crashes>>

\* state.pt, checked, and metadata.json
WriteCheckpoint ==
    /\ WorkAt("write")
    /\ SpendTime([work EXCEPT !.pc = "rename"], 1)
    /\ UNCHANGED <<ledger, shelf, crashes>>

PublishCheckpoint ==
    /\ WorkAt("rename")
    /\ SetMyShelf([MyShelf EXCEPT !.pending = @ \ {work.saving}, !.done = @ \cup {work.saving}])
    /\ MoveWork("index")
    /\ UNCHANGED <<ledger, trueTime, crashes>>

\* _retained: the latest and the best measured ones, ties in favour of a later step
Better(c, d) == \/ c.score > d.score
                \/ c.score = d.score /\ c.step > d.step
                \/ c.score = d.score /\ c.step = d.step /\ c.name > d.name
\* a fault: the latest one is kept for its measures only
FaultyRetained(index, latest) ==
    LET measured == {c \in index \cup {latest} : c.score # Nothing}
    IN {c \in measured : Cardinality({d \in measured : Better(d, c)}) < BestKept}

Retained(index, latest) ==
    LET candidates == index \cup {latest}
        measured == {c \in candidates : c.score # Nothing}
    IN {c \in candidates :
            \/ c = latest
            \/ c \in measured
               /\ Cardinality({d \in measured : Better(d, c)}) < BestKept}

\* index.json, after the new checkpoint was read back
WriteIndex ==
    /\ WorkAt("index")
    /\ LET kept == Retained(MyShelf.index, work.saving) IN
       /\ SetMyShelf([MyShelf EXCEPT !.index = kept, !.latest = work.saving])
       /\ work' = [work EXCEPT !.pc = "prune", !.saving = Nothing,
                               !.dropped = MyShelf.index \ kept]
    /\ UNCHANGED <<ledger, trueTime, crashes>>

\* the directories of the previous index that the new one dropped, one by one
PruneCheckpoints ==
    /\ WorkAt("prune")
    /\ IF work.dropped # {}
       THEN \E c \in work.dropped :
                /\ SetMyShelf([MyShelf EXCEPT !.done = @ \ {c}])
                /\ work' = [work EXCEPT !.dropped = @ \ {c}]
       ELSE /\ UNCHANGED shelf
            /\ work' = [work EXCEPT !.pc = IF work.then = "final" THEN "exit" ELSE "train"]
    /\ UNCHANGED <<ledger, trueTime, crashes>>

\* no space, no lock, a failed write: the stage is removed and the run ends as failed
CheckpointFails ==
    /\ work.pc \in {"stage", "write", "rename", "index", "prune"} /\ BudgetFault
    /\ SetMyShelf([MyShelf EXCEPT !.pending = @ \ {work.saving}])
    /\ work' = [work EXCEPT !.pc = "exit", !.then = "failed", !.saving = Nothing,
                            !.dropped = {}]
    /\ UNCHANGED <<ledger, trueTime>>

\* the process is killed: the lock goes, everything else stays
TrainerKilled ==
    /\ ~WorkAt("rest") /\ BudgetFault
    /\ work' = NoWork
    /\ UNCHANGED <<ledger, shelf, trueTime>>

-----------------------------------------------------------------------------
BudgetInit ==
    /\ ledger = [total |-> 0, spent |-> <<>>, active |-> Nothing]
    /\ shelf = [e \in Experiments |-> NoShelf]
    /\ work = NoWork /\ trueTime = [e \in Experiments |-> 0] /\ crashes = 0

BudgetNext ==
    \/ \E kind \in {"train", "check"}, e \in Experiments, resume \in BOOLEAN,
          stopAfter \in StopSteps : EnterBudget(kind, e, resume, stopAfter)
    \/ Reconcile \/ ReserveTime \/ ExitBudget \/ PersistFails
    \/ LoadSession \/ SessionFails \/ StopSignal \/ TrainStep \/ LeaveLoop \/ WorkToDeadline
    \/ StageCheckpoint \/ WriteCheckpoint \/ PublishCheckpoint \/ WriteIndex \/ PruneCheckpoints \/ CheckpointFails
    \/ TrainerKilled

BudgetSpec == BudgetInit /\ [][BudgetNext]_budgetVars

-----------------------------------------------------------------------------
(* Properties *)

\* No training time is ever forgotten or given twice: what an experiment really used is
\* covered by what it was charged and has reserved, over crashes, failed writes and
\* retries; and as long as the reserve covers the saves, no limit is exceeded.
TimeAccounted ==
    /\ ledger.total = MapThenSumSet(LAMBDA e : ledger.spent[e], RegisteredExperiments)
    /\ ledger.total <= MaximumTotal
    /\ Cardinality(RegisteredExperiments) <= MaximumExperiments
    /\ \A e \in Experiments :
           LET reserved == IF ledger.active # Nothing /\ ledger.active.exp = e
                           THEN ledger.active.reserved ELSE 0
           IN /\ trueTime[e] <= SpentBy(e) + reserved
              /\ SpentBy(e) + reserved <= MaximumExperiment

\* What the index names can be restored at every moment of a save and after any crash:
\* its checkpoints are whole and the latest is one of them. A training run that reached
\* its normal stop boundary has just saved its last step.
CheckpointsRestorable ==
    /\ \A e \in Experiments :
           /\ shelf[e].index \subseteq shelf[e].done
           /\ shelf[e].latest \in shelf[e].index \cup {Nothing}
           /\ shelf[e].index # {} => shelf[e].latest # Nothing
    /\ WorkAt("exit") /\ work.then = "final" =>
           MyShelf.latest # Nothing /\ MyShelf.latest.step = work.step

\* A training run that its preflight allowed is not refused by the budget afterwards,
\* unless another run came first or a reservation awaits its recovery: the two read the
\* ledger and the checkpoint directory separately and must agree.
PreflightKeepsItsWord ==
    WorkAt("rest") /\ ledger.active = Nothing =>
        \A e \in Experiments, stopAfter \in StopSteps :
            \A chosen \in shelf[e].done \cup {Nothing} :
                PreflightAllows(e, chosen, stopAfter) =>
                    /\ SlotAdmitted(e, chosen # Nothing)
                    /\ Allowance(e) > SaveReserve
                    /\ chosen # Nothing => chosen.step < stopAfter
=============================================================================
