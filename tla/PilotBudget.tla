----------------------------- MODULE PilotBudget -----------------------------
(***************************************************************************)
(* The ledger of rented instance time and the guard on the instance        *)
(* (pilot_budget.py, pilot_budget_records.py, pilot_budget_storage.py,     *)
(* schemas/pilot_budget.py, pilot_guard.py).  Every command holds          *)
(* .ledger.lock from its read to its write, so a command is one step; a    *)
(* command that is refused changes nothing and is no step.  Clocks count   *)
(* whole units of time.                                                    *)
(***************************************************************************)
EXTENDS Integers, Sequences, FiniteSets, FiniteSetsExt, SequencesExt, Functions

CONSTANTS
    Stages, StageSeconds,     \* STAGE_SECONDS
    MaximumSeconds,           \* maximum_total_seconds
    CheckpointReserve, ShutdownReserve,
    MaximumTransfer,          \* MAXIMUM_TRANSFER_SECONDS
    SessionIds,
    FirstTime, LastTime,      \* bound: the wall clock when nothing is recorded, and its end
    MaxTransfers, MaxJumps,   \* bounds: transfers, and changes of the wall clock
    Running                   \* no stopped_at yet

VARIABLES
    book,       \* ledger.json
    wall,       \* the wall clock of the instance, which may be set
    guard,      \* run_guard
    operation,  \* .operation.lock is held
    jumps       \* counts changes of the wall clock

pilotVars == <<book, wall, guard, operation, jumps>>

ASSUME PilotAssumption ==
    /\ StageSeconds \in [Stages -> Nat]
    /\ {MaximumSeconds, MaximumTransfer, MaxTransfers, MaxJumps} \subseteq Nat
    /\ {FirstTime, LastTime, CheckpointReserve, ShutdownReserve} \subseteq Nat
    /\ 0 < ShutdownReserve /\ ShutdownReserve < CheckpointReserve
    /\ Running \notin Int

-----------------------------------------------------------------------------
(* The ledger *)

Ended(s) == s.stopped # Running
Promised(s) == s.deadline - s.started            \* its allowance
Used(s) == s.stopped - s.started
CheckpointAt(s) == s.deadline - CheckpointReserve
PoweroffAt(s) == s.deadline - ShutdownReserve
Later(a, b) == IF a < b THEN b ELSE a

\* what a session counts: the time it took, or while it is open its allowance
Charges(b) ==
    [k \in DOMAIN b.sessions |->
        LET s == b.sessions[k] IN IF Ended(s) THEN Used(s) ELSE Promised(s)]
ChargesAt(b, now) ==
    [k \in DOMAIN b.sessions |->
        LET s == b.sessions[k]
        IN (IF Ended(s) THEN s.stopped ELSE Later(now, s.observed)) - s.started]

SessionsOf(b, stages) == {k \in DOMAIN b.sessions : b.sessions[k].stage \in stages}

\* consumed_seconds: an open session by the time so far, overruns too
Consumed(b, now, stages) == SumFunctionOnSet(ChargesAt(b, now), SessionsOf(b, stages))

\* _reserved_seconds: an open session by its allowance
ReservedFor(b, stage) == SumFunctionOnSet(Charges(b), SessionsOf(b, {stage}))

UsedBefore(b, k, stages) ==
    SumFunctionOnSet(Charges(b),
                     {j \in 1..(k - 1) : Ended(b.sessions[j]) /\ b.sessions[j].stage \in stages})

ConsistentSession(s) ==
    /\ s.kind = "observed" => s.started < CheckpointAt(s)
    /\ s.observed >= s.started
    /\ Ended(s) => s.stopped >= s.observed

\* a fault: a session only has to start after the one before it started
FaultyConsistent(b) ==
    /\ \A stage \in Stages : b.allocations[stage] >= 0
    /\ \A k \in DOMAIN b.sessions :
        LET s == b.sessions[k]
            charged == IF Ended(s) THEN Min({Promised(s), Used(s)}) ELSE Promised(s)
        IN /\ ConsistentSession(s)
           /\ k > 1 => s.started >= b.sessions[k - 1].started
           /\ ~Ended(s) => k = Len(b.sessions)
           /\ charged <= MaximumSeconds - UsedBefore(b, k, Stages)
           /\ charged <= b.allocations[s.stage] - UsedBefore(b, k, {s.stage})

\* the validators of PilotBudgetLedger: save_ledger writes nothing else
Consistent(b) ==
    /\ \A stage \in Stages : b.allocations[stage] >= 0
    /\ \A k \in DOMAIN b.sessions :
        LET s == b.sessions[k]
            charged == IF Ended(s) THEN Min({Promised(s), Used(s)}) ELSE Promised(s)
        IN /\ ConsistentSession(s)
           /\ k > 1 => LET before == b.sessions[k - 1] IN
                       s.started >= IF Ended(before) THEN before.stopped ELSE before.started
           /\ ~Ended(s) => k = Len(b.sessions)
           /\ charged <= MaximumSeconds - UsedBefore(b, k, Stages)
           /\ charged <= b.allocations[s.stage] - UsedBefore(b, k, {s.stage})

SaveBook(b) == Consistent(b) /\ book' = b

AnyOpen(b) == b.sessions # <<>> /\ ~Ended(Last(b.sessions))
Known(b, id) == \E k \in DOMAIN b.sessions : b.sessions[k].id = id
ActiveSession(b, id) == AnyOpen(b) /\ Last(b.sessions).id = id

StartSession(id, stage, started, allowance) ==
    /\ ~AnyOpen(book) /\ ~Known(book, id)
    /\ CheckpointReserve < allowance
    /\ allowance <= MaximumSeconds - Consumed(book, wall, Stages)
    /\ allowance <= book.allocations[stage] - Consumed(book, wall, {stage})
    /\ SaveBook([book EXCEPT !.sessions =
           Append(@, [id |-> id, stage |-> stage, kind |-> "observed", started |-> started,
                      deadline |-> started + allowance, observed |-> wall,
                      stopped |-> Running])])
    /\ UNCHANGED <<wall, guard, operation, jumps>>

\* a fault: the time of the check is the time of the stop, whatever the clock did
FaultyClosed(b, now) ==
    [b EXCEPT !.sessions[Len(b.sessions)].stopped = now]

\* when the clock went back the whole allowance is charged
Closed(b, now) ==
    LET s == Last(b.sessions) IN
    [b EXCEPT !.sessions[Len(b.sessions)].stopped =
         IF now < s.observed THEN Later(s.observed, s.deadline) ELSE now]

\* the operator saw the instance stopped
ConfirmStopped ==
    /\ AnyOpen(book)
    /\ SaveBook(Closed(book, wall))
    /\ UNCHANGED <<wall, guard, operation, jumps>>

\* time that ran without a session, entered afterwards where it belongs in time
AttestClosedSession(id, stage, started, stopped) ==
    /\ started < stopped /\ stopped <= wall
    /\ ~AnyOpen(book) /\ ~Known(book, id)
    /\ \A k \in DOMAIN book.sessions :
           ~(started < book.sessions[k].stopped /\ book.sessions[k].started < stopped)
    /\ stopped - started <= MaximumSeconds - Consumed(book, wall, Stages)
    /\ stopped - started <= book.allocations[stage] - ReservedFor(book, stage)
    /\ LET s == [id |-> id, stage |-> stage, kind |-> "attested", started |-> started,
                 deadline |-> stopped, observed |-> stopped, stopped |-> stopped]
           position == Cardinality({k \in DOMAIN book.sessions :
                                       book.sessions[k].started < started}) + 1
       IN SaveBook([book EXCEPT !.sessions = InsertAt(@, position, s)])
    /\ UNCHANGED <<wall, guard, operation, jumps>>

TransferAllocation(from, to, seconds) ==
    /\ book.transfers < MaxTransfers
    /\ from # to
    /\ seconds <= book.allocations[from] - ReservedFor(book, from)
    /\ SaveBook([book EXCEPT
           !.allocations = [book.allocations EXCEPT ![from] = @ - seconds, ![to] = @ + seconds],
           !.transfers = @ + 1])
    /\ UNCHANGED <<wall, guard, operation, jumps>>

-----------------------------------------------------------------------------
(* observe_session, by the guard and by the work on the instance *)

Observable(id) == ActiveSession(book, id) /\ wall >= Last(book.sessions).observed
Observe == SaveBook([book EXCEPT !.sessions[Len(book.sessions)].observed = wall])

\* PilotOperation: one at a time, and none once the save reserve has begun
BeginOperation(id) ==
    /\ ~operation
    /\ Observable(id) /\ CheckpointAt(Last(book.sessions)) > wall
    /\ Observe
    /\ operation' = TRUE
    /\ UNCHANGED <<wall, guard, jumps>>

\* the work is done, failed, or killed; the session stays open and is charged
EndOperation ==
    /\ operation
    /\ operation' = FALSE
    /\ UNCHANGED <<book, wall, guard, jumps>>

-----------------------------------------------------------------------------
(* run_guard: its monotonic deadlines are kept as the time left until them, never less *)
(* than nothing                                                                       *)

NoGuard == [pc |-> "none", id |-> Running, checkpoint |-> 0, stop |-> 0, requested |-> FALSE,
            due |-> FALSE, read |-> FALSE, promise |-> 0]

FromSession(s) ==
    LET now == Later(wall, s.observed) IN
    [checkpoint |-> Later(0, CheckpointAt(s) - now), stop |-> Later(0, PoweroffAt(s) - now)]

\* any refusal ends in a save request and a poweroff
StopEarly == guard' = [NoGuard EXCEPT !.pc = "poweroff", !.requested = TRUE]

StartGuard(id) ==
    /\ guard.pc = "none"
    /\ IF Observable(id)
       THEN LET d == FromSession(Last(book.sessions)) IN
            guard' = [NoGuard EXCEPT !.pc = "watch", !.id = id, !.due = TRUE,
                          !.checkpoint = d.checkpoint, !.stop = d.stop, !.promise = d.stop]
       ELSE StopEarly
    /\ UNCHANGED <<book, wall, operation, jumps>>

\* a fault: the deadlines are taken anew from what the session and the clock say now
FaultyShorten(g, d) == [checkpoint |-> d.checkpoint, stop |-> d.stop]

Shorten(g, d) ==
    [checkpoint |-> Min({g.checkpoint, d.checkpoint}), stop |-> Min({g.stop, d.stop})]

\* the deadline: the save was requested in this round or an earlier one
GuardDeadline ==
    /\ guard.pc = "watch" /\ guard.due /\ guard.stop = 0
    /\ StopEarly
    /\ UNCHANGED <<book, wall, operation, jumps>>

\* one round of the loop: the request when it is due, then the ledger; the next round
\* comes at once when the new deadlines have passed
GuardRound ==
    /\ guard.pc = "watch" /\ guard.due /\ guard.stop > 0
    /\ LET requested == guard.requested \/ guard.checkpoint = 0 IN
       \* pilot_budget_busy: another command holds the lock
       \/ /\ guard' = [guard EXCEPT !.requested = requested, !.due = FALSE, !.read = FALSE]
          /\ UNCHANGED book
       \/ /\ Observable(guard.id)
          /\ Observe
          /\ LET d == Shorten(guard, FromSession(Last(book'.sessions))) IN
             guard' = [guard EXCEPT !.requested = requested, !.read = TRUE,
                           !.checkpoint = d.checkpoint, !.stop = d.stop,
                           !.due = (IF requested THEN d.stop ELSE d.checkpoint) = 0]
       \/ ~Observable(guard.id) /\ StopEarly /\ UNCHANGED book
    /\ UNCHANGED <<wall, operation, jumps>>

\* a new guard for the next session
GuardGone ==
    /\ guard.pc = "poweroff"
    /\ guard' = NoGuard
    /\ UNCHANGED <<book, wall, operation, jumps>>

-----------------------------------------------------------------------------
(* Clocks: the guard sleeps no longer than a unit *)

Tick ==
    /\ wall < LastTime /\ ~guard.due
    /\ wall' = wall + 1
    /\ guard' = IF guard.pc = "watch"
                THEN [guard EXCEPT !.due = TRUE, !.checkpoint = Later(0, @ - 1),
                                   !.stop = Later(0, @ - 1), !.promise = @ - 1]
                ELSE guard
    /\ UNCHANGED <<book, operation, jumps>>

SetClock(t) ==
    /\ jumps < MaxJumps /\ jumps' = jumps + 1
    /\ wall' = t
    /\ guard' = [guard EXCEPT !.read = FALSE]
    /\ UNCHANGED <<book, operation>>

PilotInit ==
    /\ book = [sessions |-> <<>>, allocations |-> StageSeconds, transfers |-> 0]
    /\ wall = FirstTime
    /\ guard = NoGuard /\ operation = FALSE /\ jumps = 0

PilotNext ==
    \/ \E id \in SessionIds, stage \in Stages, started \in FirstTime..wall :
           \/ \E allowance \in 1..MaximumSeconds : StartSession(id, stage, started, allowance)
           \/ \E stopped \in FirstTime..wall : AttestClosedSession(id, stage, started, stopped)
    \/ \E from, to \in Stages, seconds \in 1..MaximumTransfer :
           TransferAllocation(from, to, seconds)
    \/ ConfirmStopped
    \/ \E id \in SessionIds : BeginOperation(id) \/ StartGuard(id)
    \/ EndOperation
    \/ GuardDeadline \/ GuardRound \/ GuardGone
    \/ Tick
    \/ \E t \in FirstTime..LastTime : SetClock(t)

PilotSpec == PilotInit /\ [][PilotNext]_pilotVars

-----------------------------------------------------------------------------
(* Properties *)

\* The operator can always close the open session: no order of transfers, attested runs,
\* overruns and clock changes leaves a ledger whose validation refuses the stop, which
\* would keep every later session out (confirm_stopped, save_ledger).
StopAlwaysConfirmable == AnyOpen(book) => Consistent(Closed(book, wall))

Overruns(b) ==
    [k \in DOMAIN b.sessions |->
        LET s == b.sessions[k] IN IF Ended(s) THEN Later(0, Used(s) - Promised(s)) ELSE 0]

\* Instance time is charged once and within the allocations: sessions do not overlap, an
\* open session's allowance is never transferred or attested away, and a stage is over
\* its allocation by no more than its sessions overran.
SpendingWithinAllocations ==
    /\ \A j, k \in DOMAIN book.sessions :
           j < k /\ Ended(book.sessions[j]) =>
               book.sessions[j].stopped <= book.sessions[k].started
    /\ \A stage \in Stages :
           ReservedFor(book, stage) <= book.allocations[stage] +
               SumFunctionOnSet(Overruns(book), DOMAIN book.sessions)

\* The guard powers the host off after at most the time the session had when the guard
\* started, even if the clock is set back or the ledger is busy; when the clock runs on
\* it obeys the deadline in the ledger; and it never powers off without a save request.
GuardStopsInTime ==
    /\ guard.pc = "watch" /\ ~guard.due =>
           /\ guard.promise > 0
           /\ guard.read /\ ActiveSession(book, guard.id) =>
                  wall < PoweroffAt(Last(book.sessions))
    /\ guard.pc = "poweroff" => guard.requested
=============================================================================
